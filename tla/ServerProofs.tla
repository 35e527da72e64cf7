---------------------------- MODULE ServerProofs ----------------------------
(***************************************************************************)
(* Theorems about Server, for any number of sub loops, descriptors,        *)
(* clients and sends.  The argument is the inductive invariant IInv: every *)
(* connection is in a phase on which state_, connections_, epoll and the   *)
(* functors handed over agree (PhasesAgree), a functor waits at one place  *)
(* (FunctorsWaitAtHome), and what epoll reported is still true when it is  *)
(* handled (EventsAgree, SocketsAgree).  The loops' own invariant is not   *)
(* proved again: every step of the server is one that EventLoop allows,    *)
(* and NextIInv of EventLoopProofs does the rest.                          *)
(***************************************************************************)
EXTENDS Server, SequenceTheorems, WellFoundedInduction, TLAPS

ELP == INSTANCE EventLoopProofs

-----------------------------------------------------------------------------
(* The inductive invariant behind the properties.                          *)

(* A functor waits at one place of one queue, that of the loop it is for.  *)
Once(s) == \A i, j \in DOMAIN s : s[i] = s[j] => i = j

FunctorsWaitAtHome ==
  /\ \A l \in Loops :
       /\ Once(functors[l]) /\ Once(to_do_list_[l])
       /\ FunctorsIn(functors[l]) \cap FunctorsIn(to_do_list_[l]) = {}
  /\ \A l \in Loops, c \in Conns :
       /\ HandleCloseInLoop(c) \in Waiting(l) => l = Main
       /\ ConnectionDestructor(c) \in Waiting(l) => l = LoopOf(c)

(* The phases of LifeCycle, with what was handed over until then.          *)
Entered(c)  == connections_[fd[c]] = c
Unborn(c)   == /\ state_[c] = "Invalid" /\ watch[c] = "none"
               /\ HandleCloseInLoop(c) \notin submitted
               /\ ConnectionDestructor(c) \notin submitted
Served(c)   == /\ state_[c] = "Connected" /\ Entered(c) /\ watch[c] # "none"
               /\ HandleCloseInLoop(c) \notin submitted
               /\ ConnectionDestructor(c) \notin submitted
Closing(c)  == /\ state_[c] = "Disconnected" /\ Entered(c) /\ watch[c] # "none"
               /\ HandleCloseInLoop(c) \in Waiting(Main)
               /\ ConnectionDestructor(c) \notin submitted
Closed(c)   == /\ state_[c] = "Disconnected" /\ ~Entered(c)
               /\ HandleCloseInLoop(c) \in submitted \ Waiting(Main)
               /\ ConnectionDestructor(c) \in submitted
               /\ watch[c] # "none" <=> ConnectionDestructor(c) \in Waiting(LoopOf(c))

Phase(c) == IF Accepted(c) THEN Served(c) \/ Closing(c) \/ Closed(c)
                           ELSE Unborn(c)

PhasesAgree == \A c \in Conns : Phase(c)

(* An entry of connections_ is under its connection's own descriptor.      *)
EntriesAgree ==
  /\ \A d \in Fds : connections_[d] # NoConn =>
       Accepted(connections_[d]) /\ fd[connections_[d]] = d
  /\ \A c \in Conns : Accepted(c) => fd[c] \in Fds
  /\ establishing # NoConn => Accepted(establishing)

(* epoll and the ready channels are about registered sockets, on their own *)
(* loops; the listening socket is ready only while a client waits.         *)
EventsAgree ==
  /\ \A c \in edge : watch[c] # "none"
  /\ \A c \in Conns, l \in Loops :
       {In(c), Out(c)} \cap ready[l] # {} =>
         Accepted(c) /\ l = LoopOf(c) /\ watch[c] # "none"
  /\ \A l \in Loops : Listen \in ready[l] => l = Main /\ next_conn_id_ <= arrived

(* What may be unread: at most one urgent byte, data without a break.      *)
Unreads == { <<>>, <<"data">>, <<"urgent">>, <<"data", "urgent">>,
             <<"urgent", "data">>, <<"data", "urgent", "data">> }

(* Bytes are reported only while there are some, and only a socket whose   *)
(* peer has reset it has a Send to complete.                               *)
SocketsAgree ==
  /\ unread \in [Conns -> Unreads]
  /\ \A c \in Conns : watch[c] = "inout" => peer[c] # "open"
  /\ \A c \in Conns, l \in Loops :
       /\ In(c) \in ready[l] => Pending(c)
       /\ Out(c) \in ready[l] => peer[c] # "open"

(* Functors are handed only to loops whose thread runs.                    *)
TargetsAreBound ==
  /\ next_conn_id_ > 1 => pc[Main] # "unbound"
  /\ \A c \in Conns :
       HandleCloseInLoop(c) \in submitted => pc[LoopOf(c)] # "unbound"

IInv == /\ TypeOK
        /\ EL!IInv
        /\ FunctorsWaitAtHome
        /\ PhasesAgree
        /\ EntriesAgree
        /\ EventsAgree
        /\ SocketsAgree
        /\ TargetsAreBound
        /\ IdleConnectionsAreWatched

-----------------------------------------------------------------------------
(* Sequences as queues: their elements, and no element twice.              *)

LEMMA ElementsOfSeq ==
  ASSUME NEW S, NEW s \in Seq(S)
  PROVE  FunctorsIn(s) \subseteq S
BY DEF FunctorsIn

LEMMA ElementsOfEmpty == FunctorsIn(<<>>) = {} /\ Once(<<>>)
BY DEF FunctorsIn, Once

LEMMA ElementsOfAppend ==
  ASSUME NEW S, NEW s \in Seq(S), NEW e \in S
  PROVE  /\ FunctorsIn(Append(s, e)) = FunctorsIn(s) \cup {e}
         /\ Once(s) /\ e \notin FunctorsIn(s) => Once(Append(s, e))
<1> DEFINE a == Append(s, e)
<1>1. /\ Len(s) \in Nat
      /\ DOMAIN s = 1 .. Len(s) /\ DOMAIN a = 1 .. Len(s) + 1
      /\ \A i \in 1 .. Len(s) : a[i] = s[i]
      /\ a[Len(s) + 1] = e
  BY AppendProperties
<1> HIDE DEF a
<1>2. FunctorsIn(a) = FunctorsIn(s) \cup {e}
  <2>1. FunctorsIn(a) \subseteq FunctorsIn(s) \cup {e}
    BY <1>1 DEF FunctorsIn
  <2>2. FunctorsIn(s) \subseteq FunctorsIn(a) /\ e \in FunctorsIn(a)
    BY <1>1 DEF FunctorsIn
  <2> QED
    BY <2>1, <2>2
<1>3. ASSUME Once(s), e \notin FunctorsIn(s) PROVE Once(a)
  BY <1>1, <1>3 DEF Once, FunctorsIn
<1> QED
  BY <1>2, <1>3 DEF a

LEMMA ElementsOfTail ==
  ASSUME NEW S, NEW s \in Seq(S), s # <<>>, Once(s)
  PROVE  /\ Head(s) \in FunctorsIn(s) /\ Once(Tail(s)) /\ Tail(s) \in Seq(S)
         /\ FunctorsIn(Tail(s)) = FunctorsIn(s) \ {Head(s)}
<1> DEFINE t == Tail(s)
<1>1. /\ Len(s) \in Nat /\ Len(s) >= 1 /\ Head(s) = s[1]
      /\ DOMAIN s = 1 .. Len(s)
      /\ t \in Seq(S) /\ DOMAIN t = 1 .. Len(s) - 1
      /\ \A i \in 1 .. Len(s) - 1 : t[i] = s[i + 1]
  BY HeadTailProperties
<1> HIDE DEF t
<1>2. Head(s) \in FunctorsIn(s)
  BY <1>1 DEF FunctorsIn
<1>3. Once(t)
  <2> SUFFICES ASSUME NEW i \in DOMAIN t, NEW j \in DOMAIN t, t[i] = t[j]
               PROVE  i = j
    BY DEF Once
  <2>1. i + 1 \in DOMAIN s /\ j + 1 \in DOMAIN s /\ s[i + 1] = s[j + 1]
    BY <1>1
  <2>2. i + 1 = j + 1
    BY <2>1 DEF Once
  <2> QED
    BY <1>1, <2>2
<1>4. FunctorsIn(t) \subseteq FunctorsIn(s) \ {Head(s)}
  <2> SUFFICES ASSUME NEW i \in DOMAIN t
               PROVE  t[i] \in FunctorsIn(s) /\ t[i] # Head(s)
    BY DEF FunctorsIn
  <2>1. i + 1 \in DOMAIN s /\ t[i] = s[i + 1] /\ i + 1 # 1 /\ 1 \in DOMAIN s
    BY <1>1
  <2> QED
    BY <1>1, <2>1 DEF Once, FunctorsIn
<1>5. FunctorsIn(s) \ {Head(s)} \subseteq FunctorsIn(t)
  <2> SUFFICES ASSUME NEW i \in DOMAIN s, s[i] # Head(s)
               PROVE  s[i] \in FunctorsIn(t)
    BY DEF FunctorsIn
  <2>1. i - 1 \in DOMAIN t /\ t[i - 1] = s[i]
    BY <1>1
  <2> QED
    BY <2>1 DEF FunctorsIn
<1> QED
  BY <1>1, <1>2, <1>3, <1>4, <1>5 DEF t

(* The kernel finds a lowest descriptor among any that are free.           *)
LEMMA MinIsIn ==
  ASSUME NEW S \in SUBSET Nat, S # {}
  PROVE  Min(S) \in S
<1> DEFINE R == {p \in Nat \X Nat : p[1] < p[2]}
<1>1. OpToRel(<, Nat) = R
  BY DEF OpToRel
<1>2. IsWellFoundedOn(R, Nat)
  BY <1>1, NatLessThanWellFounded
<1> HIDE DEF R
<1>3. PICK x \in S : \A y \in S : ~ (<<y, x>> \in R)
  BY <1>2, WFMin
<1>4. ASSUME NEW y \in S PROVE x <= y
  <2>1. <<y, x>> \in Nat \X Nat /\ <<y, x>>[1] = y /\ <<y, x>>[2] = x
    OBVIOUS
  <2>2. ~ (y < x)
    BY <1>3, <2>1 DEF R
  <2> QED
    BY <2>2
<1> QED
  BY <1>4 DEF Min

-----------------------------------------------------------------------------
(* Names: functors and events of different kinds or connections differ.    *)

LEMMA FunctorNames ==
  ASSUME NEW c \in Conns, NEW d \in Conns
  PROVE  /\ HandleCloseInLoop(c) \in Functors /\ ConnectionDestructor(c) \in Functors
         /\ HandleCloseInLoop(c) = HandleCloseInLoop(d) => c = d
         /\ ConnectionDestructor(c) = ConnectionDestructor(d) => c = d
         /\ HandleCloseInLoop(c) # ConnectionDestructor(d)
BY DEF HandleCloseInLoop, ConnectionDestructor, Functors

LEMMA EventNames ==
  ASSUME NEW c \in Conns, NEW d \in Conns
  PROVE  /\ {In(c), Out(c), Expired(c), Listen} \subseteq Channels
         /\ In(c) = In(d) => c = d
         /\ Out(c) = Out(d) => c = d
         /\ In(c) # Out(d) /\ In(c) # Expired(d) /\ Out(c) # Expired(d)
         /\ Listen \notin {In(c), Out(c), Expired(c)}
         /\ Wakeup \notin {In(c), Out(c), Expired(c), Listen}
<1>1. {In(c), Out(c), Expired(c), Listen} \subseteq Channels
  BY DEF Channels
<1>2. Wakeup \notin {In(c), Out(c), Expired(c), Listen}
  BY <1>1, LoopsAssumption
<1>3. In(c) = In(d) => c = d
  BY DEF In
<1>5. Out(c) = Out(d) => c = d
  BY DEF Out
<1>6. In(c) # Out(d)
  BY DEF In, Out
<1>7. In(c) # Expired(d) /\ Out(c) # Expired(d)
  BY DEF In, Out, Expired
<1>4. Listen \notin {In(c), Out(c), Expired(c)}
  BY DEF In, Out, Expired, Listen
<1> QED
  BY <1>1, <1>2, <1>3, <1>4, <1>5, <1>6, <1>7

(* Every connection has a sub loop, which is not the main loop.            *)
LEMMA SubLoops ==
  ASSUME TypeOK, NEW c \in Conns
  PROVE  LoopOf(c) \in Subs /\ LoopOf(c) \in Loops /\ LoopOf(c) # Main /\ Main \in Loops
<1>1. fd[c] \in Fds \cup {0}
  <2>1. fd \in [Conns -> Fds \cup {0}]
    BY DEF TypeOK
  <2> QED
    BY <2>1
<1>2. fd[c] \in Nat
  <2>1. CASE fd[c] = 0
    BY <2>1
  <2>2. CASE fd[c] \in Fds
    BY <2>2, FdsAssumption, Zenon
  <2> QED
    BY <1>1, <2>1, <2>2
<1>3. NSub \in Nat /\ NSub > 0
  BY NSubAssumption
<1>4. fd[c] % NSub \in 0 .. NSub - 1
  BY <1>2, <1>3
<1>5. Subs \subseteq Nat /\ Subs \subseteq Loops /\ Main \in Loops
  BY <1>3 DEF Subs, Loops
<1> QED
  BY <1>4, <1>5, LoopsAssumption DEF LoopOf, Subs

(* What waits was handed over.                                             *)
LEMMA WaitingWasSubmitted ==
  ASSUME TypeOK, NEW l \in Loops
  PROVE  Waiting(l) \subseteq submitted
BY ElementsOfSeq DEF TypeOK, EL!TypeOK, Waiting

(* What is unread is one of a few sequences, whatever arrives and is read, *)
(* and an urgent byte alone when there is something but no data.           *)
LEMMA UnreadsAreSeqs == Unreads \subseteq Seq({"data", "urgent"})
BY DEF Unreads

LEMMA ShortSeqs ==
  ASSUME NEW S, NEW s \in Seq(S)
  PROVE  /\ Len(s) = 0 => s = <<>>
         /\ Len(s) = 1 => s = <<s[1]>>
         /\ Len(s) = 2 => s = <<s[1], s[2]>>
         /\ Len(s) = 3 => s = <<s[1], s[2], s[3]>>
<1>1. Len(s) = 0 => s = <<>>
  BY EmptySeq
<1>2. Len(s) = 1 => s = <<s[1]>>
  BY SeqEqual
<1>3. Len(s) = 2 => s = <<s[1], s[2]>>
  BY SeqEqual
<1>4. Len(s) = 3 => s = <<s[1], s[2], s[3]>>
  BY SeqEqual
<1> QED
  BY <1>1, <1>2, <1>3, <1>4

LEMMA EndsOfShortSeqs ==
  /\ \A x : Tail(<<x>>) = <<>>
  /\ \A x, y : Tail(<<x, y>>) = <<y>>
  /\ \A x, y, z : Tail(<<x, y, z>>) = <<y, z>>
  /\ \A x : Append(<<>>, x) = <<x>>
  /\ \A x, y : Append(<<x>>, y) = <<x, y>>
  /\ \A x, y, z : Append(<<x, y>>, z) = <<x, y, z>>
<1>1. \A x : Tail(<<x>>) = <<>>
  <2> TAKE x
  <2> QED
    BY ShortSeqs
<1>2. \A x, y : Tail(<<x, y>>) = <<y>>
  <2> TAKE x, y
  <2>1. /\ Tail(<<x, y>>) \in Seq({x, y}) /\ Len(Tail(<<x, y>>)) = 1
        /\ Tail(<<x, y>>)[1] = y
    OBVIOUS
  <2> QED
    BY <2>1, ShortSeqs
<1>3. \A x, y, z : Tail(<<x, y, z>>) = <<y, z>>
  <2> TAKE x, y, z
  <2>1. /\ Tail(<<x, y, z>>) \in Seq({x, y, z}) /\ Len(Tail(<<x, y, z>>)) = 2
        /\ Tail(<<x, y, z>>)[1] = y
        /\ Tail(<<x, y, z>>)[2] = z
    OBVIOUS
  <2> QED
    BY <2>1, ShortSeqs
<1>4. \A x : Append(<<>>, x) = <<x>>
  <2> TAKE x
  <2>1. /\ Append(<<>>, x) \in Seq({x}) /\ Len(Append(<<>>, x)) = 1
        /\ Append(<<>>, x)[1] = x
    OBVIOUS
  <2> QED
    BY <2>1, ShortSeqs
<1>5. \A x, y : Append(<<x>>, y) = <<x, y>>
  <2> TAKE x, y
  <2>1. /\ Append(<<x>>, y) \in Seq({x, y}) /\ Len(Append(<<x>>, y)) = 2
        /\ Append(<<x>>, y)[1] = x
        /\ Append(<<x>>, y)[2] = y
    OBVIOUS
  <2> QED
    BY <2>1, ShortSeqs
<1>6. \A x, y, z : Append(<<x, y>>, z) = <<x, y, z>>
  <2> TAKE x, y, z
  <2>1. /\ Append(<<x, y>>, z) \in Seq({x, y, z}) /\ Len(Append(<<x, y>>, z)) = 3
        /\ Append(<<x, y>>, z)[1] = x
        /\ Append(<<x, y>>, z)[2] = y
        /\ Append(<<x, y>>, z)[3] = z
    OBVIOUS
  <2> QED
    BY <2>1, ShortSeqs
<1> QED
  BY <1>1, <1>2, <1>3, <1>4, <1>5, <1>6

LEMMA DataArrives ==
  ASSUME NEW u \in Unreads
  PROVE  (IF u # <<>> /\ Last(u) = "data" THEN u ELSE Append(u, "data")) \in Unreads \ {<<>>}
<1>1. CASE u \in {<<>>, <<"urgent">>, <<"data", "urgent">>}
  <2>1. u = <<>> \/ Last(u) = "urgent"
    BY <1>1 DEF Last
  <2>2. /\ Append(<<>>, "data") = <<"data">>
        /\ Append(<<"urgent">>, "data") = <<"urgent", "data">>
        /\ Append(<<"data", "urgent">>, "data") = <<"data", "urgent", "data">>
    BY EndsOfShortSeqs, Zenon
  <2>3. {<<"data">>, <<"urgent", "data">>, <<"data", "urgent", "data">>}
          \subseteq Unreads \ {<<>>}
    BY DEF Unreads
  <2>4. Append(u, "data") \in Unreads \ {<<>>}
    BY <1>1, <2>2, <2>3, Zenon
  <2> QED
    BY <2>1, <2>4
<1>2. CASE u \in {<<"data">>, <<"urgent", "data">>, <<"data", "urgent", "data">>}
  <2>1. u # <<>> /\ Last(u) = "data"
    BY <1>2 DEF Last
  <2> QED
    BY <2>1
<1> QED
  BY <1>1, <1>2 DEF Unreads

LEMMA UnreadIsRead ==
  ASSUME NEW u \in Unreads
  PROVE  AfterRead(u) \in Unreads
<1>0. /\ Tail(<<"urgent">>) = <<>> /\ Tail(<<"data">>) = <<>>
      /\ Tail(<<"urgent", "data">>) = <<"data">>
      /\ Tail(<<"data", "urgent">>) = <<"urgent">>
      /\ Tail(<<"data", "urgent", "data">>) = <<"urgent", "data">>
  <2>1. Tail(<<"urgent">>) = <<>> /\ Tail(<<"data">>) = <<>>
    BY EndsOfShortSeqs, Zenon
  <2>2. Tail(<<"urgent", "data">>) = <<"data">>
    BY EndsOfShortSeqs, Zenon
  <2>3. Tail(<<"data", "urgent">>) = <<"urgent">>
    BY EndsOfShortSeqs, Zenon
  <2>4. Tail(<<"data", "urgent", "data">>) = <<"urgent", "data">>
    <3>1. \A x, y, z : Tail(<<x, y, z>>) = <<y, z>>
      BY EndsOfShortSeqs
    <3> QED
      BY <3>1, Zenon
  <2> QED
    BY <2>1, <2>2, <2>3, <2>4
<1>1. CASE u \in {<<>>, <<"urgent">>}
  <2>1. Unurgent(u) = <<>>
    BY <1>0, <1>1 DEF Unurgent
  <2> QED
    BY <2>1 DEF AfterRead, Unreads
<1>2. CASE u \in {<<"data">>, <<"urgent", "data">>}
  <2>1. Unurgent(u) = <<"data">>
    <3>1. CASE u = <<"data">>
      BY <3>1 DEF Unurgent
    <3>2. CASE u = <<"urgent", "data">>
      BY <1>0, <3>2 DEF Unurgent
    <3> QED
      BY <1>2, <3>1, <3>2
  <2> QED
    BY <1>0, <2>1 DEF AfterRead, Unreads
<1>3. CASE u \in {<<"data", "urgent">>, <<"data", "urgent", "data">>}
  <2>1. Unurgent(u) = u /\ u # <<>>
    BY <1>3 DEF Unurgent
  <2>2. Tail(u) \in Unreads
    BY <1>0, <1>3 DEF Unreads
  <2> QED
    BY <2>1, <2>2 DEF AfterRead
<1> QED
  BY <1>1, <1>2, <1>3 DEF Unreads

LEMMA UrgentIsAlone ==
  ASSUME NEW u \in Unreads, u # <<>>, "data" \notin ToSet(u)
  PROVE  u = <<"urgent">>
<1>1. \A i \in DOMAIN u : u[i] # "data"
  BY DEF ToSet
<1> QED
  BY <1>1 DEF Unreads

-----------------------------------------------------------------------------
(* The parts of the invariant a step leaves alone.                         *)

LEMMA WaitingRests ==
  ASSUME NEW l, UNCHANGED <<functors, to_do_list_>>
  PROVE  Waiting(l)' = Waiting(l)
BY DEF Waiting

LEMMA HomesRest ==
  ASSUME FunctorsWaitAtHome, UNCHANGED <<functors, to_do_list_, fd>>
  PROVE  FunctorsWaitAtHome'
BY DEF FunctorsWaitAtHome, Waiting, LoopOf

(* A connection keeps its phase while nothing the phase is about changes.  *)
SamePhase(c) ==
  /\ Accepted(c)' <=> Accepted(c)
  /\ state_'[c] = state_[c]
  /\ Accepted(c) => (Entered(c)' <=> Entered(c))
  /\ watch'[c] = "none" <=> watch[c] = "none"
  /\ HandleCloseInLoop(c) \in submitted' <=> HandleCloseInLoop(c) \in submitted
  /\ ConnectionDestructor(c) \in submitted' <=> ConnectionDestructor(c) \in submitted
  /\ HandleCloseInLoop(c) \in Waiting(Main)' <=> HandleCloseInLoop(c) \in Waiting(Main)
  /\ ConnectionDestructor(c) \in Waiting(LoopOf(c))'
       <=> ConnectionDestructor(c) \in Waiting(LoopOf(c))

LEMMA PhaseStays ==
  ASSUME NEW c \in Conns, Phase(c), SamePhase(c)
  PROVE  Phase(c)'
BY DEF SamePhase, Phase, Unborn, Served, Closing, Closed

LEMMA PhasesRest ==
  ASSUME PhasesAgree,
         UNCHANGED <<next_conn_id_, state_, connections_, fd, watch, submitted>>,
         \A l \in Loops : Waiting(l)' = Waiting(l),
         TypeOK
  PROVE  PhasesAgree'
<1> SUFFICES ASSUME NEW c \in Conns PROVE Phase(c)'
  BY DEF PhasesAgree
<1>1. LoopOf(c) \in Loops /\ Main \in Loops /\ LoopOf(c)' = LoopOf(c)
  BY SubLoops DEF LoopOf
<1>2. /\ Waiting(Main)' = Waiting(Main)
      /\ Waiting(LoopOf(c))' = Waiting(LoopOf(c))
  BY <1>1 DEF LoopOf
<1>3. SamePhase(c)
  BY <1>2 DEF SamePhase, Accepted, Entered
<1> QED
  BY <1>3, PhaseStays DEF PhasesAgree

LEMMA EntriesRest ==
  ASSUME EntriesAgree, UNCHANGED <<next_conn_id_, connections_, fd, establishing>>
  PROVE  EntriesAgree'
BY DEF EntriesAgree, Accepted

(* Edges and ready channels may be handled, and come only from epoll.      *)
LEMMA EventsRest ==
  ASSUME EventsAgree, UNCHANGED <<next_conn_id_, fd>>, arrived' >= arrived,
         next_conn_id_ \in Nat, arrived \in Nat, arrived' \in Nat,
         \A c \in edge' : watch'[c] # "none",
         \A c \in Conns : watch[c] # "none" => watch'[c] # "none",
         \A l \in Loops : ready'[l] \subseteq ready[l]
  PROVE  EventsAgree'
BY DEF EventsAgree, Accepted, LoopOf

LEMMA TargetsRest ==
  ASSUME TargetsAreBound, UNCHANGED <<next_conn_id_, fd, pc, submitted>>
  PROVE  TargetsAreBound'
BY DEF TargetsAreBound, LoopOf

LEMMA LoopsRest == EL!IInv /\ UNCHANGED loopVars => EL!IInv'
BY DEF loopVars, EL!IInv, EL!TypeOK, EL!PlacesAgree, EL!WakeupOnItsWay,
       EL!WakeupReadable

(* Every step of EventLoop keeps its invariant.                            *)
LEMMA LoopsKeepIInv == EL!IInv /\ [EL!Next]_(EL!vars) => EL!IInv'
<1>1. ELP!IInv /\ [ELP!Next]_(ELP!vars) => ELP!IInv'
  BY LoopsAssumption, ELP!NextIInv
<1>2. [EL!Next]_(EL!vars) => [ELP!Next]_(ELP!vars)
  BY DEF EL!Next, EL!vars, EL!Progress, EL!PollAny, EL!Poll, EL!At,
         EL!WriteWakeup, EL!Bind, EL!HandleRead, EL!HandleEvent, EL!Dispatch,
         EL!Body, EL!NoCall, EL!QueueOneFunc, EL!RunOneFunc, EL!BeginDoToDoList,
         EL!EndDoToDoList, EL!RunFunctor, EL!Take, EL!Bound,
         ELP!Next, ELP!vars, ELP!Progress, ELP!PollAny, ELP!Poll, ELP!At,
         ELP!WriteWakeup, ELP!Bind, ELP!HandleRead, ELP!HandleEvent, ELP!Dispatch,
         ELP!Body, ELP!NoCall, ELP!QueueOneFunc, ELP!RunOneFunc,
         ELP!BeginDoToDoList, ELP!EndDoToDoList, ELP!RunFunctor, ELP!Take,
         ELP!Bound
<1>3. (EL!IInv <=> ELP!IInv) /\ (EL!IInv' <=> ELP!IInv')
  BY DEF EL!IInv, EL!TypeOK, EL!PlacesAgree, EL!WakeupOnItsWay, EL!WakeupReadable,
         ELP!IInv, ELP!TypeOK, ELP!PlacesAgree, ELP!WakeupOnItsWay,
         ELP!WakeupReadable
<1> QED
  BY <1>1, <1>2, <1>3

-----------------------------------------------------------------------------
(* Clients, timers and the end of HandleConnection: the loops rest.        *)

LEMMA Bounds ==
  ASSUME TypeOK
  PROVE  /\ arrived \in Nat /\ arrived <= MaxConn /\ MaxConn \in Nat
         /\ next_conn_id_ \in Nat /\ next_conn_id_ >= 1
         /\ next_conn_id_ <= arrived + 1
BY BoundsAssumption DEF TypeOK

LEMMA ClientConnectKeepsIInv == ASSUME IInv, ClientConnect PROVE IInv'
<1> USE DEF IInv
<1>1. EL!IInv'
  BY LoopsRest DEF ClientConnect
<1>2. TypeOK'
  <2>1. arrived' \in 0 .. MaxConn /\ next_conn_id_' \in 1 .. arrived' + 1
    BY Bounds DEF ClientConnect, connVars
  <2>2. EL!TypeOK'
    BY <1>1 DEF EL!IInv
  <2> QED
    BY <2>1, <2>2 DEF ClientConnect, TypeOK, sockVars, connVars, timerVars
<1>3. FunctorsWaitAtHome' /\ EntriesAgree' /\ TargetsAreBound'
  BY HomesRest, EntriesRest, TargetsRest DEF ClientConnect, loopVars, connVars
<1>4. PhasesAgree'
  BY PhasesRest, WaitingRests DEF ClientConnect, loopVars, connVars
<1>5. EventsAgree'
  BY EventsRest, Bounds DEF ClientConnect, loopVars, connVars, sockVars, EventsAgree
<1>6. SocketsAgree' /\ IdleConnectionsAreWatched'
  BY DEF ClientConnect, loopVars, connVars, sockVars, timerVars, SocketsAgree,
         Pending, IdleConnectionsAreWatched
<1> QED
  BY <1>1, <1>2, <1>3, <1>4, <1>5, <1>6

(* Bytes, a FIN or a reset arrive: what was readable stays readable.       *)
LEMMA ArrivalKeepsIInv ==
  ASSUME IInv, NEW c \in Conns, RaiseEdge(c),
         sent' \in [Conns -> 0 .. MaxSend],
         unread' \in [Conns -> Unreads],
         \A d \in Conns : unread[d] # <<>> => unread'[d] # <<>>,
         peer' \in [Conns -> {"open", "fin", "rst", "pipe"}],
         \A d \in Conns : peer[d] # "open" => peer'[d] # "open",
         UNCHANGED <<loopVars, arrived, connVars, timerVars, crash>>
  PROVE  IInv'
<1> USE DEF IInv
<1>1. EL!IInv'
  BY LoopsRest
<1>2. TypeOK'
  <2>1. edge' \subseteq Conns
    BY DEF RaiseEdge, TypeOK
  <2>2. EL!TypeOK'
    BY <1>1 DEF EL!IInv
  <2>3. unread' \in [Conns -> Seq({"data", "urgent"})]
    BY UnreadsAreSeqs
  <2> QED
    BY <2>1, <2>2, <2>3 DEF TypeOK, connVars, timerVars
<1>3. FunctorsWaitAtHome' /\ EntriesAgree' /\ TargetsAreBound'
  BY HomesRest, EntriesRest, TargetsRest DEF loopVars, connVars
<1>4. PhasesAgree'
  BY PhasesRest, WaitingRests DEF loopVars, connVars
<1>5. EventsAgree'
  <2>1. \A d \in edge' : watch'[d] # "none"
    BY DEF RaiseEdge, EventsAgree, connVars
  <2> QED
    BY <2>1, EventsRest, Bounds DEF loopVars, connVars
<1>6. SocketsAgree' /\ IdleConnectionsAreWatched'
  BY DEF loopVars, connVars, timerVars, SocketsAgree, Pending,
         IdleConnectionsAreWatched
<1> QED
  BY <1>1, <1>2, <1>3, <1>4, <1>5, <1>6

LEMMA ClientKeepsIInv ==
  ASSUME IInv, NEW c \in Conns,
         \/ ClientSend(c) \/ ClientSendUrgent(c) \/ ClientClose(c) \/ ClientReset(c)
  PROVE  IInv'
<1> USE DEF IInv
<1>1. CASE ClientSend(c) \/ ClientSendUrgent(c)
  <2>1. sent' \in [Conns -> 0 .. MaxSend]
    <3>1. sent[c] \in 0 .. MaxSend /\ sent[c] < MaxSend /\ MaxSend \in Nat
      BY <1>1, BoundsAssumption DEF ClientSend, ClientSendUrgent, TypeOK
    <3>2. sent[c] + 1 \in 0 .. MaxSend
      BY <3>1
    <3> QED
      BY <1>1, <3>2 DEF ClientSend, ClientSendUrgent, TypeOK
  <2>2. \E v \in Unreads \ {<<>>} : unread' = [unread EXCEPT ![c] = v]
    <3>1. unread[c] \in Unreads
      BY DEF SocketsAgree
    <3>2. CASE ClientSend(c)
      <4> DEFINE u == unread[c]
                 v == IF u # <<>> /\ Last(u) = "data" THEN u ELSE Append(u, "data")
      <4>1. unread' = [unread EXCEPT ![c] = v]
        BY <3>2 DEF ClientSend
      <4>2. v \in Unreads \ {<<>>}
        BY <3>1, DataArrives
      <4> QED
        BY <4>1, <4>2
    <3>3. CASE ClientSendUrgent(c)
      <4>1. {<<"data", "urgent">>, <<"urgent">>} \subseteq Unreads \ {<<>>}
        BY DEF Unreads
      <4> QED
        BY <3>3, <4>1 DEF ClientSendUrgent
    <3> QED
      BY <1>1, <3>2, <3>3
  <2>3. /\ unread' \in [Conns -> Unreads]
        /\ \A d \in Conns : unread[d] # <<>> => unread'[d] # <<>>
    BY <2>2 DEF SocketsAgree
  <2> QED
    BY <1>1, <2>1, <2>3, ArrivalKeepsIInv DEF ClientSend, ClientSendUrgent, TypeOK
<1>2. CASE ClientClose(c)
  BY <1>2, ArrivalKeepsIInv DEF ClientClose, clientVars, TypeOK, SocketsAgree
<1>3. CASE ClientReset(c)
  BY <1>3, ArrivalKeepsIInv DEF ClientReset, clientVars, TypeOK, SocketsAgree
<1> QED
  BY <1>1, <1>2, <1>3

(* Timers, and main at the end of HandleNewConnection.                     *)
LEMMA TimersKeepIInv ==
  ASSUME IInv, HandleConnection \/ \E c \in Conns : TimerExpires(c)
  PROVE  IInv'
<1> USE DEF IInv
<1>1. /\ UNCHANGED <<loopVars, clientVars, sockVars, active, crash,
                     next_conn_id_, connections_, fd, state_, watch, reading, held>>
      /\ establishing' \in {establishing, NoConn}
      /\ timer' \in [Conns -> {"none", "armed", "due"}]
      /\ IdleConnectionsAreWatched'
  <2>1. ASSUME NEW c \in Conns, TimerExpires(c) PROVE <1>1!:
    BY <2>1 DEF TimerExpires, connVars, TypeOK, IdleConnectionsAreWatched
  <2>2. CASE HandleConnection
    BY <2>2 DEF HandleConnection, TypeOK, IdleConnectionsAreWatched
  <2> QED
    BY <2>1, <2>2
<1>2. EL!IInv'
  BY <1>1, LoopsRest
<1>3. TypeOK'
  <2>1. EL!TypeOK'
    BY <1>2 DEF EL!IInv
  <2> QED
    BY <1>1, <2>1 DEF TypeOK, clientVars, sockVars
<1>4. FunctorsWaitAtHome' /\ TargetsAreBound'
  BY <1>1, HomesRest, TargetsRest DEF loopVars
<1>5. EntriesAgree'
  BY <1>1 DEF EntriesAgree, Accepted
<1>6. PhasesAgree'
  BY <1>1, PhasesRest, WaitingRests DEF loopVars
<1>7. EventsAgree'
  BY <1>1, EventsRest, Bounds DEF loopVars, clientVars, sockVars, EventsAgree
<1>8. SocketsAgree'
  BY <1>1 DEF loopVars, sockVars, SocketsAgree, Pending
<1> QED
  BY <1>1, <1>2, <1>3, <1>4, <1>5, <1>6, <1>7, <1>8

-----------------------------------------------------------------------------
(* The steps of a loop that run no code of the server.                     *)

LEMMA HarvestIsOfChannels ==
  ASSUME TypeOK, NEW l \in Loops
  PROVE  Harvest(l) \in SUBSET Channels
<1>1. \A c \in Conns : {In(c), Out(c), Expired(c), Listen} \subseteq Channels
  BY EventNames
<1>2. Listen \in Channels
  BY DEF Channels
<1>3. OnLoop(l) \subseteq Conns
  BY DEF OnLoop
<1> QED
  BY <1>1, <1>2, <1>3 DEF Harvest, HarvestWith

LEMMA PollKeepsIInv ==
  ASSUME IInv, NEW l \in Loops, Poll(l)
  PROVE  IInv' /\ EL!Next
<1> USE DEF IInv
<1>1. EL!Next
  BY HarvestIsOfChannels DEF Poll, EL!Next, EL!PollAny, EL!Poll
<1>2. EL!IInv'
  BY <1>1, LoopsKeepIInv
<1>3. /\ \A k \in Loops \ {l} : ready'[k] = ready[k]
      /\ ready'[l] \subseteq Harvest(l) \cup {Wakeup}
      /\ pc[l] = "poll" /\ pc' = [pc EXCEPT ![l] = "dispatch"]
      /\ UNCHANGED <<eventfd, to_do_list_, functors, calling_functors_, waking,
                     submitted, ran>>
  BY DEF Poll, EL!Poll, EL!At, EL!IInv, EL!TypeOK
<1>4. TypeOK'
  <2>1. EL!TypeOK' /\ edge' \subseteq Conns
    BY <1>2 DEF EL!IInv, Poll, TypeOK
  <2> QED
    BY <2>1 DEF Poll, TypeOK, clientVars, connVars, timerVars
<1>5. FunctorsWaitAtHome' /\ EntriesAgree'
  BY <1>3, HomesRest, EntriesRest DEF Poll, connVars
<1>6. PhasesAgree'
  BY <1>3, PhasesRest, WaitingRests DEF Poll, connVars
<1>7. ASSUME NEW c \in Conns, NEW k \in Loops, {In(c), Out(c)} \cap ready'[k] # {}
      PROVE  /\ Accepted(c) /\ k = LoopOf(c) /\ watch[c] # "none"
             /\ In(c) \in ready'[k] => Pending(c)
             /\ Out(c) \in ready'[k] => peer[c] # "open"
  <2>1. CASE k # l
    <3>1. ready'[k] = ready[k]
      BY <1>3, <2>1
    <3> QED
      BY <1>7, <3>1 DEF EventsAgree, SocketsAgree
  <2>2. CASE k = l
    <3>1. In(c) \in ready'[l] => c \in edge \cap OnLoop(l) /\ Pending(c)
      BY <1>3, EventNames DEF Harvest, HarvestWith, OnLoop
    <3>2. Out(c) \in ready'[l] => c \in edge \cap OnLoop(l) /\ watch[c] = "inout"
      BY <1>3, EventNames DEF Harvest, HarvestWith, OnLoop
    <3> QED
      BY <1>7, <2>2, <3>1, <3>2 DEF OnLoop, EventsAgree, SocketsAgree
  <2> QED
    BY <2>1, <2>2
<1>8. ASSUME NEW k \in Loops, Listen \in ready'[k]
      PROVE  k = Main /\ next_conn_id_ <= arrived
  <2>1. CASE k # l
    BY <1>3, <1>8, <2>1 DEF EventsAgree
  <2>2. CASE k = l
    <3>1. Listen # Wakeup
      BY LoopsAssumption DEF Channels
    <3>2. Listen \in Harvest(l)
      BY <1>3, <1>8, <2>2, <3>1
    <3> QED
      BY <2>2, <3>2, EventNames DEF Harvest, HarvestWith, OnLoop
  <2> QED
    BY <2>1, <2>2
<1>9. EventsAgree'
  BY <1>7, <1>8 DEF EventsAgree, Poll, connVars, clientVars, Accepted, LoopOf
<1>10. SocketsAgree'
  BY <1>7 DEF SocketsAgree, Poll, connVars, Pending
<1>11. TargetsAreBound'
  BY <1>3 DEF TargetsAreBound, Poll, connVars, LoopOf, EL!IInv, EL!TypeOK
<1>12. IdleConnectionsAreWatched'
  BY DEF IdleConnectionsAreWatched, Poll, connVars, timerVars
<1> QED
  BY <1>1, <1>2, <1>4, <1>5, <1>6, <1>9, <1>10, <1>11, <1>12

(* WriteWakeup, Bind, HandleRead and the two ends of DoToDoList.           *)
LEMMA PlainStepKeepsIInv ==
  ASSUME IInv, NEW l \in Loops, LoopStep(l) \/ EndDoToDoList(l)
  PROVE  IInv' /\ EL!Next
<1> USE DEF IInv
<1>1. /\ \/ EL!WriteWakeup(l) \/ EL!Bind(l) \/ EL!BeginDoToDoList(l)
         \/ EL!HandleRead(l) \/ EL!EndDoToDoList(l)
      /\ UNCHANGED <<clientVars, sockVars, next_conn_id_, connections_, fd,
                     state_, watch, reading, establishing, timerVars, crash>>
      /\ held' \in [Loops -> SUBSET Conns]
  BY DEF LoopStep, EndDoToDoList, connVars, TypeOK
<1>2. EL!Next
  BY <1>1 DEF EL!Next, EL!Progress
<1>3. EL!IInv'
  BY <1>2, LoopsKeepIInv
<1>4. /\ submitted' = submitted
      /\ \A k \in Loops : ready'[k] \subseteq ready[k]
      /\ \A k \in Loops : pc[k] # "unbound" => pc'[k] # "unbound"
  BY <1>1 DEF EL!WriteWakeup, EL!Bind, EL!BeginDoToDoList, EL!HandleRead,
              EL!EndDoToDoList, EL!IInv, EL!TypeOK
<1>5. FunctorsWaitAtHome' /\ \A k \in Loops : Waiting(k)' = Waiting(k)
  <2>1. CASE UNCHANGED <<functors, to_do_list_>>
    BY <1>1, <2>1, HomesRest, WaitingRests
  <2>2. CASE EL!BeginDoToDoList(l)
    <3>1. functors[l] = <<>> /\ functors'[l] = to_do_list_[l] /\ to_do_list_'[l] = <<>>
      BY <2>2 DEF EL!BeginDoToDoList, EL!At, EL!IInv, EL!TypeOK, EL!PlacesAgree
    <3>2. \A k \in Loops \ {l} :
            functors'[k] = functors[k] /\ to_do_list_'[k] = to_do_list_[k]
      BY <2>2 DEF EL!BeginDoToDoList, EL!IInv, EL!TypeOK
    <3>3. FunctorsIn(<<>>) = {} /\ Once(<<>>)
      BY ElementsOfEmpty
    <3>4. \A k \in Loops : Waiting(k)' = Waiting(k)
      BY <3>1, <3>2, <3>3 DEF Waiting
    <3>5. \A k \in Loops :
            /\ Once(functors[k])' /\ Once(to_do_list_[k])'
            /\ FunctorsIn(functors'[k]) \cap FunctorsIn(to_do_list_'[k]) = {}
      <4> SUFFICES ASSUME NEW k \in Loops
                   PROVE  /\ Once(functors'[k]) /\ Once(to_do_list_'[k])
                          /\ FunctorsIn(functors'[k]) \cap FunctorsIn(to_do_list_'[k]) = {}
        BY DEF Once
      <4> QED
        BY <3>1, <3>2, <3>3 DEF FunctorsWaitAtHome
    <3>6. \A k \in Loops, c \in Conns :
            /\ (HandleCloseInLoop(c) \in Waiting(k) => k = Main)'
            /\ (ConnectionDestructor(c) \in Waiting(k) => k = LoopOf(c))'
      BY <1>1, <3>4 DEF FunctorsWaitAtHome, LoopOf
    <3> QED
      BY <3>4, <3>5, <3>6 DEF FunctorsWaitAtHome
  <2> QED
    BY <1>1, <2>1, <2>2 DEF EL!WriteWakeup, EL!Bind, EL!HandleRead, EL!EndDoToDoList
<1>6. TypeOK'
  <2>1. EL!TypeOK'
    BY <1>3 DEF EL!IInv
  <2> QED
    BY <1>1, <2>1 DEF TypeOK, clientVars, sockVars, timerVars
<1>7. EntriesAgree'
  BY <1>1, EntriesRest
<1>8. PhasesAgree'
  BY <1>1, <1>4, <1>5, PhasesRest
<1>9. EventsAgree'
  BY <1>1, <1>4, EventsRest, Bounds DEF clientVars, sockVars, EventsAgree
<1>10. SocketsAgree'
  BY <1>1, <1>4 DEF SocketsAgree, sockVars, Pending
<1>11. TargetsAreBound'
  <2>1. \A c \in Conns : LoopOf(c)' = LoopOf(c) /\ LoopOf(c) \in Loops /\ Main \in Loops
    BY <1>1, SubLoops DEF LoopOf
  <2>2. Main \in Loops
    BY DEF Loops
  <2> QED
    BY <1>1, <1>4, <2>1, <2>2 DEF TargetsAreBound
<1>12. IdleConnectionsAreWatched'
  BY <1>1 DEF IdleConnectionsAreWatched, timerVars
<1> QED
  BY <1>2, <1>3, <1>5, <1>6, <1>7, <1>8, <1>9, <1>10, <1>11, <1>12

-----------------------------------------------------------------------------
(* A connection in connections_ exists, so the descriptor accept() returns *)
(* is one under which there is no entry.                                   *)
LEMMA FreshDescriptor ==
  ASSUME TypeOK, EntriesAgree, ~(Fds \subseteq OpenFds)
  PROVE  LET d == Min(Fds \ OpenFds) IN d \in Fds /\ connections_[d] = NoConn
<1> DEFINE d == Min(Fds \ OpenFds)
<1>1. d \in Fds \ OpenFds
  <2>1. Fds \ OpenFds \in SUBSET Nat
    BY FdsAssumption
  <2> QED
    BY <2>1, MinIsIn
<1> HIDE DEF d
<1>2. ASSUME connections_[d] # NoConn PROVE FALSE
  <2> DEFINE c == connections_[d]
  <2>1. c \in Conns /\ Accepted(c) /\ fd[c] = d
    BY <1>1, <1>2 DEF EntriesAgree, TypeOK
  <2>2. Alive(c)
    BY <1>1 DEF Alive
  <2>3. fd[c] \in OpenFds
    BY <2>1, <2>2 DEF OpenFds
  <2> QED
    BY <1>1, <2>1, <2>3
<1> QED
  BY <1>1, <1>2 DEF d

LEMMA AcceptKeepsIInv ==
  ASSUME IInv, AcceptConnection
  PROVE  IInv' /\ EL!Next
<1> USE DEF IInv
<1>1. Main \in Loops
  BY DEF Loops
<1>2. /\ EL!At(Main, "dispatch") /\ Listen \in ready[Main]
      /\ ready' = [ready EXCEPT ![Main] = @ \ {Listen}]
      /\ UNCHANGED <<pc, eventfd, functors, calling_functors_, to_do_list_,
                     waking, submitted, ran, clientVars, unread, peer, timerVars>>
  BY DEF AcceptConnection, EL!Dispatch, EL!NoCall
<1>3. EL!Next
  <2>1. Listen \in Channels
    BY DEF Channels
  <2>2. EL!HandleEvent(Main, Listen)
    BY DEF AcceptConnection, EL!HandleEvent, EL!Body
  <2> QED
    BY <1>1, <2>1, <2>2 DEF EL!Next, EL!Progress
<1>4. EL!IInv' /\ EL!TypeOK'
  BY <1>3, LoopsKeepIInv DEF EL!IInv
<1>5. \A l \in Loops : ready'[l] \subseteq ready[l] /\ Waiting(l)' = Waiting(l)
  BY <1>1, <1>2, WaitingRests DEF EL!IInv, EL!TypeOK
<1>6. CASE UNCHANGED <<edge, connVars>> /\ crash' = "exit"
  <2>1. TypeOK'
    BY <1>2, <1>4, <1>6 DEF TypeOK, clientVars, connVars, timerVars
  <2>2. FunctorsWaitAtHome' /\ EntriesAgree' /\ TargetsAreBound'
    BY <1>2, <1>6, HomesRest, EntriesRest, TargetsRest DEF connVars
  <2>3. PhasesAgree'
    BY <1>2, <1>5, <1>6, PhasesRest DEF connVars
  <2>4. EventsAgree'
    BY <1>2, <1>5, <1>6, EventsRest, Bounds DEF connVars, clientVars, EventsAgree
  <2>5. SocketsAgree' /\ IdleConnectionsAreWatched'
    BY <1>2, <1>5, <1>6 DEF connVars, timerVars, SocketsAgree, Pending,
                            IdleConnectionsAreWatched
  <2> QED
    BY <1>3, <1>4, <2>1, <2>2, <2>3, <2>4, <2>5
<1>7. ASSUME ~(Fds \subseteq OpenFds), HandleNewConnection(Min(Fds \ OpenFds)),
             UNCHANGED <<reading, held, crash>>
      PROVE  IInv'
  <2> DEFINE d == Min(Fds \ OpenFds)
             c == next_conn_id_
  <2>1. d \in Fds /\ connections_[d] = NoConn
    BY <1>7, FreshDescriptor
  <2>2. c \in Conns /\ c <= arrived /\ ~Accepted(c) /\ NoConn \notin Conns
    BY <1>1, <1>2, Bounds DEF EventsAgree, Conns, Accepted, NoConn
  <2>3. /\ fd' = [fd EXCEPT ![c] = d]
        /\ connections_' = [connections_ EXCEPT ![d] = c]
        /\ next_conn_id_' = c + 1 /\ establishing' = c
        /\ state_' = [state_ EXCEPT ![c] = "Connected"]
        /\ watch' = [watch EXCEPT ![c] = "in"]
        /\ edge' \subseteq edge \cup {c}
    BY <1>7 DEF HandleNewConnection, ConnectionEstablished, EnableRead, UpdateChannel
  <2> HIDE DEF d
  <2>4. Unborn(c)
    BY <2>2 DEF PhasesAgree, Phase
  <2>5. \A e \in Conns : (Accepted(e)' <=> Accepted(e) \/ e = c)
    BY <2>2, <2>3, Bounds DEF Accepted, Conns
  <2>6. \A e \in Conns \ {c} : fd'[e] = fd[e] /\ state_'[e] = state_[e]
                               /\ watch'[e] = watch[e]
    BY <2>3 DEF TypeOK
  <2>7. fd'[c] = d /\ state_'[c] = "Connected" /\ watch'[c] = "in"
    BY <2>2, <2>3 DEF TypeOK
  <2>8. connections_'[d] = c /\ \A b \in Fds \ {d} : connections_'[b] = connections_[b]
    BY <2>1, <2>3 DEF TypeOK
  <2>9. TypeOK'
    <3>1. next_conn_id_' \in 1 .. arrived' + 1 /\ arrived' = arrived
      BY <1>2, <2>2, <2>3, Bounds DEF clientVars
    <3>2. connections_' \in [Fds -> Conns \cup {NoConn}]
      BY <2>1, <2>2, <2>3 DEF TypeOK
    <3>3. fd' \in [Conns -> Fds \cup {0}]
      BY <2>1, <2>2, <2>3 DEF TypeOK
    <3>4. /\ state_' \in [Conns -> {"Invalid", "Connected", "Disconnected"}]
          /\ watch' \in [Conns -> {"none", "in", "inout"}]
          /\ edge' \subseteq Conns /\ establishing' \in Conns \cup {NoConn}
      BY <2>2, <2>3 DEF TypeOK
    <3> QED
      BY <1>2, <1>4, <1>7, <3>1, <3>2, <3>3, <3>4 DEF TypeOK, clientVars, timerVars
  <2>10. FunctorsWaitAtHome'
    <3>1. ASSUME NEW e \in Conns, NEW l \in Loops, ConnectionDestructor(e) \in Waiting(l)
          PROVE  l = LoopOf(e)'
      <4>1. e # c
        BY <2>4, <3>1, WaitingWasSubmitted DEF Unborn
      <4> QED
        BY <2>6, <3>1, <4>1 DEF FunctorsWaitAtHome, LoopOf
    <3> QED
      BY <1>2, <1>5, <3>1 DEF FunctorsWaitAtHome
  <2>11. PhasesAgree'
    <3> SUFFICES ASSUME NEW e \in Conns PROVE Phase(e)'
      BY DEF PhasesAgree
    <3>1. CASE e = c
      <4>1. Served(e)'
        BY <1>2, <2>4, <2>7, <2>8, <3>1 DEF Served, Unborn, Entered
      <4> QED
        BY <2>5, <3>1, <4>1 DEF Phase
    <3>2. CASE e # c
      <4>1. ASSUME Accepted(e) PROVE Entered(e)' <=> Entered(e)
        <5>1. fd[e] \in Fds /\ fd'[e] = fd[e]
          BY <2>6, <3>2, <4>1 DEF EntriesAgree
        <5>2. CASE fd[e] = d
          BY <2>1, <2>2, <2>8, <3>2, <5>1, <5>2 DEF Entered
        <5>3. CASE fd[e] # d
          BY <2>8, <5>1, <5>3 DEF Entered
        <5> QED
          BY <5>2, <5>3
      <4>2. LoopOf(e) \in Loops /\ LoopOf(e)' = LoopOf(e)
        BY <2>6, <3>2, SubLoops DEF LoopOf
      <4>3. SamePhase(e)
        BY <1>1, <1>2, <1>5, <2>5, <2>6, <3>2, <4>1, <4>2 DEF SamePhase
      <4> QED
        BY <4>3, PhaseStays DEF PhasesAgree
    <3> QED
      BY <3>1, <3>2
  <2>12. EntriesAgree'
    <3>1. ASSUME NEW b \in Fds, connections_'[b] # NoConn
          PROVE  Accepted(connections_[b])' /\ fd'[connections_'[b]] = b
      <4>1. CASE b = d
        BY <2>2, <2>5, <2>7, <2>8, <4>1 DEF Accepted
      <4>2. CASE b # d
        <5>1. connections_'[b] = connections_[b] /\ connections_[b] \in Conns
          BY <2>8, <3>1, <4>2 DEF TypeOK
        <5>2. Accepted(connections_[b]) /\ fd[connections_[b]] = b
          BY <3>1, <5>1 DEF EntriesAgree
        <5>3. connections_[b] # c
          BY <2>2, <5>2
        <5> QED
          BY <2>5, <2>6, <5>1, <5>2, <5>3 DEF Accepted
      <4> QED
        BY <4>1, <4>2
    <3>2. \A e \in Conns : Accepted(e)' => fd'[e] \in Fds
      BY <2>1, <2>5, <2>6, <2>7 DEF EntriesAgree
    <3>3. Accepted(establishing)'
      BY <2>2, <2>3, Bounds DEF Accepted
    <3> QED
      BY <3>1, <3>2, <3>3 DEF EntriesAgree
  <2>13. EventsAgree'
    <3>1. \A e \in edge' : watch'[e] # "none"
      BY <2>3, <2>6, <2>7 DEF EventsAgree, TypeOK
    <3>2. ASSUME NEW e \in Conns, NEW l \in Loops, {In(e), Out(e)} \cap ready'[l] # {}
          PROVE  Accepted(e)' /\ l = LoopOf(e)' /\ watch'[e] # "none"
      <4>1. Accepted(e) /\ l = LoopOf(e) /\ watch[e] # "none"
        BY <1>5, <3>2 DEF EventsAgree
      <4>2. e # c
        BY <2>2, <4>1
      <4> QED
        BY <2>5, <2>6, <4>1, <4>2 DEF LoopOf
    <3>3. \A l \in Loops : Listen \notin ready'[l]
      BY <1>1, <1>2 DEF EventsAgree, EL!IInv, EL!TypeOK
    <3> QED
      BY <3>1, <3>2, <3>3 DEF EventsAgree
  <2>14. SocketsAgree'
    BY <1>2, <1>5, <2>6, <2>7 DEF SocketsAgree, Pending
  <2>15. TargetsAreBound'
    <3>1. pc'[Main] # "unbound"
      BY <1>1, <1>2 DEF EL!At
    <3>2. ASSUME NEW e \in Conns, HandleCloseInLoop(e) \in submitted'
          PROVE  pc'[LoopOf(e)'] # "unbound"
      <4>1. e # c
        BY <1>2, <2>4, <3>2 DEF Unborn
      <4> QED
        BY <1>2, <2>6, <3>2, <4>1 DEF TargetsAreBound, LoopOf
    <3> QED
      BY <3>1, <3>2 DEF TargetsAreBound
  <2>16. IdleConnectionsAreWatched'
    <3>1. establishing = NoConn
      BY DEF AcceptConnection, MayHandle, Free
    <3> QED
      BY <1>2, <2>2, <2>3, <2>6, <3>1 DEF IdleConnectionsAreWatched, timerVars
  <2> QED
    BY <1>4, <2>9, <2>10, <2>11, <2>12, <2>13, <2>14, <2>15, <2>16
<1> QED
  BY <1>3, <1>6, <1>7 DEF AcceptConnection

-----------------------------------------------------------------------------
(* Queues: the next functor is taken from a batch, one is handed over.     *)

LEMMA TakeMoves ==
  ASSUME TypeOK, FunctorsWaitAtHome, NEW m \in Loops, functors[m] # <<>>,
         functors' = [functors EXCEPT ![m] = Tail(@)]
  PROVE  /\ functors' \in [Loops -> Seq(submitted)]
         /\ Head(functors[m]) \in Waiting(m)
         /\ Head(functors[m]) \notin FunctorsIn(to_do_list_[m])
         /\ FunctorsIn(functors'[m]) = FunctorsIn(functors[m]) \ {Head(functors[m])}
         /\ \A k \in Loops : Once(functors'[k]) /\ FunctorsIn(functors'[k]) \subseteq FunctorsIn(functors[k])
         /\ \A k \in Loops \ {m} : functors'[k] = functors[k]
<1> DEFINE s == functors[m]
<1>1. functors \in [Loops -> Seq(submitted)]
  BY DEF TypeOK, EL!TypeOK
<1>2. \A k \in Loops : Once(functors[k])
  BY DEF FunctorsWaitAtHome
<1>3. /\ Head(s) \in FunctorsIn(s) /\ Once(Tail(s)) /\ Tail(s) \in Seq(submitted)
      /\ FunctorsIn(Tail(s)) = FunctorsIn(s) \ {Head(s)}
  BY <1>1, <1>2, ElementsOfTail
<1> HIDE DEF s
<1>4. functors'[m] = Tail(s) /\ \A k \in Loops \ {m} : functors'[k] = functors[k]
  BY <1>1 DEF s
<1>5. functors' \in [Loops -> Seq(submitted)]
  BY <1>1, <1>3 DEF s
<1>6. Head(s) \in Waiting(m) /\ Head(s) \notin FunctorsIn(to_do_list_[m])
  BY <1>3 DEF s, Waiting, FunctorsWaitAtHome
<1>7. \A k \in Loops : Once(functors'[k]) /\ FunctorsIn(functors'[k]) \subseteq FunctorsIn(functors[k])
  BY <1>2, <1>3, <1>4 DEF s
<1> QED
  BY <1>3, <1>4, <1>5, <1>6, <1>7 DEF s

QueuesOnce ==
  \A k \in Loops : /\ Once(functors[k]) /\ Once(to_do_list_[k])
                   /\ FunctorsIn(functors[k]) \cap FunctorsIn(to_do_list_[k]) = {}

LEMMA HandOverMoves ==
  ASSUME TypeOK, FunctorsWaitAtHome, NEW l \in Loops, NEW f \in Functors \ submitted,
         \A k \in Loops : /\ Once(functors'[k])
                          /\ FunctorsIn(functors'[k]) \subseteq FunctorsIn(functors[k]),
         to_do_list_' = [to_do_list_ EXCEPT ![l] = Append(@, f)]
  PROVE  /\ QueuesOnce'
         /\ \A k \in Loops :
              Waiting(k)' = FunctorsIn(functors'[k]) \cup FunctorsIn(to_do_list_[k])
                              \cup (IF k = l THEN {f} ELSE {})
<1>1. \A k \in Loops : to_do_list_[k] \in Seq(submitted)
  BY DEF TypeOK, EL!TypeOK
<1>2. \A k \in Loops : f \notin FunctorsIn(functors[k]) \cup FunctorsIn(to_do_list_[k])
  BY WaitingWasSubmitted DEF Waiting
<1>3. to_do_list_'[l] = Append(to_do_list_[l], f)
      /\ \A k \in Loops \ {l} : to_do_list_'[k] = to_do_list_[k]
  BY DEF TypeOK, EL!TypeOK
<1>4. Once(to_do_list_[l])
  BY DEF FunctorsWaitAtHome
<1>5. to_do_list_[l] \in Seq(submitted \cup {f})
  <2>1. submitted \subseteq submitted \cup {f}
    OBVIOUS
  <2> QED
    BY <1>1, <2>1, ELP!SeqGrows, LoopsAssumption
<1>6. /\ FunctorsIn(to_do_list_'[l]) = FunctorsIn(to_do_list_[l]) \cup {f}
      /\ Once(to_do_list_'[l])
  BY <1>2, <1>3, <1>4, <1>5, ElementsOfAppend
<1>7. ASSUME NEW k \in Loops
      PROVE  /\ Once(functors'[k]) /\ Once(to_do_list_'[k])
             /\ FunctorsIn(functors'[k]) \cap FunctorsIn(to_do_list_'[k]) = {}
             /\ FunctorsIn(to_do_list_'[k])
                  = FunctorsIn(to_do_list_[k]) \cup (IF k = l THEN {f} ELSE {})
  <2>1. /\ Once(functors'[k]) /\ FunctorsIn(functors'[k]) \subseteq FunctorsIn(functors[k])
        /\ Once(to_do_list_[k])
        /\ FunctorsIn(functors[k]) \cap FunctorsIn(to_do_list_[k]) = {}
    BY DEF FunctorsWaitAtHome
  <2>2. CASE k = l
    BY <1>2, <1>6, <2>1, <2>2
  <2>3. CASE k # l
    BY <1>3, <2>1, <2>3
  <2> QED
    BY <2>2, <2>3
<1>8. QueuesOnce'
  BY <1>7 DEF QueuesOnce, Once
<1>9. \A k \in Loops :
        Waiting(k)' = FunctorsIn(functors'[k]) \cup FunctorsIn(to_do_list_[k])
                        \cup (IF k = l THEN {f} ELSE {})
  BY <1>7 DEF Waiting
<1> QED
  BY <1>8, <1>9

-----------------------------------------------------------------------------
(* A sub loop serves a connection.                                         *)

(* What a close, or none, does to the phases and the queues.               *)
CloseEffect(c) ==
  \/ /\ Served(c)
     /\ state_' = [state_ EXCEPT ![c] = "Disconnected"]
     /\ to_do_list_' = [to_do_list_ EXCEPT ![Main] = Append(@, HandleCloseInLoop(c))]
     /\ submitted' = submitted \cup {HandleCloseInLoop(c)}
  \/ UNCHANGED <<state_, to_do_list_, submitted>>

LEMMA CloseHasEffect ==
  ASSUME IInv, NEW c \in Conns, Accepted(c),
         HandleClose(c) \/ (UNCHANGED state_ /\ EL!NoCall(ran))
  PROVE  /\ CloseEffect(c) /\ EL!Body(LoopOf(c), ran)
         /\ HandleClose(c) => state_'[c] # "Connected"
<1> USE DEF IInv
<1>1. CASE UNCHANGED state_ /\ EL!NoCall(ran)
  <2>1. CloseEffect(c) /\ EL!Body(LoopOf(c), ran)
    BY <1>1 DEF CloseEffect, EL!NoCall, EL!Body
  <2>2. HandleClose(c) => state_'[c] # "Connected"
    BY DEF HandleClose, TypeOK
  <2> QED
    BY <2>1, <2>2
<1>2. CASE /\ state_[c] # "Disconnected"
           /\ state_' = [state_ EXCEPT ![c] = "Disconnected"]
           /\ ServerHandleClose(c)
  <2>1. Served(c)
    BY <1>2 DEF PhasesAgree, Phase, Closing, Closed
  <2>2. LoopOf(c) # Main /\ Main \in Loops
    BY SubLoops
  <2>3. EL!QueueOneFunc(LoopOf(c), Main, HandleCloseInLoop(c)) /\ ran' = ran
    BY <1>2, <2>2 DEF ServerHandleClose, EL!RunOneFunc
  <2>4. Main \in EL!Bound
    <3>1. next_conn_id_ > 1
      BY Bounds DEF Accepted, Conns
    <3> QED
      BY <2>2, <3>1 DEF TargetsAreBound, EL!Bound
  <2>5. HandleCloseInLoop(c) \in Functors \ submitted
    BY <2>1, FunctorNames DEF Served
  <2>6. EL!Body(LoopOf(c), ran)
    BY <2>3, <2>4, <2>5 DEF EL!Body
  <2>7. CloseEffect(c)
    BY <1>2, <2>1, <2>3 DEF CloseEffect, EL!QueueOneFunc
  <2> QED
    BY <1>2, <2>6, <2>7 DEF TypeOK
<1> QED
  BY <1>1, <1>2 DEF HandleClose

LEMMA CloseKeepsPhases ==
  ASSUME IInv, NEW c \in Conns, Accepted(c), CloseEffect(c),
         UNCHANGED <<functors, next_conn_id_, connections_, fd>>,
         \A d \in Conns : watch'[d] = "none" <=> watch[d] = "none"
  PROVE  FunctorsWaitAtHome' /\ PhasesAgree'
<1> USE DEF IInv
<1>1. \A d \in Conns : LoopOf(d) \in Loops /\ Main \in Loops /\ LoopOf(d)' = LoopOf(d)
                       /\ LoopOf(d) # Main
  BY SubLoops DEF LoopOf
<1>2. \A d \in Conns : (Accepted(d)' <=> Accepted(d)) /\ (Entered(d)' <=> Entered(d))
  BY DEF Accepted, Entered
<1>3. CASE UNCHANGED <<state_, to_do_list_, submitted>>
  <2>1. FunctorsWaitAtHome' /\ \A l \in Loops : Waiting(l)' = Waiting(l)
    BY <1>3, HomesRest, WaitingRests
  <2>2. ASSUME NEW d \in Conns PROVE Phase(d)'
    <3>1. SamePhase(d)
      BY <1>1, <1>2, <1>3, <2>1 DEF SamePhase
    <3> QED
      BY <3>1, PhaseStays DEF PhasesAgree
  <2> QED
    BY <2>1, <2>2 DEF PhasesAgree
<1>4. CASE /\ Served(c)
           /\ state_' = [state_ EXCEPT ![c] = "Disconnected"]
           /\ to_do_list_' = [to_do_list_ EXCEPT ![Main] = Append(@, HandleCloseInLoop(c))]
           /\ submitted' = submitted \cup {HandleCloseInLoop(c)}
  <2> DEFINE f == HandleCloseInLoop(c)
  <2>1. f \in Functors \ submitted /\ Main \in Loops
    BY <1>1, <1>4, FunctorNames DEF Served
  <2>2. /\ functors \in [Loops -> Seq(submitted)]
        /\ \A k \in Loops : Once(functors[k])
    BY DEF TypeOK, EL!TypeOK, FunctorsWaitAtHome
  <2>3. /\ QueuesOnce'
        /\ \A k \in Loops :
             Waiting(k)' = FunctorsIn(functors[k]) \cup FunctorsIn(to_do_list_[k])
                             \cup (IF k = Main THEN {f} ELSE {})
    <3>1. /\ TypeOK /\ FunctorsWaitAtHome /\ functors' = functors
          /\ \A k \in Loops :
               /\ Once(functors'[k])
               /\ FunctorsIn(functors'[k]) \subseteq FunctorsIn(functors[k])
          /\ to_do_list_' = [to_do_list_ EXCEPT ![Main] = Append(@, f)]
      BY <1>4, <2>2
    <3> HIDE DEF f, IInv
    <3>2. QueuesOnce' /\ \A k \in Loops :
            Waiting(k)' = FunctorsIn(functors'[k]) \cup FunctorsIn(to_do_list_[k])
                            \cup (IF k = Main THEN {f} ELSE {})
      BY <2>1, <3>1, HandOverMoves
    <3> QED
      BY <3>1, <3>2
  <2>4. \A k \in Loops : Waiting(k)' = Waiting(k) \cup (IF k = Main THEN {f} ELSE {})
    BY <2>3 DEF Waiting
  <2>5. \A d \in Conns : ConnectionDestructor(d) # f /\ (HandleCloseInLoop(d) = f <=> d = c)
    BY FunctorNames
  <2> HIDE DEF f
  <2>6. FunctorsWaitAtHome'
    <3>1. ASSUME NEW k \in Loops, NEW d \in Conns
          PROVE  /\ HandleCloseInLoop(d) \in Waiting(k)' => k = Main
                 /\ ConnectionDestructor(d) \in Waiting(k)' => k = LoopOf(d)'
      BY <1>1, <2>4, <2>5 DEF FunctorsWaitAtHome
    <3> QED
      BY <2>3, <3>1 DEF FunctorsWaitAtHome, QueuesOnce
  <2>7. ASSUME NEW d \in Conns PROVE Phase(d)'
    <3>1. CASE d = c
      <4>1. f \in Waiting(Main)' /\ f \in submitted' /\ ConnectionDestructor(c) \notin submitted'
        BY <1>4, <2>1, <2>4, <2>5 DEF f, Served
      <4>2. Closing(c)'
        BY <1>2, <1>4, <4>1 DEF f, Served, Closing, TypeOK
      <4> QED
        BY <1>2, <3>1, <4>2 DEF Phase
    <3>2. CASE d # c
      <4>1. SamePhase(d)
        BY <1>1, <1>2, <1>4, <2>4, <2>5, <3>2 DEF f, SamePhase, TypeOK
      <4> QED
        BY <4>1, PhaseStays DEF PhasesAgree
    <3> QED
      BY <3>1, <3>2
  <2> QED
    BY <2>6, <2>7 DEF PhasesAgree
<1> QED
  BY <1>3, <1>4 DEF CloseEffect

(* A callback of connection c on its own loop: e is handled, c may close,  *)
(* its socket and its registration change as Read and Send let them.       *)
LEMMA ServingKeepsIInv ==
  ASSUME IInv, NEW c \in Conns, Accepted(c),
         NEW e \in {In(c), Out(c), Expired(c)},
         EL!Dispatch(LoopOf(c), e), EL!Body(LoopOf(c), ran), CloseEffect(c),
         UNCHANGED <<clientVars, next_conn_id_, connections_, fd, establishing, held>>,
         unread' \in [Conns -> Unreads],
         reading' \subseteq Conns, edge' \subseteq Conns, active' \subseteq Conns,
         peer' \in [Conns -> {"open", "fin", "rst", "pipe"}],
         watch' \in [Conns -> {"none", "in", "inout"}],
         timer' \in [Conns -> {"none", "armed", "due"}],
         crash' \in {"no", "exit", "assert", "sigpipe"},
         \A d \in Conns : /\ watch'[d] = "none" <=> watch[d] = "none"
                          /\ watch'[d] = "inout" => peer'[d] # "open"
                          /\ peer[d] # "open" => peer'[d] # "open"
                          /\ d # c => unread'[d] = unread[d],
         In(c) \in ready'[LoopOf(c)] => unread'[c] = unread[c],
         \A d \in edge' : d \in edge \/ (d = c /\ watch[c] # "none"),
         IdleConnectionsAreWatched'
  PROVE  IInv' /\ EL!Next
<1> USE DEF IInv
<1> DEFINE l == LoopOf(c)
<1>1. l \in Loops /\ e \in Channels
  BY SubLoops, EventNames
<1>2. EL!Next
  BY <1>1 DEF EL!Next, EL!Progress, EL!HandleEvent
<1>3. EL!IInv' /\ EL!TypeOK'
  BY <1>2, LoopsKeepIInv DEF EL!IInv
<1>4. /\ UNCHANGED <<pc, functors>>
      /\ \A k \in Loops : ready'[k] \subseteq ready[k]
  BY <1>1 DEF EL!Dispatch, EL!At, EL!IInv, EL!TypeOK
<1>5. TypeOK'
  <2>1. state_' \in [Conns -> {"Invalid", "Connected", "Disconnected"}]
    BY ZenonT(30) DEF CloseEffect, TypeOK
  <2>2. unread' \in [Conns -> Seq({"data", "urgent"})]
    BY UnreadsAreSeqs
  <2> QED
    BY <1>3, <2>1, <2>2 DEF TypeOK, clientVars
<1>6. FunctorsWaitAtHome' /\ PhasesAgree'
  BY <1>4, CloseKeepsPhases
<1>7. EntriesAgree'
  BY EntriesRest
<1>8. EventsAgree'
  <2>1. \A d \in edge' : watch'[d] # "none"
    BY DEF EventsAgree
  <2> QED
    BY <1>4, <2>1, EventsRest, Bounds DEF clientVars
<1>9. SocketsAgree'
  <2>1. ASSUME NEW d \in Conns, NEW k \in Loops
        PROVE  /\ In(d) \in ready'[k] => Pending(d)'
               /\ Out(d) \in ready'[k] => peer'[d] # "open"
    <3>1. Out(d) \in ready'[k] => peer'[d] # "open"
      BY <1>4 DEF SocketsAgree
    <3>2. ASSUME In(d) \in ready'[k] PROVE Pending(d) /\ k = LoopOf(d)
      BY <1>4, <3>2 DEF SocketsAgree, EventsAgree
    <3>3. ASSUME In(d) \in ready'[k] PROVE unread'[d] = unread[d]
      BY <3>2, <3>3
    <3> QED
      BY <3>1, <3>2, <3>3 DEF Pending
  <2> QED
    BY <2>1 DEF SocketsAgree
<1>10. TargetsAreBound'
  <2>1. ASSUME NEW d \in Conns, HandleCloseInLoop(d) \in submitted'
        PROVE  pc[LoopOf(d)] # "unbound"
    <3>1. CASE HandleCloseInLoop(d) \in submitted
      BY <3>1 DEF TargetsAreBound
    <3>2. CASE HandleCloseInLoop(d) \notin submitted
      <4>1. HandleCloseInLoop(d) = HandleCloseInLoop(c)
        BY <2>1, <3>2 DEF CloseEffect
      <4>2. d = c
        BY <4>1, FunctorNames
      <4> QED
        BY <4>2 DEF EL!Dispatch, EL!At
    <3> QED
      BY <3>1, <3>2
  <2> QED
    BY <1>4, <2>1 DEF TargetsAreBound, LoopOf
<1> QED
  BY <1>2, <1>3, <1>5, <1>6, <1>7, <1>8, <1>9, <1>10

(* Read: what it does to the socket, and the answers it sends.             *)
LEMMA HandleEventKeepsIInv ==
  ASSUME IInv, NEW l \in Loops, NEW c \in OnLoop(l), NEW e \in {In(c), Out(c)},
         HandleEvent(c, e)
  PROVE  IInv' /\ EL!Next
<1> USE DEF IInv
<1>1. c \in Conns /\ Accepted(c) /\ LoopOf(c) = l
  BY DEF OnLoop
<1>2. e \in ready[l] /\ ready' = [ready EXCEPT ![l] = @ \ {e}]
      /\ EL!Dispatch(l, e)
  BY <1>1 DEF HandleEvent, EL!Dispatch
<1>3. watch[c] # "none"
  BY <1>1, <1>2 DEF EventsAgree
<1>4. In(c) \notin ready'[l]
  BY <1>1, <1>2 DEF HandleEvent, MayRead, EL!IInv, EL!TypeOK
<1>5. timer' = timer /\ establishing' = establishing
      /\ UNCHANGED <<clientVars, next_conn_id_, connections_, fd, held>>
  BY DEF HandleEvent
<1>6. ASSUME Send(c)
      PROVE  /\ peer' \in [Conns -> {"open", "fin", "rst", "pipe"}]
             /\ watch' \in [Conns -> {"none", "in", "inout"}]
             /\ edge' \subseteq edge \cup {c}
             /\ crash' \in {"no", "exit", "assert", "sigpipe"}
             /\ \A d \in Conns : /\ watch'[d] = "none" <=> watch[d] = "none"
                                 /\ watch'[d] = "inout" => peer'[d] # "open"
                                 /\ peer[d] # "open" => peer'[d] # "open"
  <2>1. CASE watch[c] = "inout" /\ EnableWrite(c) /\ UNCHANGED <<peer, crash>>
    BY <1>1, <2>1 DEF EnableWrite, UpdateChannel, SocketsAgree, TypeOK
  <2>2. CASE UNCHANGED <<peer, watch, edge, crash>>
    BY <2>2 DEF SocketsAgree, TypeOK
  <2>3. CASE /\ watch[c] = "in" /\ peer' = [peer EXCEPT ![c] = "rst"]
             /\ EnableWrite(c) /\ UNCHANGED crash
    BY <1>1, <2>3 DEF EnableWrite, UpdateChannel, SocketsAgree, TypeOK
  <2>4. CASE /\ peer' = [peer EXCEPT ![c] = "pipe"]
             /\ UNCHANGED <<watch, edge, crash>>
    BY <1>1, <2>4 DEF SocketsAgree, TypeOK
  <2>5. CASE crash' = "sigpipe" /\ UNCHANGED <<peer, watch, edge>>
    BY <2>5 DEF SocketsAgree, TypeOK
  <2> QED
    BY <1>6, <2>1, <2>2, <2>3, <2>4, <2>5 DEF Send
<1>7. /\ HandleClose(c) \/ (UNCHANGED state_ /\ EL!NoCall(ran))
      /\ unread' \in [Conns -> Unreads] /\ reading' \subseteq Conns
      /\ \A d \in Conns \ {c} : unread'[d] = unread[d]
      /\ active' \subseteq active \cup {c}
      /\ peer' \in [Conns -> {"open", "fin", "rst", "pipe"}]
      /\ watch' \in [Conns -> {"none", "in", "inout"}]
      /\ edge' \subseteq edge \cup {c}
      /\ crash' \in {"no", "exit", "assert", "sigpipe"}
      /\ \A d \in Conns : /\ watch'[d] = "none" <=> watch[d] = "none"
                          /\ watch'[d] = "inout" => peer'[d] # "open"
                          /\ peer[d] # "open" => peer'[d] # "open"
  <2>1. ASSUME ReadBlocking(c)
        PROVE  /\ unread' \in [Conns -> Unreads] /\ reading' \subseteq Conns
               /\ \A d \in Conns \ {c} : unread'[d] = unread[d]
    <3>1. AfterRead(unread[c]) \in Unreads
      BY <1>1, UnreadIsRead DEF SocketsAgree
    <3>2. unread' = [unread EXCEPT ![c] = AfterRead(unread[c])] /\ reading' = reading \ {c}
      BY <2>1 DEF ReadBlocking
    <3> QED
      BY <1>1, <3>1, <3>2 DEF SocketsAgree, TypeOK
  <2>2. CASE ReadBlocking(c) /\ Answer(c)
    BY <1>6, <2>1, <2>2 DEF Answer, HandleRequest
  <2>3. CASE /\ ReadBlocking(c)
             /\ peer' = [peer EXCEPT ![c] = IF @ = "rst" THEN "pipe" ELSE @]
             /\ HandleClose(c)
             /\ UNCHANGED <<edge, watch, active, crash>>
    BY <1>1, <2>1, <2>3 DEF SocketsAgree, TypeOK
  <2>4. CASE /\ crash' = "assert"
             /\ EL!NoCall(ran)
             /\ UNCHANGED <<sockVars, state_, watch, reading, active>>
    BY <2>4 DEF sockVars, SocketsAgree, TypeOK
  <2> QED
    BY <2>2, <2>3, <2>4 DEF HandleEvent, Read, ReadBlocking
<1>8. CloseEffect(c) /\ EL!Body(LoopOf(c), ran)
  BY <1>1, <1>7, CloseHasEffect
<1>9. IdleConnectionsAreWatched'
  BY <1>1, <1>5, <1>8 DEF IdleConnectionsAreWatched, CloseEffect, TypeOK
<1>10. edge' \subseteq Conns /\ active' \subseteq Conns
       /\ timer' \in [Conns -> {"none", "armed", "due"}]
  BY <1>1, <1>5, <1>7 DEF TypeOK
<1>11. \A d \in edge' : d \in edge \/ (d = c /\ watch[c] # "none")
  BY <1>3, <1>7
<1> QED
  BY <1>1, <1>2, <1>4, <1>5, <1>7, <1>8, <1>9, <1>10, <1>11, ServingKeepsIInv

(* The thread goes to sleep in read().                                     *)
LEMMA WaitInReadKeepsIInv ==
  ASSUME IInv, NEW l \in Loops, NEW c \in OnLoop(l), NEW e, WaitInRead(c, e)
  PROVE  IInv'
<1> USE DEF IInv
<1>1. /\ reading' = reading \cup {c} /\ c \in Conns
      /\ UNCHANGED <<loopVars, clientVars, sockVars, next_conn_id_, connections_, fd,
                     state_, watch, establishing, held, timerVars, crash>>
  BY DEF WaitInRead, OnLoop
<1>2. EL!IInv'
  BY <1>1, LoopsRest
<1>3. TypeOK'
  <2>1. EL!TypeOK'
    BY <1>2 DEF EL!IInv
  <2> QED
    BY <1>1, <2>1 DEF TypeOK, clientVars, sockVars, timerVars
<1>4. FunctorsWaitAtHome' /\ EntriesAgree' /\ TargetsAreBound'
  BY <1>1, HomesRest, EntriesRest, TargetsRest DEF loopVars
<1>5. PhasesAgree'
  BY <1>1, PhasesRest, WaitingRests DEF loopVars
<1>6. EventsAgree'
  BY <1>1, EventsRest, Bounds DEF loopVars, clientVars, sockVars, EventsAgree
<1>7. SocketsAgree' /\ IdleConnectionsAreWatched'
  BY <1>1 DEF loopVars, sockVars, timerVars, SocketsAgree, Pending,
              IdleConnectionsAreWatched
<1> QED
  BY <1>2, <1>3, <1>4, <1>5, <1>6, <1>7

LEMMA ActiveCloseConnKeepsIInv ==
  ASSUME IInv, NEW l \in Loops, NEW c \in OnLoop(l), ActiveCloseConn(c)
  PROVE  IInv' /\ EL!Next
<1> USE DEF IInv
<1>1. c \in Conns /\ Accepted(c) /\ LoopOf(c) = l
  BY DEF OnLoop
<1>2. /\ HandleClose(c) \/ (UNCHANGED state_ /\ EL!NoCall(ran))
      /\ EL!Dispatch(LoopOf(c), Expired(c))
      /\ timer' \in [Conns -> {"none", "armed", "due"}] /\ active' \subseteq Conns
      /\ \A d \in Conns \ {c} : timer'[d] = timer[d]
      /\ UNCHANGED <<clientVars, sockVars, next_conn_id_, connections_, fd, watch,
                     reading, establishing, held, crash>>
  BY <1>1 DEF ActiveCloseConn, TypeOK
<1>3. /\ CloseEffect(c) /\ EL!Body(LoopOf(c), ran)
      /\ HandleClose(c) => state_'[c] # "Connected"
  BY <1>1, <1>2, CloseHasEffect
<1>4. state_'[c] = "Connected" => timer'[c] # "none"
  <2>1. CASE ~Alive(c) /\ UNCHANGED state_
    <3>1. state_[c] # "Connected"
      <4>1. ASSUME state_[c] = "Connected" PROVE Alive(c)
        <5>1. Entered(c) /\ fd[c] \in Fds
          BY <1>1, <4>1 DEF PhasesAgree, Phase, Served, Closing, Closed, EntriesAgree
        <5> QED
          BY <5>1 DEF Entered, Alive
      <4> QED
        BY <2>1, <4>1
    <3> QED
      BY <2>1, <3>1
  <2>2. CASE HandleClose(c)
    BY <1>3, <2>2
  <2>3. CASE timer' = [timer EXCEPT ![c] = "armed"]
    BY <1>1, <2>3 DEF TypeOK
  <2> QED
    BY <2>1, <2>2, <2>3 DEF ActiveCloseConn
<1>5. IdleConnectionsAreWatched'
  BY <1>1, <1>2, <1>3, <1>4 DEF IdleConnectionsAreWatched, CloseEffect, TypeOK
<1>6. unread' = unread /\ peer' = peer /\ edge' = edge
  BY <1>2 DEF sockVars
<1>7. /\ unread' \in [Conns -> Unreads]
      /\ reading' \subseteq Conns /\ edge' \subseteq Conns
      /\ peer' \in [Conns -> {"open", "fin", "rst", "pipe"}]
      /\ watch' \in [Conns -> {"none", "in", "inout"}]
      /\ crash' \in {"no", "exit", "assert", "sigpipe"}
  BY <1>2, <1>6 DEF TypeOK, SocketsAgree
<1>8. \A d \in Conns : /\ watch'[d] = "none" <=> watch[d] = "none"
                       /\ watch'[d] = "inout" => peer'[d] # "open"
                       /\ peer[d] # "open" => peer'[d] # "open"
                       /\ d # c => unread'[d] = unread[d]
  BY <1>2, <1>6 DEF SocketsAgree
<1>9. UNCHANGED <<clientVars, next_conn_id_, connections_, fd, establishing, held>>
  BY <1>2
<1>10. In(c) \in ready'[LoopOf(c)] => unread'[c] = unread[c]
  BY <1>6
<1>11. \A d \in edge' : d \in edge \/ (d = c /\ watch[c] # "none")
  BY <1>6
<1>12. active' \subseteq Conns /\ timer' \in [Conns -> {"none", "armed", "due"}]
  BY <1>2
<1> HIDE DEF IInv
<1>13. Expired(c) \in {In(c), Out(c), Expired(c)} /\ EL!Dispatch(LoopOf(c), Expired(c))
  BY <1>2
<1> QED
  BY <1>1, <1>3, <1>5, <1>7, <1>8, <1>9, <1>10, <1>11, <1>12, <1>13, ServingKeepsIInv

-----------------------------------------------------------------------------
(* The two functors.                                                       *)

LEMMA RunHandleCloseInLoopKeepsIInv ==
  ASSUME IInv, NEW c \in Conns, RunHandleCloseInLoop(c)
  PROVE  IInv' /\ EL!Next
<1> USE DEF IInv
<1> DEFINE f == HandleCloseInLoop(c)
           g == ConnectionDestructor(c)
           l == LoopOf(c)
<1>1. Main \in Loops /\ l \in Loops /\ l # Main
  BY SubLoops
<1>2. /\ EL!Take(Main) /\ functors[Main] # <<>> /\ Head(functors[Main]) = f
      /\ functors' = [functors EXCEPT ![Main] = Tail(@)]
      /\ pc[Main] = "drain"
      /\ UNCHANGED <<pc, ready, eventfd, calling_functors_>>
  BY DEF RunHandleCloseInLoop, EL!Take, EL!At
<1>3. /\ f \in Waiting(Main) /\ f \notin FunctorsIn(to_do_list_[Main])
      /\ FunctorsIn(functors'[Main]) = FunctorsIn(functors[Main]) \ {f}
      /\ \A k \in Loops : /\ Once(functors'[k])
                          /\ FunctorsIn(functors'[k]) \subseteq FunctorsIn(functors[k])
      /\ \A k \in Loops \ {Main} : functors'[k] = functors[k]
  BY <1>1, <1>2, TakeMoves
<1>4. f \in submitted
  BY <1>1, <1>3, WaitingWasSubmitted
<1>5. Accepted(c) /\ Closing(c)
  BY <1>3, <1>4 DEF PhasesAgree, Phase, Unborn, Served, Closed
<1>6. fd[c] \in Fds /\ connections_[fd[c]] = c /\ c # NoConn
  BY <1>5 DEF EntriesAgree, Closing, Entered, Conns, NoConn
<1>7. /\ connections_' = [connections_ EXCEPT ![fd[c]] = NoConn]
      /\ EL!QueueOneFunc(Main, l, g) /\ crash' = crash
      /\ ran' = ran \cup {f} /\ held' = [held EXCEPT ![Main] = @ \cup {c}]
      /\ to_do_list_' = [to_do_list_ EXCEPT ![l] = Append(@, g)]
      /\ submitted' = submitted \cup {g}
      /\ UNCHANGED <<clientVars, sockVars, next_conn_id_, fd, state_, watch,
                     reading, establishing, timerVars>>
  BY <1>6 DEF RunHandleCloseInLoop, EL!QueueOneFunc
<1>8. g \in Functors \ submitted
  BY <1>5, FunctorNames DEF Closing
<1>9. EL!Next
  <2>1. l \in EL!Bound
    BY <1>1, <1>4 DEF TargetsAreBound, EL!Bound
  <2>2. EL!RunFunctor(Main)
    BY <1>2, <1>7, <1>8, <2>1 DEF EL!RunFunctor, EL!Body
  <2> QED
    BY <1>1, <2>2 DEF EL!Next, EL!Progress
<1>10. EL!IInv' /\ EL!TypeOK'
  BY <1>9, LoopsKeepIInv DEF EL!IInv
<1> HIDE DEF f, g, l
<1>11. /\ QueuesOnce'
       /\ \A k \in Loops :
            Waiting(k)' = FunctorsIn(functors'[k]) \cup FunctorsIn(to_do_list_[k])
                            \cup (IF k = l THEN {g} ELSE {})
  BY <1>1, <1>3, <1>7, <1>8, HandOverMoves
<1>12. \A k \in Loops : Waiting(k)' = (Waiting(k) \ (IF k = Main THEN {f} ELSE {}))
                                        \cup (IF k = l THEN {g} ELSE {})
  <2> SUFFICES ASSUME NEW k \in Loops
               PROVE  Waiting(k)' = (Waiting(k) \ (IF k = Main THEN {f} ELSE {}))
                                      \cup (IF k = l THEN {g} ELSE {})
    OBVIOUS
  <2>1. CASE k = Main
    BY <1>1, <1>3, <1>11, <2>1 DEF Waiting
  <2>2. CASE k # Main
    BY <1>3, <1>11, <2>2 DEF Waiting
  <2> QED
    BY <2>1, <2>2
<1>13. \A d \in Conns : /\ ConnectionDestructor(d) # f /\ (HandleCloseInLoop(d) = f <=> d = c)
                        /\ HandleCloseInLoop(d) # g /\ (ConnectionDestructor(d) = g <=> d = c)
                        /\ LoopOf(d)' = LoopOf(d) /\ LoopOf(d) \in Loops
                        /\ Accepted(d)' <=> Accepted(d)
  BY <1>7, FunctorNames, SubLoops DEF f, g, LoopOf, Accepted
<1>14. TypeOK'
  <2>1. held' \in [Loops -> SUBSET Conns] /\ connections_' \in [Fds -> Conns \cup {NoConn}]
    BY <1>1, <1>6, <1>7 DEF TypeOK
  <2> QED
    BY <1>7, <1>10, <2>1 DEF TypeOK, clientVars, sockVars, timerVars
<1>15. FunctorsWaitAtHome'
  <2>1. ASSUME NEW k \in Loops, NEW d \in Conns
        PROVE  /\ HandleCloseInLoop(d) \in Waiting(k)' => k = Main
               /\ ConnectionDestructor(d) \in Waiting(k)' => k = LoopOf(d)'
    BY <1>12, <1>13 DEF l, FunctorsWaitAtHome
  <2> QED
    BY <1>11, <2>1 DEF FunctorsWaitAtHome, QueuesOnce
<1>16. PhasesAgree'
  <2> SUFFICES ASSUME NEW d \in Conns PROVE Phase(d)'
    BY DEF PhasesAgree
  <2>1. CASE d = c
    <3>1. ~Entered(c)' /\ state_'[c] = "Disconnected" /\ watch'[c] # "none"
      BY <1>5, <1>6, <1>7 DEF Closing, Entered, TypeOK
    <3>2. /\ f \in submitted' \ Waiting(Main)' /\ g \in submitted'
          /\ g \in Waiting(l)' /\ LoopOf(c)' = l
      BY <1>1, <1>4, <1>7, <1>12, <1>13 DEF l
    <3>3. /\ HandleCloseInLoop(c) \in submitted' \ Waiting(Main)'
          /\ ConnectionDestructor(c) \in submitted'
          /\ ConnectionDestructor(c) \in Waiting(LoopOf(c))'
      <4>1. \A k \in Loops : k = LoopOf(c)' => g \in Waiting(k)'
        BY <1>12, <3>2
      <4> QED
        BY <1>1, <1>12, <3>2, <4>1 DEF f, g
    <3>4. Closed(c)'
      BY <3>1, <3>3 DEF Closed
    <3> QED
      BY <1>5, <1>13, <2>1, <3>4 DEF Phase
  <2>2. CASE d # c
    <3>1. ASSUME Accepted(d) PROVE Entered(d)' <=> Entered(d)
      <4>1. d # NoConn /\ fd[d] \in Fds
        BY <3>1 DEF EntriesAgree, Conns, NoConn
      <4>2. CASE fd[d] = fd[c]
        BY <1>6, <1>7, <2>2, <4>1, <4>2 DEF Entered, TypeOK
      <4>3. CASE fd[d] # fd[c]
        BY <1>7, <4>1, <4>3 DEF Entered, TypeOK
      <4> QED
        BY <4>2, <4>3
    <3>2. /\ HandleCloseInLoop(d) \in Waiting(Main)' <=> HandleCloseInLoop(d) \in Waiting(Main)
          /\ ConnectionDestructor(d) \in Waiting(LoopOf(d))'
               <=> ConnectionDestructor(d) \in Waiting(LoopOf(d))
      <4>1. ConnectionDestructor(d) \in Waiting(LoopOf(d))'
               <=> ConnectionDestructor(d) \in Waiting(LoopOf(d))
        BY <1>12, <1>13, <2>2
      <4> QED
        BY <1>1, <1>12, <1>13, <2>2, <4>1
    <3>3. SamePhase(d)
      BY <1>7, <1>13, <2>2, <3>1, <3>2 DEF SamePhase
    <3> QED
      BY <3>3, PhaseStays DEF PhasesAgree
  <2> QED
    BY <2>1, <2>2
<1>17. EntriesAgree'
  BY <1>6, <1>7 DEF EntriesAgree, Accepted, TypeOK
<1>18. EventsAgree'
  BY <1>2, <1>7, EventsRest, Bounds DEF clientVars, sockVars, EventsAgree
<1>19. SocketsAgree' /\ IdleConnectionsAreWatched'
  BY <1>2, <1>7 DEF sockVars, timerVars, SocketsAgree, Pending,
                    IdleConnectionsAreWatched
<1>20. TargetsAreBound'
  BY <1>2, <1>7, <1>13 DEF TargetsAreBound
<1> QED
  BY <1>9, <1>10, <1>14, <1>15, <1>16, <1>17, <1>18, <1>19, <1>20

LEMMA RunConnectionDestructorKeepsIInv ==
  ASSUME IInv, NEW l \in Loops, NEW c \in OnLoop(l), RunConnectionDestructor(c)
  PROVE  IInv' /\ EL!Next
<1> USE DEF IInv
<1> DEFINE g == ConnectionDestructor(c)
<1>1. c \in Conns /\ Accepted(c) /\ LoopOf(c) = l /\ l # Main /\ Main \in Loops
  BY SubLoops DEF OnLoop
<1>2. /\ EL!Take(l) /\ functors[l] # <<>> /\ Head(functors[l]) = g
      /\ functors' = [functors EXCEPT ![l] = Tail(@)]
      /\ pc[l] = "drain"
      /\ EL!NoCall(ran \cup {g})
      /\ UNCHANGED <<pc, ready, eventfd, calling_functors_, to_do_list_, waking,
                     submitted, clientVars, unread, peer, next_conn_id_,
                     connections_, fd, state_, reading, establishing, timerVars>>
      /\ held' = [held EXCEPT ![l] = @ \cup {c}]
      /\ watch' = [watch EXCEPT ![c] = "none"] /\ edge' = edge \ {c}
      /\ crash' \in {crash, "exit"}
  BY <1>1 DEF RunConnectionDestructor, DeleteChannel, EL!Take, EL!At, EL!NoCall
<1>3. /\ g \in Waiting(l) /\ g \notin FunctorsIn(to_do_list_[l])
      /\ FunctorsIn(functors'[l]) = FunctorsIn(functors[l]) \ {g}
      /\ \A k \in Loops : /\ Once(functors'[k])
                          /\ FunctorsIn(functors'[k]) \subseteq FunctorsIn(functors[k])
      /\ \A k \in Loops \ {l} : functors'[k] = functors[k]
  BY <1>2, TakeMoves
<1>4. g \in submitted
  BY <1>3, WaitingWasSubmitted
<1>5. Closed(c)
  BY <1>1, <1>4 DEF PhasesAgree, Phase, Served, Closing
<1>6. EL!Next
  <2>1. EL!RunFunctor(l)
    BY <1>2 DEF EL!RunFunctor, EL!Body
  <2> QED
    BY <2>1 DEF EL!Next, EL!Progress
<1>7. EL!IInv' /\ EL!TypeOK'
  BY <1>6, LoopsKeepIInv DEF EL!IInv
<1> HIDE DEF g
<1>8. \A k \in Loops : Waiting(k)' = Waiting(k) \ (IF k = l THEN {g} ELSE {})
  <2> SUFFICES ASSUME NEW k \in Loops
               PROVE  Waiting(k)' = Waiting(k) \ (IF k = l THEN {g} ELSE {})
    OBVIOUS
  <2>1. CASE k = l
    BY <1>2, <1>3, <2>1 DEF Waiting
  <2>2. CASE k # l
    BY <1>2, <1>3, <2>2 DEF Waiting
  <2> QED
    BY <2>1, <2>2
<1>9. \A d \in Conns : /\ HandleCloseInLoop(d) # g /\ (ConnectionDestructor(d) = g <=> d = c)
                       /\ LoopOf(d)' = LoopOf(d) /\ LoopOf(d) \in Loops
                       /\ Accepted(d)' <=> Accepted(d)
                       /\ Entered(d)' <=> Entered(d)
  BY <1>1, <1>2, FunctorNames, SubLoops DEF g, LoopOf, Accepted, Entered
<1>10. TypeOK'
  <2>1. /\ held' \in [Loops -> SUBSET Conns]
        /\ watch' \in [Conns -> {"none", "in", "inout"}]
        /\ edge' \subseteq Conns /\ crash' \in {"no", "exit", "assert", "sigpipe"}
    BY <1>1, <1>2 DEF TypeOK
  <2> QED
    BY <1>2, <1>7, <2>1 DEF TypeOK, clientVars, timerVars
<1>11. FunctorsWaitAtHome'
  <2>1. ASSUME NEW k \in Loops, NEW d \in Conns
        PROVE  /\ HandleCloseInLoop(d) \in Waiting(k)' => k = Main
               /\ ConnectionDestructor(d) \in Waiting(k)' => k = LoopOf(d)'
    BY <1>8, <1>9 DEF FunctorsWaitAtHome
  <2>2. \A k \in Loops :
          FunctorsIn(functors'[k]) \cap FunctorsIn(to_do_list_[k]) = {}
    BY <1>3 DEF FunctorsWaitAtHome
  <2>3. \A k \in Loops : Once(to_do_list_[k])
    BY DEF FunctorsWaitAtHome
  <2>4. \A k \in Loops :
          /\ Once(functors'[k]) /\ Once(to_do_list_'[k])
          /\ FunctorsIn(functors'[k]) \cap FunctorsIn(to_do_list_'[k]) = {}
    BY <1>2, <1>3, <2>2, <2>3
  <2>5. QueuesOnce'
    BY <2>4 DEF QueuesOnce, Once
  <2> QED
    BY <2>1, <2>5 DEF FunctorsWaitAtHome, QueuesOnce
<1>12. PhasesAgree'
  <2> SUFFICES ASSUME NEW d \in Conns PROVE Phase(d)'
    BY DEF PhasesAgree
  <2>1. CASE d = c
    <3>1. ~Entered(c)' /\ state_'[c] = "Disconnected" /\ watch'[c] = "none"
      BY <1>1, <1>2, <1>5, <1>9 DEF Closed, TypeOK
    <3>2. g \notin Waiting(l)' /\ LoopOf(c)' = l /\ Waiting(Main)' = Waiting(Main)
      BY <1>1, <1>8, <1>9
    <3>3. Closed(c)'
      BY <1>2, <1>5, <3>1, <3>2 DEF g, Closed
    <3> QED
      BY <1>1, <1>9, <2>1, <3>3 DEF Phase
  <2>2. CASE d # c
    <3>1. /\ HandleCloseInLoop(d) \in Waiting(Main)' <=> HandleCloseInLoop(d) \in Waiting(Main)
          /\ ConnectionDestructor(d) \in Waiting(LoopOf(d))'
               <=> ConnectionDestructor(d) \in Waiting(LoopOf(d))
      <4>1. Waiting(Main)' = Waiting(Main)
        BY <1>1, <1>8
      <4>2. Waiting(LoopOf(d))' = Waiting(LoopOf(d)) \ (IF LoopOf(d) = l THEN {g} ELSE {})
        BY <1>8, <1>9
      <4> QED
        BY <1>9, <2>2, <4>1, <4>2
    <3>2. SamePhase(d)
      BY <1>2, <1>9, <2>2, <3>1 DEF SamePhase, TypeOK
    <3> QED
      BY <3>2, PhaseStays DEF PhasesAgree
  <2> QED
    BY <2>1, <2>2
<1>13. EntriesAgree' /\ TargetsAreBound'
  BY <1>2, EntriesRest, TargetsRest
<1>14. \A d \in Conns : d # c => watch'[d] = watch[d]
  BY <1>2 DEF TypeOK
<1>15. EventsAgree'
  <2>1. \A d \in edge' : d \in Conns /\ watch'[d] # "none"
    BY <1>2, <1>14 DEF EventsAgree, TypeOK
  <2>2. \A k \in Loops : {In(c), Out(c)} \cap ready[k] = {}
    BY <1>1, <1>2 DEF EventsAgree, EL!IInv, EL!PlacesAgree
  <2>3. ASSUME NEW d \in Conns, NEW k \in Loops, {In(d), Out(d)} \cap ready'[k] # {}
        PROVE  Accepted(d)' /\ k = LoopOf(d)' /\ watch'[d] # "none"
    <3>1. d # c
      BY <1>2, <2>2, <2>3
    <3> QED
      BY <1>2, <1>9, <1>14, <2>3, <3>1 DEF EventsAgree
  <2> QED
    BY <1>2, <2>1, <2>3 DEF EventsAgree, clientVars
<1>16. SocketsAgree' /\ IdleConnectionsAreWatched'
  BY <1>2, <1>14 DEF timerVars, SocketsAgree, Pending, IdleConnectionsAreWatched, TypeOK
<1> QED
  BY <1>6, <1>7, <1>10, <1>11, <1>12, <1>13, <1>15, <1>16
-----------------------------------------------------------------------------
(* The invariant holds.                                                    *)

LEMMA InitIInv == Init => IInv
<1> SUFFICES ASSUME Init PROVE IInv
  OBVIOUS
<1>1. EL!IInv
  <2>1. ELP!Init => ELP!IInv
    BY LoopsAssumption, ELP!InitIInv
  <2>2. EL!Init => ELP!Init
    BY DEF EL!Init, ELP!Init
  <2>3. ELP!IInv => EL!IInv
    BY DEF EL!IInv, EL!TypeOK, EL!PlacesAgree, EL!WakeupOnItsWay, EL!WakeupReadable,
           ELP!IInv, ELP!TypeOK, ELP!PlacesAgree, ELP!WakeupOnItsWay,
           ELP!WakeupReadable
  <2> QED
    BY <2>1, <2>2, <2>3 DEF Init
<1>2. TypeOK
  <2>1. arrived \in 0 .. MaxConn /\ next_conn_id_ \in 1 .. arrived + 1
    BY BoundsAssumption DEF Init
  <2>2. sent \in [Conns -> 0 .. MaxSend]
    BY BoundsAssumption DEF Init
  <2>3. EL!TypeOK
    BY <1>1 DEF EL!IInv
  <2> QED
    BY <2>1, <2>2, <2>3 DEF Init, TypeOK
<1>3. \A c \in Conns : ~Accepted(c)
  BY DEF Init, Accepted, Conns
<1>4. /\ \A l \in Loops : /\ functors[l] = <<>> /\ to_do_list_[l] = <<>>
                          /\ ready[l] = {} /\ pc[l] = "unbound"
      /\ submitted = {}
  BY DEF Init, EL!Init
<1>5. FunctorsWaitAtHome
  <2>1. \A l \in Loops : Waiting(l) = {}
    BY <1>4, ElementsOfEmpty DEF Waiting
  <2> QED
    BY <1>4, <2>1, ElementsOfEmpty DEF FunctorsWaitAtHome
<1>6. PhasesAgree
  BY <1>3, <1>4 DEF Init, PhasesAgree, Phase, Unborn
<1>7. EntriesAgree
  BY <1>3 DEF Init, EntriesAgree
<1>8. EventsAgree /\ SocketsAgree
  BY <1>4 DEF Init, EventsAgree, SocketsAgree, Unreads
<1>9. TargetsAreBound
  BY <1>4 DEF Init, TargetsAreBound
<1>10. IdleConnectionsAreWatched
  BY DEF Init, IdleConnectionsAreWatched
<1> QED
  BY <1>1, <1>2, <1>5, <1>6, <1>7, <1>8, <1>9, <1>10 DEF IInv

(* A step of the server is one of its loops, or none of theirs.            *)
LEMMA NextIInv ==
  IInv /\ [Next]_vars => IInv' /\ [EL!Next]_(EL!vars)
<1> SUFFICES ASSUME IInv, [Next]_vars
             PROVE  IInv' /\ [EL!Next]_(EL!vars)
  OBVIOUS
<1>1. ASSUME UNCHANGED loopVars PROVE [EL!Next]_(EL!vars)
  BY <1>1 DEF loopVars, EL!vars
<1>2. CASE UNCHANGED vars
  <2>1. UNCHANGED <<loopVars, clientVars, sockVars, connVars, timerVars, crash>>
    BY <1>2 DEF vars
  <2>2. EL!IInv'
    BY <2>1, LoopsRest DEF IInv
  <2>3. TypeOK'
    <3>1. EL!TypeOK'
      BY <2>2 DEF EL!IInv
    <3> QED
      BY <2>1, <3>1 DEF IInv, TypeOK, clientVars, sockVars, connVars, timerVars
  <2>4. FunctorsWaitAtHome' /\ EntriesAgree' /\ TargetsAreBound'
    BY <2>1, HomesRest, EntriesRest, TargetsRest DEF IInv, loopVars, connVars
  <2>5. PhasesAgree'
    BY <2>1, PhasesRest, WaitingRests DEF IInv, loopVars, connVars
  <2>6. EventsAgree'
    BY <2>1, EventsRest, Bounds
       DEF IInv, loopVars, clientVars, connVars, sockVars, EventsAgree
  <2>7. SocketsAgree' /\ IdleConnectionsAreWatched'
    BY <2>1 DEF IInv, loopVars, connVars, sockVars, timerVars, SocketsAgree,
                Pending, IdleConnectionsAreWatched
  <2> QED
    BY <1>1, <2>1, <2>2, <2>3, <2>4, <2>5, <2>6, <2>7 DEF IInv
<1>3. CASE ClientConnect
  BY <1>1, <1>3, ClientConnectKeepsIInv DEF ClientConnect
<1>4. ASSUME NEW c \in Conns,
             \/ ClientSend(c) \/ ClientSendUrgent(c) \/ ClientClose(c) \/ ClientReset(c)
      PROVE  IInv' /\ [EL!Next]_(EL!vars)
  <2>1. UNCHANGED loopVars
    BY <1>4 DEF ClientSend, ClientSendUrgent, ClientClose, ClientReset
  <2> QED
    BY <1>1, <1>4, <2>1, ClientKeepsIInv
<1>5. ASSUME NEW c \in Conns, TimerExpires(c)
      PROVE  IInv' /\ [EL!Next]_(EL!vars)
  <2>1. UNCHANGED loopVars
    BY <1>5 DEF TimerExpires
  <2> QED
    BY <1>1, <1>5, <2>1, TimersKeepIInv
<1>6. CASE HandleConnection
  <2>1. UNCHANGED loopVars
    BY <1>6 DEF HandleConnection
  <2> QED
    BY <1>1, <1>6, <2>1, TimersKeepIInv
<1>7. CASE AcceptConnection
  BY <1>7, AcceptKeepsIInv
<1>8. ASSUME NEW c \in Conns, RunHandleCloseInLoop(c)
      PROVE  IInv' /\ [EL!Next]_(EL!vars)
  BY <1>8, RunHandleCloseInLoopKeepsIInv
<1>9. ASSUME NEW l \in Loops, Poll(l) \/ LoopStep(l) \/ EndDoToDoList(l)
      PROVE  IInv' /\ [EL!Next]_(EL!vars)
  BY <1>9, PollKeepsIInv, PlainStepKeepsIInv
<1>10. ASSUME NEW l \in Loops, NEW c \in OnLoop(l),
              HandleEvent(c, In(c)) \/ HandleEvent(c, Out(c))
       PROVE  IInv' /\ [EL!Next]_(EL!vars)
  BY <1>10, HandleEventKeepsIInv
<1>12. ASSUME NEW l \in Loops, NEW c \in OnLoop(l),
              WaitInRead(c, In(c)) \/ WaitInRead(c, Out(c))
       PROVE  IInv' /\ [EL!Next]_(EL!vars)
  <2>1. UNCHANGED loopVars
    BY <1>12 DEF WaitInRead
  <2> QED
    BY <1>1, <1>12, <2>1, WaitInReadKeepsIInv
<1>11. ASSUME NEW l \in Loops, NEW c \in OnLoop(l),
              ActiveCloseConn(c) \/ RunConnectionDestructor(c)
       PROVE  IInv' /\ [EL!Next]_(EL!vars)
  BY <1>11, ActiveCloseConnKeepsIInv, RunConnectionDestructorKeepsIInv
<1> QED
  BY <1>2, <1>3, <1>4, <1>5, <1>6, <1>7, <1>8, <1>9, <1>10, <1>11,
     <1>12
     DEF Next, ThreadStep

LEMMA Invariance == Spec => []IInv
BY InitIInv, NextIInv, PTL DEF Spec

(* Every variable has its type: connections_ keeps connections under       *)
(* descriptors, a functor waits only where QueueOneFunc put it.            *)
THEOREM TypeCorrect == Spec => []TypeOK
<1>1. IInv => TypeOK
  BY DEF IInv
<1> QED
  BY Invariance, <1>1, PTL

(* Every step the server makes of its loops is one EventLoop allows: it    *)
(* hands functors only to loops whose thread runs, each at most once       *)
(* (Server.cpp:74, :89), so what is proved of EventLoop holds of it.       *)
THEOREM LoopsAreUsedAsAllowed == Spec => ImplementsEventLoop
<1>1. Init => EL!Init
  BY DEF Init
<1> QED
  BY Invariance, NextIInv, <1>1, PTL DEF Spec, ImplementsEventLoop, EL!Protocol

(* In particular no functor of a connection is left in a to_do_list_       *)
(* without a wake-up of its loop (EventLoop.cpp:70).                       *)
THEOREM ServerLosesNoWakeup == Spec => []EL!NoLostWakeup
<1>1. IInv => EL!NoLostWakeup
  BY LoopsAssumption DEF IInv, EL!IInv, EL!PlacesAgree, EL!WakeupOnItsWay,
                         EL!NoLostWakeup, EL!BeingWoken
<1> QED
  BY Invariance, <1>1, PTL

(* A connection is served, closing or closed, and the tables, functors and *)
(* epoll of the two threads agree on which (Server.cpp:68-90).             *)
THEOREM PhasesOfConnections == Spec => []LifeCycle
<1>1. IInv => LifeCycle
  <2> SUFFICES ASSUME IInv, NEW c \in Conns, Accepted(c)
               PROVE  << state_[c], connections_[fd[c]] = c,
                         HandleCloseInLoop(c) \in Waiting(Main),
                         ConnectionDestructor(c) \in Waiting(LoopOf(c)),
                         watch[c] # "none" >>
                      \in { <<"Connected",    TRUE,  FALSE, FALSE, TRUE>>,
                            <<"Disconnected", TRUE,  TRUE,  FALSE, TRUE>>,
                            <<"Disconnected", FALSE, FALSE, TRUE,  TRUE>>,
                            <<"Disconnected", FALSE, FALSE, FALSE, FALSE>> }
    BY DEF LifeCycle
  <2>1. Served(c) \/ Closing(c) \/ Closed(c)
    BY DEF IInv, PhasesAgree, Phase
  <2>2. /\ LoopOf(c) \in Loops /\ Main \in Loops
        /\ Waiting(Main) \subseteq submitted /\ Waiting(LoopOf(c)) \subseteq submitted
    BY SubLoops, WaitingWasSubmitted DEF IInv
  <2>3. CASE Served(c)
    <3>1. /\ state_[c] = "Connected" /\ Entered(c) = TRUE
          /\ (HandleCloseInLoop(c) \in Waiting(Main)) = FALSE
          /\ (ConnectionDestructor(c) \in Waiting(LoopOf(c))) = FALSE
          /\ (watch[c] # "none") = TRUE
      BY <2>2, <2>3 DEF Served, Entered
    <3> QED
      BY <3>1 DEF Entered
  <2>4. CASE Closing(c)
    <3>1. /\ state_[c] = "Disconnected" /\ Entered(c) = TRUE
          /\ (HandleCloseInLoop(c) \in Waiting(Main)) = TRUE
          /\ (ConnectionDestructor(c) \in Waiting(LoopOf(c))) = FALSE
          /\ (watch[c] # "none") = TRUE
      BY <2>2, <2>4 DEF Closing, Entered
    <3> QED
      BY <3>1 DEF Entered
  <2>5. CASE Closed(c)
    <3>1. /\ state_[c] = "Disconnected" /\ Entered(c) = FALSE
          /\ (HandleCloseInLoop(c) \in Waiting(Main)) = FALSE
          /\ \/ /\ (ConnectionDestructor(c) \in Waiting(LoopOf(c))) = TRUE
                /\ (watch[c] # "none") = TRUE
             \/ /\ (ConnectionDestructor(c) \in Waiting(LoopOf(c))) = FALSE
                /\ (watch[c] # "none") = FALSE
      BY <2>5 DEF Closed, Entered
    <3> QED
      BY <3>1 DEF Entered
  <2> QED
    BY <2>1, <2>3, <2>4, <2>5
<1> QED
  BY Invariance, <1>1, PTL

(* The assertion of Server.cpp:83 holds, and what is erased there is the   *)
(* entry of the connection that closed, however descriptors are reused.    *)
THEOREM CloseErasesItsOwnEntry == Spec => []CloseFindsItsOwnEntry
<1>1. IInv => CloseFindsItsOwnEntry
  <2> SUFFICES ASSUME IInv, NEW c \in Conns, HandleCloseInLoop(c) \in Waiting(Main)
               PROVE  connections_[fd[c]] = c
    BY DEF CloseFindsItsOwnEntry
  <2>1. HandleCloseInLoop(c) \in submitted
    BY SubLoops, WaitingWasSubmitted DEF IInv
  <2> QED
    BY <2>1 DEF IInv, PhasesAgree, Phase, Unborn, Served, Closing, Closed, Entered
<1> QED
  BY Invariance, <1>1, PTL

(* The raw Channel pointers of epoll and of the batch of ready channels    *)
(* (Epoll.cpp:49, EventLoop.cpp:31) never outlive the Connection.          *)
THEOREM ChannelsOutliveTheirEvents == Spec => []NoDanglingChannel
<1>1. IInv => NoDanglingChannel
  <2>1. ASSUME IInv, NEW c \in Conns, watch[c] # "none" PROVE Alive(c)
    <3>1. Accepted(c) /\ (Served(c) \/ Closing(c) \/ Closed(c))
      BY <2>1 DEF IInv, PhasesAgree, Phase, Unborn
    <3>2. CASE Entered(c)
      BY <2>1, <3>1, <3>2 DEF IInv, EntriesAgree, Entered, Alive
    <3>3. CASE Closed(c)
      <4>1. ConnectionDestructor(c) \in Waiting(LoopOf(c)) /\ LoopOf(c) \in Loops
        BY <2>1, <3>3, SubLoops DEF IInv, Closed
      <4> QED
        BY <4>1 DEF Waiting, HeldBy, Alive
    <3> QED
      BY <3>1, <3>2, <3>3 DEF Served, Closing
  <2> QED
    BY <2>1 DEF IInv, EventsAgree, NoDanglingChannel
<1> QED
  BY Invariance, <1>1, PTL

(* read() on the blocking socket of a served connection waits for nothing  *)
(* but an urgent byte, which EPOLLPRI reports and read() does not return   *)
(* (Channel.cpp:24, Connection.cpp:229): whatever else epoll reported is   *)
(* still there when the callback runs, the second callback of the event    *)
(* included (Channel.cpp:29).                                              *)
THEOREM SubLoopsBlockOnUrgentOnly == Spec => []ReadBlocksOnUrgentOnly
<1>1. IInv => ReadBlocksOnUrgentOnly
  <2> SUFFICES ASSUME IInv, NEW c \in Conns, NEW l \in Loops,
                      {In(c), Out(c)} \cap ready[l] # {}, ~Readable(c)
               PROVE  unread[c] = <<"urgent">>
    BY DEF ReadBlocksOnUrgentOnly
  <2>1. unread[c] \in Unreads /\ "data" \notin ToSet(unread[c]) /\ peer[c] = "open"
    BY DEF IInv, SocketsAgree, Readable
  <2>2. unread[c] # <<>>
    BY <2>1 DEF IInv, SocketsAgree, Pending
  <2> QED
    BY <2>1, <2>2, UrgentIsAlone
<1> QED
  BY Invariance, <1>1, PTL

(* With auto_close_conn_ on, a served connection always has a timer that   *)
(* will look at it, or main is about to add it (HttpServer.cpp:59).        *)
THEOREM IdleTimersWatch == Spec => []IdleConnectionsAreWatched
<1>1. IInv => IdleConnectionsAreWatched
  BY DEF IInv
<1> QED
  BY Invariance, <1>1, PTL

=============================================================================
