-------------------------- MODULE EventLoopProofs --------------------------
(***************************************************************************)
(* Theorems about EventLoop, for any loops, functors and channels.  The    *)
(* argument is the inductive invariant IInv: the flag, the batches and the *)
(* place of each thread agree (PlacesAgree), so that the thread of a loop  *)
(* that appends for itself does so in DoToDoList with calling_functors_    *)
(* set or before DoToDoList swaps; and a loop that will wait with functors *)
(* left has its eventfd readable or a write on its way (WakeupOnItsWay).   *)
(***************************************************************************)
EXTENDS EventLoop, SequenceTheorems, TLAPS

LEMMA InitIInv == Init => IInv
<1> SUFFICES ASSUME Init PROVE IInv
  OBVIOUS
<1>1. TypeOK
  BY DEF Init, TypeOK
<1>2. PlacesAgree
  BY DEF Init, PlacesAgree
<1>3. WakeupOnItsWay
  BY DEF Init, WakeupOnItsWay
<1>4. WakeupReadable
  BY DEF Init, WakeupReadable
<1> QED
  BY <1>1, <1>2, <1>3, <1>4 DEF IInv

(* Handing over more functors keeps a sequence of handed-over functors one. *)
LEMMA SeqGrows ==
  ASSUME NEW S, NEW T, S \subseteq T, NEW s \in Seq(S)
  PROVE  s \in Seq(T)
OBVIOUS

(* What one call, or none, of the code of a handler or functor on thread t *)
(* does: t may become busy waking a loop whose thread is bound, and only   *)
(* that loop's list grows.                                                 *)
Effect(t, done) ==
  /\ submitted' \in SUBSET Functors /\ submitted \subseteq submitted'
  /\ ran' \in SUBSET submitted'
  /\ to_do_list_' \in [Loops -> Seq(submitted')]
  /\ waking' \in [Loops -> Loops \cup {NoLoop}]
  /\ \A k \in Loops \ {t} : waking'[k] = waking[k]
  /\ \A k \in Loops : to_do_list_'[k] # to_do_list_[k]
                        => pc[k] # "unbound" /\ waking'[t] = k

LEMMA QueueEffect ==
  ASSUME TypeOK, NEW t \in Loops, NEW done \in SUBSET submitted,
         NEW l \in Bound, NEW f \in Functors,
         QueueOneFunc(t, l, f), ran' = done
  PROVE  Effect(t, done)
<1>1. l \in Loops /\ pc[l] # "unbound"
  BY DEF Bound
<1>2. submitted' \in SUBSET Functors /\ submitted \subseteq submitted' /\ f \in submitted'
  BY DEF QueueOneFunc, TypeOK
<1>3. \A k \in Loops : to_do_list_[k] \in Seq(submitted')
  BY <1>2, SeqGrows DEF TypeOK
<1>4. to_do_list_' \in [Loops -> Seq(submitted')]
  BY <1>1, <1>2, <1>3, AppendProperties DEF QueueOneFunc, TypeOK
<1> QED
  BY <1>1, <1>2, <1>4 DEF QueueOneFunc, TypeOK, Effect

LEMMA BodyEffect ==
  ASSUME TypeOK, NEW t \in Loops, NEW done \in SUBSET submitted, Body(t, done)
  PROVE  Effect(t, done)
<1>1. CASE NoCall(done)
  BY <1>1 DEF NoCall, TypeOK, Effect
<1>2. ASSUME NEW l \in Bound, NEW f \in Functors, RunOneFunc(t, l, f, done)
      PROVE  Effect(t, done)
  <2>1. CASE QueueOneFunc(t, l, f) /\ ran' = done
    BY <1>2, <2>1, QueueEffect
  <2>2. CASE ran' = done \cup {f} /\ submitted' = submitted \cup {f}
             /\ UNCHANGED <<to_do_list_, waking>>
    <3>1. submitted' \in SUBSET Functors /\ submitted \subseteq submitted'
      BY <1>2, <2>2 DEF TypeOK
    <3>2. to_do_list_' \in [Loops -> Seq(submitted')]
      BY <2>2, <3>1, SeqGrows DEF TypeOK
    <3> QED
      BY <2>2, <3>1, <3>2 DEF TypeOK, Effect
  <2> QED
    BY <1>2, <2>1, <2>2 DEF RunOneFunc
<1> QED
  BY <1>1, <1>2, QueueEffect DEF Body

(* The four parts of IInv after a step that runs the code of a callback.   *)
LEMMA CallbackKeepsIInv ==
  ASSUME IInv, NEW t \in Loops, NEW done \in SUBSET submitted,
         waking[t] = NoLoop, pc[t] \in {"dispatch", "drain"},
         Effect(t, done),
         UNCHANGED <<pc, eventfd, calling_functors_>>,
         ready' \in [Loops -> SUBSET (Channels \cup {Wakeup})],
         \A l \in Loops : ready'[l] \subseteq ready[l],
         functors' \in [Loops -> Seq(submitted')],
         \A l \in Loops : functors'[l] # <<>> => functors[l] # <<>>
  PROVE  IInv'
<1> USE DEF IInv
<1>1. TypeOK'
  BY DEF TypeOK, Effect
<1>2. PlacesAgree'
  BY DEF TypeOK, Effect, PlacesAgree
<1>3. WakeupOnItsWay'
  <2> SUFFICES ASSUME NEW l \in Loops, pc[l] \in {"poll", "drain"},
                      to_do_list_'[l] # <<>>, ~(eventfd[l] > 0)
               PROVE  \E u \in Loops : waking'[u] = l
    BY DEF WakeupOnItsWay
  <2>1. CASE to_do_list_'[l] # to_do_list_[l]
    BY <2>1 DEF Effect
  <2>2. CASE to_do_list_'[l] = to_do_list_[l]
    <3>1. PICK u \in Loops : waking[u] = l
      BY <2>2 DEF WakeupOnItsWay
    <3>2. u # t
      BY <3>1, NoLoopAssumption
    <3> QED
      BY <3>1, <3>2 DEF Effect
  <2> QED
    BY <2>1, <2>2
<1>4. WakeupReadable'
  BY DEF WakeupReadable, TypeOK
<1> QED
  BY <1>1, <1>2, <1>3, <1>4

LEMMA NextIInv == IInv /\ [Next]_vars => IInv'
<1> SUFFICES ASSUME IInv, [Next]_vars PROVE IInv'
  OBVIOUS
<1> USE NoLoopAssumption, WakeupAssumption DEF IInv
<1>1. CASE UNCHANGED vars
  BY <1>1 DEF vars, TypeOK, PlacesAgree, WakeupOnItsWay, WakeupReadable
<1>2. ASSUME NEW l \in Loops, Progress(l) \/ PollAny(l) PROVE IInv'
  <2>1. CASE WriteWakeup(l)
    <3>1. TypeOK'
      BY <2>1 DEF WriteWakeup, At, TypeOK
    <3>2. PlacesAgree'
      BY <2>1 DEF WriteWakeup, At, TypeOK, PlacesAgree
    <3>3. WakeupOnItsWay'
      BY <2>1 DEF WriteWakeup, At, TypeOK, PlacesAgree, WakeupOnItsWay
    <3>4. WakeupReadable'
      BY <2>1 DEF WriteWakeup, At, TypeOK, PlacesAgree, WakeupReadable
    <3> QED
      BY <3>1, <3>2, <3>3, <3>4 DEF IInv
  <2>2. CASE Bind(l)
    <3>1. TypeOK'
      BY <2>2 DEF Bind, At, TypeOK
    <3>2. PlacesAgree'
      BY <2>2 DEF Bind, At, TypeOK, PlacesAgree
    <3>3. WakeupOnItsWay'
      BY <2>2 DEF Bind, At, TypeOK, PlacesAgree, WakeupOnItsWay
    <3>4. WakeupReadable'
      BY <2>2 DEF Bind, At, TypeOK, PlacesAgree, WakeupReadable
    <3> QED
      BY <3>1, <3>2, <3>3, <3>4 DEF IInv
  <2>3. CASE HandleRead(l)
    <3>1. TypeOK'
      BY <2>3 DEF HandleRead, At, TypeOK
    <3>2. PlacesAgree'
      BY <2>3 DEF HandleRead, At, TypeOK, PlacesAgree
    <3>3. WakeupOnItsWay'
      BY <2>3 DEF HandleRead, At, TypeOK, PlacesAgree, WakeupOnItsWay
    <3>4. WakeupReadable'
      BY <2>3 DEF HandleRead, At, TypeOK, PlacesAgree, WakeupReadable
    <3> QED
      BY <3>1, <3>2, <3>3, <3>4 DEF IInv
  <2>4. ASSUME NEW ch \in Channels, HandleEvent(l, ch) PROVE IInv'
    <3>1. Effect(l, ran)
      BY <2>4, BodyEffect DEF HandleEvent, TypeOK
    <3>2. functors' \in [Loops -> Seq(submitted')]
      BY <2>4, <3>1, SeqGrows DEF HandleEvent, Dispatch, Effect, TypeOK
    <3> QED
      BY <2>4, <3>1, <3>2, CallbackKeepsIInv DEF HandleEvent, Dispatch, At, TypeOK
  <2>5. CASE BeginDoToDoList(l)
    <3>1. TypeOK'
      BY <2>5 DEF BeginDoToDoList, At, TypeOK
    <3>2. PlacesAgree'
      BY <2>5 DEF BeginDoToDoList, At, TypeOK, PlacesAgree
    <3>3. WakeupOnItsWay'
      BY <2>5 DEF BeginDoToDoList, At, TypeOK, PlacesAgree, WakeupOnItsWay
    <3>4. WakeupReadable'
      BY <2>5 DEF BeginDoToDoList, At, TypeOK, PlacesAgree, WakeupReadable
    <3> QED
      BY <3>1, <3>2, <3>3, <3>4 DEF IInv
  <2>6. CASE RunFunctor(l)
    <3>1. Head(functors[l]) \in submitted /\ Tail(functors[l]) \in Seq(submitted)
      BY <2>6, HeadTailProperties DEF RunFunctor, Take, TypeOK
    <3>2. ran \cup {Head(functors[l])} \in SUBSET submitted
      BY <3>1 DEF TypeOK
    <3>3. Effect(l, ran \cup {Head(functors[l])})
      BY <2>6, <3>2, BodyEffect DEF RunFunctor
    <3>4. functors' \in [Loops -> Seq(submitted')]
      BY <2>6, <3>1, <3>3, SeqGrows DEF RunFunctor, Take, Effect, TypeOK
    <3> QED
      BY <2>6, <3>2, <3>3, <3>4, CallbackKeepsIInv DEF RunFunctor, Take, At, TypeOK
  <2>7. CASE EndDoToDoList(l)
    <3>1. TypeOK'
      BY <2>7 DEF EndDoToDoList, At, TypeOK
    <3>2. PlacesAgree'
      BY <2>7 DEF EndDoToDoList, At, TypeOK, PlacesAgree
    <3>3. WakeupOnItsWay'
      BY <2>7 DEF EndDoToDoList, At, TypeOK, PlacesAgree, WakeupOnItsWay
    <3>4. WakeupReadable'
      BY <2>7 DEF EndDoToDoList, At, TypeOK, PlacesAgree, WakeupReadable
    <3> QED
      BY <3>1, <3>2, <3>3, <3>4 DEF IInv
  <2>8. ASSUME NEW S \in SUBSET Channels, Poll(l, S) PROVE IInv'
    <3>1. TypeOK'
      BY <2>8 DEF Poll, At, TypeOK
    <3>2. PlacesAgree'
      BY <2>8 DEF Poll, At, TypeOK, PlacesAgree
    <3>3. WakeupOnItsWay'
      BY <2>8 DEF Poll, At, TypeOK, PlacesAgree, WakeupOnItsWay
    <3>4. WakeupReadable'
      BY <2>8 DEF Poll, At, TypeOK, PlacesAgree, WakeupReadable
    <3> QED
      BY <3>1, <3>2, <3>3, <3>4 DEF IInv
  <2> QED
    BY <1>2, <2>1, <2>2, <2>3, <2>4, <2>5, <2>6, <2>7, <2>8 DEF Progress, PollAny
<1> QED
  BY <1>1, <1>2 DEF Next

(* IInv holds in every reachable state.                                    *)
THEOREM Invariance == Protocol => []IInv
<1>1. IInv /\ [Next]_vars => IInv'
  BY NextIInv
<1> QED
  BY InitIInv, <1>1, PTL DEF Protocol

(* Every variable keeps its type, for any number of loops and functors.    *)
THEOREM TypeCorrectness == Spec => []TypeOK
<1>1. IInv => TypeOK
  BY DEF IInv
<1> QED
  BY Invariance, <1>1, PTL DEF Spec

(* No loop sleeps in epoll_wait on a functor whose wake-up was decided     *)
(* against: QueueOneFunc's test of the thread and of calling_functors_ is  *)
(* enough.                                                                 *)
THEOREM NoWakeupIsLost == Spec => []NoLostWakeup
<1>1. IInv => NoLostWakeup
  <2> SUFFICES ASSUME IInv, NEW l \in Loops, pc[l] = "poll",
                      to_do_list_[l] # <<>>, ~(eventfd[l] > 0)
               PROVE  BeingWoken(l)
    BY DEF NoLostWakeup
  <2>1. PICK t \in Loops : waking[t] = l
    BY DEF IInv, WakeupOnItsWay
  <2>2. t # l
    BY <2>1, NoLoopAssumption DEF IInv, PlacesAgree
  <2> QED
    BY <2>1, <2>2 DEF BeingWoken
<1> QED
  BY Invariance, <1>1, PTL DEF Spec

(* The assertion of HandleRead never fails.                                *)
THEOREM WakeupIsReadable == Spec => []WakeupReadable
<1>1. IInv => WakeupReadable
  BY DEF IInv
<1> QED
  BY Invariance, <1>1, PTL DEF Spec

-----------------------------------------------------------------------------
(* The refinement of TaskQueue: what a loop still has to run is its batch  *)
(* followed by its list.                                                   *)

Pending == [l \in Loops |-> functors[l] \o to_do_list_[l]]

LEMMA InitRefines == Init => TQ!Init
BY DEF Init, TQ!Init

LEMMA AppendToConcat ==
  ASSUME NEW S, NEW s \in Seq(S), NEW t \in Seq(S), NEW e \in S
  PROVE  s \o Append(t, e) = Append(s \o t, e)
OBVIOUS

LEMMA TailOfConcat ==
  ASSUME NEW S, NEW s \in Seq(S), NEW t \in Seq(S), s # <<>>
  PROVE  /\ s \o t # <<>>
         /\ Head(s \o t) = Head(s)
         /\ Tail(s \o t) = Tail(s) \o t
OBVIOUS

LEMMA EmptyConcat ==
  ASSUME NEW S, NEW s \in Seq(S)
  PROVE  <<>> \o s = s /\ s \o <<>> = s
OBVIOUS

(* The code of a callback that is not the next functor, on queues p: at    *)
(* most one hand-over, or one functor run in place.                        *)
LEMMA BodyHandsOver ==
  ASSUME IInv, NEW t \in Loops, NEW done \in SUBSET submitted, NEW rest, NEW p,
         rest \in [Loops -> Seq(submitted)], Body(t, done),
         p = [l \in Loops |-> rest[l] \o to_do_list_[l]],
         Pending' = [l \in Loops |-> rest[l] \o to_do_list_'[l]]
  PROVE  \/ TQ!HandOver(p) /\ ran' = done
         \/ \E f \in Functors \ submitted :
              /\ Pending' = p
              /\ submitted' = submitted \cup {f}
              /\ ran' = done \cup {f}
<1>1. CASE NoCall(done)
  <2>1. Pending' = p
    BY <1>1 DEF NoCall
  <2> QED
    BY <1>1, <2>1 DEF NoCall, TQ!HandOver, Pending
<1>2. ASSUME NEW l \in Bound, NEW f \in Functors \ submitted,
             QueueOneFunc(t, l, f), ran' = done
      PROVE  TQ!HandOver(p)
  <2>1. l \in Loops
    BY DEF Bound
  <2> DEFINE T == submitted \cup {f}
  <2>2. \A k \in Loops : rest[k] \in Seq(T) /\ to_do_list_[k] \in Seq(T)
    BY SeqGrows DEF IInv, TypeOK
  <2>3. rest[l] \o Append(to_do_list_[l], f) = Append(rest[l] \o to_do_list_[l], f)
    BY <2>1, <2>2, AppendToConcat
  <2>4. to_do_list_' = [to_do_list_ EXCEPT ![l] = Append(@, f)]
    BY <1>2 DEF QueueOneFunc
  <2>5. Pending' = [p EXCEPT ![l] = Append(@, f)]
    BY <2>1, <2>3, <2>4 DEF IInv, TypeOK
  <2>6. submitted' = submitted \cup {f}
    BY <1>2 DEF QueueOneFunc
  <2> QED
    BY <2>1, <2>5, <2>6 DEF TQ!HandOver, Pending
<1>3. ASSUME NEW l \in Bound, NEW f \in Functors \ submitted,
             RunOneFunc(t, l, f, done), ~(QueueOneFunc(t, l, f) /\ ran' = done)
      PROVE  Pending' = p /\ submitted' = submitted \cup {f} /\ ran' = done \cup {f}
  BY <1>3 DEF RunOneFunc
<1>4. CASE \E l \in Bound, f \in Functors \ submitted :
             \/ QueueOneFunc(t, l, f) /\ ran' = done
             \/ RunOneFunc(t, l, f, done)
  BY <1>2, <1>3, <1>4
<1> QED
  BY <1>1, <1>4 DEF Body

(* Every step of the loops is a step of TaskQueue or leaves it alone.      *)
LEMMA NextRefines == IInv /\ [Next]_vars => [TQ!Next]_(TQ!vars)
<1> SUFFICES ASSUME IInv, [Next]_vars PROVE [TQ!Next]_(TQ!vars)
  OBVIOUS
<1>1. ASSUME UNCHANGED <<functors, to_do_list_, submitted, ran>>
      PROVE  [TQ!Next]_(TQ!vars)
  BY <1>1 DEF TQ!vars
<1>2. CASE UNCHANGED vars
  BY <1>1, <1>2 DEF vars
<1>3. ASSUME NEW l \in Loops,
             \/ WriteWakeup(l) \/ Bind(l) \/ HandleRead(l)
             \/ EndDoToDoList(l) \/ PollAny(l)
      PROVE  [TQ!Next]_(TQ!vars)
  BY <1>1, <1>3 DEF WriteWakeup, Bind, HandleRead, EndDoToDoList, PollAny, Poll
<1>4. ASSUME NEW l \in Loops, NEW ch \in Channels, HandleEvent(l, ch)
      PROVE  [TQ!Next]_(TQ!vars)
  <2>1. /\ functors \in [Loops -> Seq(submitted)] /\ functors' = functors
        /\ ran \in SUBSET submitted
        /\ Body(l, ran)
    BY <1>4 DEF IInv, TypeOK, HandleEvent, Dispatch
  <2>2. Pending' = [k \in Loops |-> functors[k] \o to_do_list_'[k]]
    BY <2>1 DEF Pending
  <2>3. \/ TQ!HandOver(Pending) /\ ran' = ran
        \/ \E f \in Functors \ submitted :
             /\ Pending' = Pending
             /\ submitted' = submitted \cup {f}
             /\ ran' = ran \cup {f}
    BY <2>1, <2>2, BodyHandsOver DEF TQ!HandOver, Pending
  <2> QED
    BY <2>3 DEF TQ!Next, TQ!Submit, TQ!RunInPlace, Pending
<1>5. ASSUME NEW l \in Loops, BeginDoToDoList(l)
      PROVE  [TQ!Next]_(TQ!vars)
  <2>1. functors[l] = <<>> /\ functors'[l] = to_do_list_[l] /\ to_do_list_'[l] = <<>>
    BY <1>5 DEF IInv, TypeOK, PlacesAgree, BeginDoToDoList, At
  <2>2. \A k \in Loops \ {l} : functors'[k] = functors[k] /\ to_do_list_'[k] = to_do_list_[k]
    BY <1>5 DEF IInv, TypeOK, BeginDoToDoList
  <2>3. functors'[l] \o to_do_list_'[l] = functors[l] \o to_do_list_[l]
    BY <2>1, EmptyConcat DEF IInv, TypeOK
  <2>4. UNCHANGED Pending
    BY <2>2, <2>3 DEF Pending
  <2> QED
    BY <1>5, <2>4 DEF BeginDoToDoList, TQ!vars, Pending
<1>6. ASSUME NEW l \in Loops, RunFunctor(l)
      PROVE  [TQ!Next]_(TQ!vars)
  <2> DEFINE done == ran \cup {Head(functors[l])}
             rest == [functors EXCEPT ![l] = Tail(@)]
  <2>1. functors[l] # <<>> /\ functors' = rest /\ Body(l, done)
    BY <1>6 DEF RunFunctor, Take
  <2>2. done \in SUBSET submitted /\ rest \in [Loops -> Seq(submitted)]
    BY <2>1, HeadTailProperties DEF IInv, TypeOK
  <2>3. Pending' = [k \in Loops |-> rest[k] \o to_do_list_'[k]]
    BY <2>1 DEF Pending
  <2>4. /\ Pending[l] # <<>> /\ Head(Pending[l]) = Head(functors[l])
        /\ Tail(Pending[l]) = rest[l] \o to_do_list_[l]
    BY <2>1, TailOfConcat DEF IInv, TypeOK, Pending
  <2>5. [k \in Loops |-> rest[k] \o to_do_list_[k]] = [Pending EXCEPT ![l] = Tail(@)]
    BY <2>4 DEF IInv, TypeOK, Pending
  <2> HIDE DEF done, rest
  <2> DEFINE p == [Pending EXCEPT ![l] = Tail(@)]
  <2>6. \/ TQ!HandOver(p) /\ ran' = done
        \/ \E f \in Functors \ submitted :
             /\ Pending' = p
             /\ submitted' = submitted \cup {f}
             /\ ran' = done \cup {f}
    BY <2>1, <2>2, <2>3, <2>5, BodyHandsOver, ZenonT(30) DEF TQ!HandOver, Pending
  <2>7. done = ran \cup {Head(Pending[l])}
    BY <2>4 DEF done
  <2>8. TQ!Execute(l)
    BY <2>4, <2>6, <2>7 DEF TQ!Execute, Pending
  <2> QED
    BY <2>8 DEF TQ!Next
<1> QED
  BY <1>2, <1>3, <1>4, <1>5, <1>6 DEF Next, Progress

(* The loops implement the safety part of TaskQueue: first in first out    *)
(* per loop, on the thread of the loop, nothing lost and nothing added.    *)
THEOREM ImplementsTaskQueue == Spec => TQ!Protocol
<1>1. IInv /\ [Next]_vars => [TQ!Next]_(TQ!vars)
  BY NextRefines
<1> QED
  BY Invariance, InitRefines, <1>1, PTL DEF Spec, Protocol, TQ!Protocol

(* So no functor of the loops runs twice.                                  *)
TQP == INSTANCE TaskQueueProofs WITH
         pending <- [l \in Loops |-> functors[l] \o to_do_list_[l]]

THEOREM RunsOnceTheorem == Spec => []RunsOnce
<1>1. TQP!Protocol => []TQP!RunsOnce
  BY TQP!FunctorsRunOnce
<1>2. TQP!Init <=> TQ!Init
  BY DEF TQP!Init, TQ!Init
<1>3. [TQ!Next]_(TQ!vars) => [TQP!Next]_(TQP!vars)
  BY DEF TQP!Next, TQP!Submit, TQP!RunInPlace, TQP!Execute, TQP!HandOver, TQP!vars,
         TQ!Next, TQ!Submit, TQ!RunInPlace, TQ!Execute, TQ!HandOver, TQ!vars
<1>4. TQP!RunsOnce <=> RunsOnce
  BY DEF RunsOnce, TQ!RunsOnce, TQP!RunsOnce
<1> QED
  BY ImplementsTaskQueue, <1>1, <1>2, <1>3, <1>4, PTL DEF TQ!Protocol, TQP!Protocol
=============================================================================
