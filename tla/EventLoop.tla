----------------------------- MODULE EventLoop -----------------------------
(***************************************************************************)
(* The event loops of src/tcp/EventLoop.cpp, one thread each: wait in      *)
(* epoll, call the handlers of the ready channels, run the functors other  *)
(* threads left in to_do_list_.  The hard part is the wake-up protocol: a  *)
(* thread that leaves a functor must get the loop out of epoll_wait, and   *)
(* appends under a mutex first and writes to the eventfd after unlocking.  *)
(*                                                                         *)
(* Each critical section of mutex_ is one step; a functor is an identity   *)
(* (one per call of QueueOneFunc or RunOneFunc), and the code of a handler *)
(* or functor is its calls of QueueOneFunc and RunOneFunc, at most one.    *)
(***************************************************************************)
EXTENDS Naturals, Sequences

CONSTANTS Loops,      \* the event loops
          NoLoop,     \* a value that is not a loop
          Functors,   \* one element per call of QueueOneFunc or RunOneFunc
          Channels,   \* events of the channels other than the wake-up channel
          Wakeup      \* readability of wakeup_channel_

ASSUME NoLoopAssumption == NoLoop \notin Loops
ASSUME WakeupAssumption == Wakeup \notin Channels

VARIABLES
  pc,                 \* where the thread of each loop is
  ready,              \* channels returned by Poll and not handled yet
  eventfd,            \* counter behind wakeup_fd_
  to_do_list_,        \* functors left for the loop
  functors,           \* the batch DoToDoList took, its unstarted part
  calling_functors_,  \* the flag of the same name
  waking,             \* waking[t]: loop whose QueueOneFunc t is in the middle of
  submitted,          \* history: functors handed over or run in place
  ran                 \* history: functors run

vars == <<pc, ready, eventfd, to_do_list_, functors, calling_functors_,
          waking, submitted, ran>>

Init ==
  /\ pc = [l \in Loops |-> "unbound"]
  /\ ready = [l \in Loops |-> {}]
  /\ eventfd = [l \in Loops |-> 0]
  /\ to_do_list_ = [l \in Loops |-> <<>>]
  /\ functors = [l \in Loops |-> <<>>]
  /\ calling_functors_ = [l \in Loops |-> FALSE]
  /\ waking = [l \in Loops |-> NoLoop]
  /\ submitted = {}
  /\ ran = {}

(* Loops whose thread has set tid_.  The server hands work only to these:  *)
(* before Loop() runs, IsInLoopThread would read an uninitialised tid_.    *)
Bound == {l \in Loops : pc[l] # "unbound"}

-----------------------------------------------------------------------------
(* Calls made by the code of a handler or functor on thread t.  "done" is  *)
(* what has run by the time of the call.                                   *)

(* QueueOneFunc up to the unlock: the append.                              *)
QueueOneFunc(t, l, f) ==
  /\ to_do_list_' = [to_do_list_ EXCEPT ![l] = Append(@, f)]
  /\ waking' = [waking EXCEPT ![t] = l]
  /\ submitted' = submitted \cup {f}

RunOneFunc(t, l, f, done) ==
  \/ /\ t = l
     /\ ran' = done \cup {f}
     /\ submitted' = submitted \cup {f}
     /\ UNCHANGED <<to_do_list_, waking>>
  \/ t # l /\ QueueOneFunc(t, l, f) /\ ran' = done

NoCall(done) == ran' = done /\ UNCHANGED <<to_do_list_, waking, submitted>>

Body(t, done) ==
  \/ NoCall(done)
  \/ \E l \in Bound, f \in Functors \ submitted :
       \/ QueueOneFunc(t, l, f) /\ ran' = done
       \/ RunOneFunc(t, l, f, done)

(* Mutant of WriteWakeup: "|| calling_functors_" dropped.                  *)
WriteWakeupOthersOnly(t) ==
  /\ waking[t] # NoLoop
  /\ eventfd' = IF t # waking[t] THEN [eventfd EXCEPT ![waking[t]] = @ + 1]
                ELSE eventfd
  /\ waking' = [waking EXCEPT ![t] = NoLoop]
  /\ UNCHANGED <<pc, ready, to_do_list_, functors, calling_functors_,
                 submitted, ran>>

(* The rest of QueueOneFunc: !IsInLoopThread() || calling_functors_        *)
(* decides whether the eventfd of the loop is written.                     *)
WriteWakeup(t) ==
  /\ waking[t] # NoLoop
  /\ LET l == waking[t]
     IN  eventfd' = IF t # l \/ calling_functors_[l]
                    THEN [eventfd EXCEPT ![l] = @ + 1] ELSE eventfd
  /\ waking' = [waking EXCEPT ![t] = NoLoop]
  /\ UNCHANGED <<pc, ready, to_do_list_, functors, calling_functors_,
                 submitted, ran>>

-----------------------------------------------------------------------------
(* The thread of loop l is at place p of Loop(), in no call of its own.    *)
At(l, p) == pc[l] = p /\ waking[l] = NoLoop

(* Loop() starts on its thread.                                            *)
Bind(l) ==
  /\ At(l, "unbound")
  /\ pc' = [pc EXCEPT ![l] = "poll"]
  /\ UNCHANGED <<ready, eventfd, to_do_list_, functors, calling_functors_,
                 waking, submitted, ran>>

(* Mutant of Poll: the eventfd is read as soon as epoll_wait returns.      *)
PollReadsEventfd(l, S) ==
  LET woken == IF eventfd[l] > 0 THEN {Wakeup} ELSE {}
  IN  /\ At(l, "poll")
      /\ S \cup woken # {}
      /\ ready' = [ready EXCEPT ![l] = S \cup woken]
      /\ pc' = [pc EXCEPT ![l] = "dispatch"]
      /\ eventfd' = [eventfd EXCEPT ![l] = 0]
      /\ UNCHANGED <<to_do_list_, functors, calling_functors_, waking,
                     submitted, ran>>

(* epoll_wait without a timeout: returns when the eventfd or some channels *)
(* S are ready, with all of those.                                         *)
Poll(l, S) ==
  LET woken == IF eventfd[l] > 0 THEN {Wakeup} ELSE {}
  IN  /\ At(l, "poll")
      /\ S \cup woken # {}
      /\ ready' = [ready EXCEPT ![l] = S \cup woken]
      /\ pc' = [pc EXCEPT ![l] = "dispatch"]
      /\ UNCHANGED <<eventfd, to_do_list_, functors, calling_functors_,
                     waking, submitted, ran>>

PollAny(l) == At(l, "poll") /\ \E S \in SUBSET Channels : Poll(l, S)

(* HandleRead: reading the eventfd sets its counter to zero.               *)
HandleRead(l) ==
  /\ At(l, "dispatch") /\ Wakeup \in ready[l]
  /\ eventfd' = [eventfd EXCEPT ![l] = 0]
  /\ ready' = [ready EXCEPT ![l] = @ \ {Wakeup}]
  /\ UNCHANGED <<pc, to_do_list_, functors, calling_functors_, waking,
                 submitted, ran>>

(* Takes ch out of the batch of ready channels.                            *)
Dispatch(l, ch) ==
  /\ At(l, "dispatch") /\ ch \in ready[l] \ {Wakeup}
  /\ ready' = [ready EXCEPT ![l] = @ \ {ch}]
  /\ UNCHANGED <<pc, eventfd, functors, calling_functors_>>

HandleEvent(l, ch) == Dispatch(l, ch) /\ Body(l, ran)

(* Mutant of BeginDoToDoList: it takes one wake-up back from the counter.  *)
BeginTakesWakeup(l) ==
  /\ At(l, "dispatch") /\ ready[l] = {}
  /\ pc' = [pc EXCEPT ![l] = "drain"]
  /\ calling_functors_' = [calling_functors_ EXCEPT ![l] = TRUE]
  /\ functors' = [functors EXCEPT ![l] = to_do_list_[l]]
  /\ to_do_list_' = [to_do_list_ EXCEPT ![l] = <<>>]
  /\ eventfd' = [eventfd EXCEPT ![l] = @ - 1]
  /\ UNCHANGED <<ready, waking, submitted, ran>>

(* Mutant of BeginDoToDoList: copies the list in place of the swap.        *)
BeginCopies(l) ==
  /\ At(l, "dispatch") /\ ready[l] = {}
  /\ pc' = [pc EXCEPT ![l] = "drain"]
  /\ calling_functors_' = [calling_functors_ EXCEPT ![l] = TRUE]
  /\ functors' = [functors EXCEPT ![l] = to_do_list_[l]]
  /\ UNCHANGED <<ready, eventfd, to_do_list_, waking, submitted, ran>>

(* DoToDoList up to the unlock: the swap.                                  *)
BeginDoToDoList(l) ==
  /\ At(l, "dispatch") /\ ready[l] = {}
  /\ pc' = [pc EXCEPT ![l] = "drain"]
  /\ calling_functors_' = [calling_functors_ EXCEPT ![l] = TRUE]
  /\ functors' = [functors EXCEPT ![l] = to_do_list_[l]]
  /\ to_do_list_' = [to_do_list_ EXCEPT ![l] = <<>>]
  /\ UNCHANGED <<ready, eventfd, waking, submitted, ran>>

(* Takes the next functor of the batch.                                    *)
Take(l) ==
  /\ At(l, "drain") /\ functors[l] # <<>>
  /\ functors' = [functors EXCEPT ![l] = Tail(@)]
  /\ UNCHANGED <<pc, ready, eventfd, calling_functors_>>

RunFunctor(l) == Take(l) /\ Body(l, ran \cup {Head(functors[l])})

(* Mutants of EndDoToDoList: the list is cleared after the batch; the flag *)
(* is not reset.                                                           *)
EndClearsList(l) ==
  /\ At(l, "drain") /\ functors[l] = <<>>
  /\ calling_functors_' = [calling_functors_ EXCEPT ![l] = FALSE]
  /\ to_do_list_' = [to_do_list_ EXCEPT ![l] = <<>>]
  /\ pc' = [pc EXCEPT ![l] = "poll"]
  /\ UNCHANGED <<ready, eventfd, functors, waking, submitted, ran>>

EndKeepsFlag(l) ==
  /\ At(l, "drain") /\ functors[l] = <<>>
  /\ pc' = [pc EXCEPT ![l] = "poll"]
  /\ UNCHANGED <<ready, eventfd, to_do_list_, functors, calling_functors_,
                 waking, submitted, ran>>

EndDoToDoList(l) ==
  /\ At(l, "drain") /\ functors[l] = <<>>
  /\ calling_functors_' = [calling_functors_ EXCEPT ![l] = FALSE]
  /\ pc' = [pc EXCEPT ![l] = "poll"]
  /\ UNCHANGED <<ready, eventfd, to_do_list_, functors, waking, submitted, ran>>

-----------------------------------------------------------------------------
(* What a thread does by itself once it is scheduled.                      *)
Progress(l) ==
  \/ WriteWakeup(l)
  \/ Bind(l)
  \/ HandleRead(l)
  \/ \E ch \in Channels : HandleEvent(l, ch)
  \/ BeginDoToDoList(l)
  \/ RunFunctor(l)
  \/ EndDoToDoList(l)

Next == \E l \in Loops : Progress(l) \/ PollAny(l)

Protocol == Init /\ [][Next]_vars

(* A thread that can run does run, and epoll_wait returns when the eventfd *)
(* is readable.  Nothing is assumed of the other channels.                 *)
Fairness ==
  \A l \in Loops :
    WF_vars(Progress(l) \/ (eventfd[l] > 0 /\ PollAny(l)))

Spec == Protocol /\ Fairness

-----------------------------------------------------------------------------
(* The flag, the batches and the place of the thread agree.                *)
PlacesAgree ==
  \A l \in Loops :
    /\ calling_functors_[l] <=> pc[l] = "drain"
    /\ ready[l] # {} => pc[l] = "dispatch"
    /\ functors[l] # <<>> => pc[l] = "drain"
    /\ waking[l] # NoLoop => pc[l] \in {"dispatch", "drain"}
    /\ pc[l] = "unbound" => to_do_list_[l] = <<>>

(* Stronger than NoLostWakeup: the wake-up is already on its way while the *)
(* loop still runs functors, possibly from its own thread.                 *)
WakeupOnItsWay ==
  \A l \in Loops :
    pc[l] \in {"poll", "drain"} /\ to_do_list_[l] # <<>>
      => eventfd[l] > 0 \/ \E t \in Loops : waking[t] = l

(* Types, of the counter read from the non-blocking eventfd in particular, *)
(* and only functors that were handed over wait or have run.               *)
TypeOK ==
  /\ pc \in [Loops -> {"unbound", "poll", "dispatch", "drain"}]
  /\ ready \in [Loops -> SUBSET (Channels \cup {Wakeup})]
  /\ eventfd \in [Loops -> Nat]
  /\ to_do_list_ \in [Loops -> Seq(submitted)]
  /\ functors \in [Loops -> Seq(submitted)]
  /\ calling_functors_ \in [Loops -> BOOLEAN]
  /\ waking \in [Loops -> Loops \cup {NoLoop}]
  /\ submitted \in SUBSET Functors
  /\ ran \in SUBSET submitted

(* Some thread is between its append for l and its write to the eventfd.   *)
BeingWoken(l) == \E t \in Loops \ {l} : waking[t] = l

(* No wake-up is lost: a loop that waits in epoll_wait while functors are  *)
(* left for it has a readable eventfd, or a thread about to write it.      *)
(* EventLoop.cpp:60-63 says why it must: the loop would sleep on them.     *)
NoLostWakeup ==
  \A l \in Loops :
    pc[l] = "poll" /\ to_do_list_[l] # <<>> => eventfd[l] > 0 \/ BeingWoken(l)

(* When HandleRead is about to run, the read returns a whole counter: the  *)
(* assertion of EventLoop.cpp:95 on the non-blocking eventfd holds.        *)
WakeupReadable == \A l \in Loops : Wakeup \in ready[l] => eventfd[l] > 0

(* The inductive invariant of EventLoopProofs.                             *)
IInv == TypeOK /\ PlacesAgree /\ WakeupOnItsWay /\ WakeupReadable

(* The loops implement the promise of TaskQueue: FIFO per loop, exactly    *)
(* once, never lost, through the swapped batch followed by the list.       *)
TQ == INSTANCE TaskQueue WITH
        pending <- [l \in Loops |-> functors[l] \o to_do_list_[l]]

Implements == TQ!Spec

(* No functor runs twice: it waits in one place, of a batch or of a        *)
(* to_do_list_, and what waits has not run (EventLoop.cpp:44 swaps).       *)
RunsOnce == TQ!RunsOnce
=============================================================================
