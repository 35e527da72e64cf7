----------------------------- MODULE TimerQueue -----------------------------
(***************************************************************************)
(* The timers of one event loop (src/timer/TimerQueue.cpp): timers_, a set *)
(* ordered by expiration, and one timerfd armed for the first of them.     *)
(* AddTimer takes no lock, and HttpServer.cpp:61 calls it from the main    *)
(* thread on the queue of a sub loop, so its calls of the set interleave   *)
(* with those of the loop's HandleRead.                                    *)
(*                                                                         *)
(* A tick is the 100 microseconds below which ResetTimerFd does not go.    *)
(* Expirations are kept as ticks still to go on the wall clock             *)
(* (TimeStamp::Now), while the timerfd counts monotonic ticks: the wall    *)
(* clock may be set forward or back between the two.                       *)
(* One call of the std::set is one step (begin() is one with the range it  *)
(* starts: a timer emplaced between the two is as if emplaced before or    *)
(* after both): what two unsynchronised calls do to the nodes of the set   *)
(* is beyond any model.                                                    *)
(***************************************************************************)
EXTENDS Integers, Sequences, SequencesExt

CONSTANTS Timers,      \* Timer objects; an address is used again after delete
          NoTimer,     \* a value that is not a timer
          MaxDelay,    \* bound of delays, in ticks
          Intervals,   \* intervals of timers, in ticks; 0 does not repeat
          MaxSteps     \* bound of the times the wall clock is set

ASSUME NoTimerAssumption == NoTimer \notin Timers
ASSUME DelayAssumption ==
  MaxDelay \in Nat \ {0} /\ MaxSteps \in Nat /\ Intervals \subseteq 0 .. MaxDelay

VARIABLES
  timers_,             \* the ordered set, as a sequence
  end,                 \* HandleRead's iterator: how many timers lie before it
  active_timers_,      \* the timers HandleRead took, the part still to run
  rested,              \* the rest of active_timers_: run, not yet reset
  due,                 \* ticks of the wall clock until expiration_
  interval_,           \* 0 for a timer that does not repeat
  left,                \* ticks until the timerfd expires, 0 when disarmed
  readable,            \* the timerfd has expired and was not read
  lost,                \* timers erased without having been copied: leaked
  pc,                  \* where the loop is: "poll" or a place in HandleRead
  adding,              \* adding[th]: the timer in th's Insert
  earliest,            \* earliest[th]: what its test has shown so far
  arming,              \* arming[th]: argument of th's pending ResetTimerFd
  shared,              \* does the main thread add timers too? (sub loops)
  raced,               \* history: the timers whose Insert, by main, overlapped
                       \* a taking of expired timers (lower_bound to erase)
  steps                \* times the wall clock was set

inserting == <<adding, earliest>>
queue == <<timers_, end, active_timers_, rested, lost, due, interval_>>
timerfd == <<left, readable>>
vars == <<queue, timerfd, pc, inserting, arming, shared, raced, steps>>

Threads == {"loop", "main"}
Floor == MaxSteps      \* an expired timer stays expired or is this late
Added == {adding[th] : th \in Threads} \ {NoTimer}
Queued == ToSet(timers_) \cup ToSet(active_timers_) \cup ToSet(rested)
Live == Added \cup Queued \cup lost
Expired(t) == due[t] <= 0

Init ==
  /\ timers_ = <<>> /\ end = 0 /\ active_timers_ = <<>> /\ rested = <<>>
  /\ lost = {}
  /\ due = [t \in Timers |-> 0]
  /\ interval_ = [t \in Timers |-> 0]
  /\ left = 0 /\ readable = FALSE
  /\ pc = "poll"
  /\ adding = [th \in Threads |-> NoTimer]
  /\ earliest = [th \in Threads |-> "no"]
  /\ arming = [th \in Threads |-> NoTimer]
  /\ shared \in BOOLEAN /\ raced = {}
  /\ steps = 0

-----------------------------------------------------------------------------
(* Insert(timer), its emplace: a timer of d ticks takes its place in the   *)
(* order, equal expirations by address, and lies before the iterator of    *)
(* HandleRead or behind it.                                                *)
Insert(t, d) ==
  \E i \in 0 .. Len(timers_) :
    /\ \A j \in 1 .. i : due[timers_[j]] <= d
    /\ \A j \in i + 1 .. Len(timers_) : due[timers_[j]] >= d
    /\ timers_' = InsertAt(timers_, i + 1, t)
    /\ end' = IF pc \in {"copy", "erase"} /\ i <= end THEN end + 1 ELSE end

(* Thread th calls AddTimer: a new Timer, and timers_.empty() of Insert.   *)
AddTimer(th) ==
  \E t \in Timers \ Live, d \in 0 .. MaxDelay, i \in Intervals :
    /\ adding' = [adding EXCEPT ![th] = t]
    /\ earliest' = [earliest EXCEPT ![th] = IF timers_ = <<>> THEN "yes" ELSE "begin"]
    /\ due' = [due EXCEPT ![t] = d]
    /\ interval_' = [interval_ EXCEPT ![t] = i]

(* Mutant of FirstIsLater: only the first timer of all arms the timerfd.   *)
NeverLater(t) == {"no"}

(* timers_.begin()->first against the new expiration; of a set emptied     *)
(* since the call of empty(), what the memory of its end holds.            *)
FirstIsLater(t) ==
  IF timers_ = <<>> THEN {"yes", "no"}
                    ELSE {IF due[t] < due[Head(timers_)] THEN "yes" ELSE "no"}

CompareFirst(th) ==
  /\ adding[th] # NoTimer /\ earliest[th] = "begin"
  /\ \E e \in FirstIsLater(adding[th]) : earliest' = [earliest EXCEPT ![th] = e]
  /\ UNCHANGED <<queue, timerfd, pc, adding, arming, shared, raced, steps>>

(* The emplace of th's Insert; if the timer was the earliest at the test,  *)
(* ResetTimerFd(timer) is next on th.                                      *)
Emplace(th) ==
  /\ adding[th] # NoTimer /\ earliest[th] # "begin"
  /\ Insert(adding[th], due[adding[th]])
  /\ adding' = [adding EXCEPT ![th] = NoTimer]
  /\ earliest' = [earliest EXCEPT ![th] = "no"]
  /\ arming' = IF earliest[th] = "yes" THEN [arming EXCEPT ![th] = adding[th]] ELSE arming
  /\ raced' = IF th = "main" /\ pc \in {"copy", "erase"} THEN raced \cup {adding[th]}
                                                         ELSE raced
  /\ UNCHANGED <<active_timers_, rested, lost, due, interval_, timerfd, pc, shared, steps>>

(* Mutant of ResetTimerFd: no least delay, so that an expired timer turns  *)
(* the timerfd off.                                                        *)
ResetTimerFdNoLeast(t) ==
  /\ left' \in IF t \in Live
               THEN {IF due[t] < 0 THEN 0 ELSE due[t]} ELSE 1 .. MaxDelay
  /\ readable' = FALSE

(* timerfd_settime for a timer, no less than a tick ahead; the expiration  *)
(* not read so far is gone.  A deleted Timer yields what its memory holds. *)
ResetTimerFd(t) ==
  /\ left' \in IF t \in Live
               THEN {IF due[t] < 1 THEN 1 ELSE due[t]} ELSE 1 .. MaxDelay
  /\ readable' = FALSE

Arm(th) ==
  /\ arming[th] # NoTimer
  /\ ResetTimerFd(arming[th])
  /\ arming' = [arming EXCEPT ![th] = NoTimer]
  /\ UNCHANGED <<queue, pc, inserting, shared, raced, steps>>

Idle(th) == adding[th] = NoTimer /\ arming[th] = NoTimer
LoopAt(p) == pc = p /\ Idle("loop")

-----------------------------------------------------------------------------
(* A thread adds a timer: main in HandleConnection, the loop in a handler. *)
MainAdds ==
  /\ shared /\ Idle("main")
  /\ AddTimer("main")
  /\ UNCHANGED <<timers_, end, active_timers_, rested, lost, timerfd, pc, arming,
                 shared, raced, steps>>

HandlerAdds ==
  /\ LoopAt("poll")
  /\ AddTimer("loop")
  /\ UNCHANGED <<timers_, end, active_timers_, rested, lost, timerfd, pc, arming,
                 shared, raced, steps>>

(* epoll reports the timerfd.                                              *)
Poll ==
  /\ LoopAt("poll") /\ readable
  /\ pc' = "read"
  /\ UNCHANGED <<queue, timerfd, inserting, arming, shared, raced, steps>>

(* The read does not block: a timerfd armed again since Poll has nothing   *)
(* to read, which is reported on stderr.                                   *)
ReadTimerFd ==
  /\ LoopAt("read")
  /\ readable' = FALSE
  /\ pc' = "bound"
  /\ UNCHANGED <<queue, left, inserting, arming, shared, raced, steps>>

(* Mutant of Bounds: the expiry of the timerfd is taken for that of the    *)
(* first timer.                                                            *)
FirstOnly == {IF timers_ = <<>> THEN 0 ELSE 1}

(* timers_.lower_bound of the present: how many timers lie before it.      *)
Bounds == {n \in 0 .. Len(timers_) :
             /\ \A i \in 1 .. n : Expired(timers_[i])
             /\ \A i \in n + 1 .. Len(timers_) : ~Expired(timers_[i])}

LowerBound ==
  /\ LoopAt("bound")
  /\ end' \in Bounds
  /\ pc' = "copy"
  /\ UNCHANGED <<timers_, active_timers_, rested, lost, due, interval_, timerfd,
                 inserting, arming, shared, raced, steps>>

(* The expired timers are copied to active_timers_, which was cleared ...  *)
CopyExpired ==
  /\ LoopAt("copy")
  /\ active_timers_' = SubSeq(timers_, 1, end)
  /\ pc' = "erase"
  /\ UNCHANGED <<timers_, end, rested, lost, due, interval_, timerfd, inserting,
                 arming, shared, raced, steps>>

(* Mutant of EraseExpired: the erase is missing.                           *)
EraseNothing ==
  /\ LoopAt("erase")
  /\ end' = 0
  /\ pc' = "run"
  /\ UNCHANGED <<timers_, lost, active_timers_, rested, due, interval_, timerfd,
                 inserting, arming, shared, raced, steps>>

BeforeEnd == ToSet(SubSeq(timers_, 1, end))
Uncopied == BeforeEnd \ ToSet(active_timers_)

(* ... and what lies before the iterator now is erased.                    *)
EraseExpired ==
  /\ LoopAt("erase")
  /\ timers_' = SubSeq(timers_, end + 1, Len(timers_))
  /\ lost' = lost \cup Uncopied
  /\ end' = 0
  /\ raced' = (raced \ Uncopied) \cup ({adding["main"]} \ {NoTimer})
  /\ pc' = "run"
  /\ UNCHANGED <<active_timers_, rested, due, interval_, timerfd, inserting, arming,
                 shared, steps>>

(* A callback runs, and may call AddTimer (ActiveCloseConn does).          *)
RunTimer ==
  /\ LoopAt("run") /\ active_timers_ # <<>>
  /\ active_timers_' = Tail(active_timers_)
  /\ rested' = Append(rested, Head(active_timers_))
  /\ \/ AddTimer("loop")
     \/ UNCHANGED <<due, interval_, inserting>>
  /\ UNCHANGED <<timers_, end, lost, timerfd, pc, arming, shared, raced, steps>>

RunEnds ==
  /\ LoopAt("run") /\ active_timers_ = <<>>
  /\ pc' = "reset"
  /\ UNCHANGED <<queue, timerfd, inserting, arming, shared, raced, steps>>

(* ResetTimers, one timer: a repeating one is started again (what the test *)
(* of its Insert shows is not used), any other deleted.                    *)
ResetTimer ==
  /\ LoopAt("reset") /\ rested # <<>>
  /\ LET t == Head(rested)
     IN  IF interval_[t] > 0
         THEN /\ due' = [due EXCEPT ![t] = interval_[t]]
              /\ Insert(t, interval_[t])
         ELSE /\ due' = [due EXCEPT ![t] = 0]
              /\ UNCHANGED <<timers_, end>>
  /\ rested' = Tail(rested)
  /\ raced' = raced \ {Head(rested)}
  /\ UNCHANGED <<active_timers_, lost, interval_, timerfd, pc, inserting, arming, shared,
                 steps>>

(* Mutant of ResetLast: the timers left behind are forgotten.              *)
ResetLastNoArm ==
  /\ LoopAt("reset") /\ rested = <<>>
  /\ pc' = "poll"
  /\ UNCHANGED <<queue, timerfd, inserting, arming, shared, raced, steps>>

(* ResetTimers, its end: ResetTimerFd of the first timer is next.          *)
ResetLast ==
  /\ LoopAt("reset") /\ rested = <<>>
  /\ arming' = IF timers_ = <<>> THEN arming ELSE [arming EXCEPT !["loop"] = Head(timers_)]
  /\ pc' = "poll"
  /\ UNCHANGED <<queue, timerfd, inserting, shared, raced, steps>>

HandleRead == \/ ReadTimerFd \/ LowerBound \/ CopyExpired \/ EraseExpired
              \/ RunTimer \/ RunEnds \/ ResetTimer \/ ResetLast

-----------------------------------------------------------------------------
(* Both clocks advance by a tick; the timerfd may expire.                  *)
WallClock(delta) ==
  due' = [t \in Timers |->
            IF t \notin Live THEN due[t]
            ELSE IF due[t] + delta < -Floor THEN -Floor ELSE due[t] + delta]

Tick ==
  /\ WallClock(-1)
  /\ left' = IF left = 0 THEN 0 ELSE left - 1
  /\ readable' = (readable \/ left = 1)
  /\ UNCHANGED <<timers_, end, active_timers_, rested, lost, interval_, pc, inserting,
                 arming, shared, raced, steps>>

(* The wall clock alone is set forward or back.                            *)
SetClock ==
  /\ steps < MaxSteps
  /\ steps' = steps + 1
  /\ \E delta \in {-1, 1} : WallClock(delta)
  /\ UNCHANGED <<timers_, end, active_timers_, rested, lost, interval_, timerfd, pc,
                 inserting, arming, shared, raced>>

LoopStep == HandlerAdds \/ Poll \/ HandleRead
Next == \/ LoopStep \/ MainAdds \/ Tick \/ SetClock
        \/ \E th \in Threads : CompareFirst(th) \/ Emplace(th) \/ Arm(th)

(* Threads that can go on do, and time passes; nobody has to add timers.   *)
Fairness ==
  /\ WF_vars(Poll) /\ WF_vars(HandleRead)
  /\ \A th \in Threads : WF_vars(CompareFirst(th) \/ Emplace(th) \/ Arm(th))
  /\ WF_vars(Tick)

Spec == Init /\ [][Next]_vars /\ Fairness

-----------------------------------------------------------------------------
(* Types; a timer is in one place only (in timers_ and active_timers_ both *)
(* from the copy to the erase), and timers_ is ordered by expiration.      *)
TypeOK ==
  /\ timers_ \in Seq(Timers) /\ active_timers_ \in Seq(Timers) /\ rested \in Seq(Timers)
  /\ IsInjective(timers_) /\ IsInjective(active_timers_ \o rested)
  /\ \A i, j \in 1 .. Len(timers_) : i < j => due[timers_[i]] <= due[timers_[j]]
  /\ end \in 0 .. Len(timers_)
  /\ IF pc = "erase" THEN ToSet(active_timers_) \subseteq BeforeEnd
                     ELSE ToSet(timers_) \cap (ToSet(active_timers_) \cup ToSet(rested)) = {}
  /\ lost \subseteq Timers /\ Added \cap lost = {} /\ (Added \cup lost) \cap Queued = {}
  /\ adding["loop"] # adding["main"] \/ adding["main"] = NoTimer
  /\ due \in [Timers -> -Floor .. MaxDelay + MaxSteps]
  /\ interval_ \in [Timers -> Intervals \cup {0}]
  /\ left \in 0 .. MaxDelay + MaxSteps /\ readable \in BOOLEAN
  /\ pc \in {"poll", "read", "bound", "copy", "erase", "run", "reset"}
  /\ adding \in [Threads -> Timers \cup {NoTimer}]
  /\ earliest \in [Threads -> {"begin", "yes", "no"}]
  /\ arming \in [Threads -> Timers \cup {NoTimer}]
  /\ shared \in BOOLEAN /\ raced \subseteq Live \ lost
  /\ steps \in 0 .. MaxSteps

(* While a timer waits in timers_, the timerfd is armed or readable, or    *)
(* some thread is on its way to arm it.  The exception is a timer added by *)
(* main whose Insert overlapped the taking of expired timers: its test may *)
(* be stale at its emplace (TimerQueue.cpp:103, :107), and then nothing is *)
(* armed until another timer is added that is earlier.                     *)
WakeUpDue ==
  \/ left > 0 \/ readable
  \/ pc # "poll"
  \/ \E th \in Threads : arming[th] # NoTimer
PendingIsArmed == raced = {} /\ timers_ # <<>> => WakeUpDue

(* Where only the loop's own thread adds timers and the wall clock is not  *)
(* set, the timerfd expires no later than the first timer (the comments at *)
(* TimerQueue.cpp:96 and :115).  With a second thread the later of two     *)
(* ResetTimerFd calls may be for the later timer, which then runs late.    *)
ArmedForEarliest ==
  /\ ~shared /\ steps = 0
  /\ timers_ # <<>>
  /\ LoopAt("poll")
  => readable \/ left = 1 \/ left <= due[Head(timers_)]

(* The queue implements Timers: callbacks run after their time, once per   *)
(* period, and every timer does run.  A timer whose Insert overlapped a    *)
(* taking may run early (emplaced between lower_bound and the copy) or be  *)
(* erased without having run (between the copy and the erase), and until   *)
(* it has run, none need run: the timerfd may not be armed.                *)
Taken == IF pc = "copy" THEN BeforeEnd ELSE ToSet(active_timers_)
place == [t \in Timers |-> CASE t \in Taken -> "expired"
                             [] t \in (Added \cup ToSet(timers_)) \ Taken -> "waiting"
                             [] t \in ToSet(rested) -> "rested"
                             [] t \in lost -> "forgotten"
                             [] OTHER -> "free"]
T == INSTANCE Timers
ImplementsTimers == T!Spec
EveryTimerRuns ==
  \A t \in Timers : place[t] = "waiting" ~> place[t] = "rested" \/ raced # {}
=============================================================================
