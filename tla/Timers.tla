------------------------------- MODULE Timers -------------------------------
(***************************************************************************)
(* What RunAt, RunAfter and RunEvery of src/tcp/EventLoop.cpp promise: the *)
(* callback of a timer runs when its time has come and not before, once,   *)
(* or, for a repeating timer, once per period.  A timer that was added by  *)
(* a second thread, in a race with the taking of those whose time has      *)
(* come, may run early or never, and delays the others.                    *)
(***************************************************************************)
EXTENDS Integers

CONSTANTS Timers,     \* Timer objects; an object is used again once deleted
          MaxDelay,   \* bound of delays, in ticks
          Intervals,  \* intervals, in ticks; 0 does not repeat
          Floor       \* lateness beyond this many ticks is not counted

VARIABLES place,      \* "free", "waiting" for its time, "expired", "rested"
                      \* after its run, or "forgotten"
          due,        \* ticks of the wall clock until expiration_
          interval_,  \* period, 0 for a timer that runs once
          raced       \* the timers that were added in such a race

vars == <<place, due, interval_, raced>>

Later(d) == IF d = -Floor THEN d ELSE d - 1

Init ==
  /\ place = [t \in Timers |-> "free"]
  /\ due = [t \in Timers |-> 0]
  /\ interval_ = [t \in Timers |-> 0]
  /\ raced = {}

Add(t) ==
  /\ place[t] = "free"
  /\ place' = [place EXCEPT ![t] = "waiting"]
  /\ \E d \in 0 .. MaxDelay, i \in Intervals :
       due' = [due EXCEPT ![t] = d] /\ interval_' = [interval_ EXCEPT ![t] = i]
  /\ UNCHANGED raced

(* The time of some timers has come: noticed together, at one reading of   *)
(* the clock.                                                              *)
Expire(S) ==
  /\ \A t \in S : place[t] = "waiting" /\ due[t] <= 0
  /\ place' = [t \in Timers |-> IF t \in S THEN "expired" ELSE place[t]]
  /\ UNCHANGED <<due, interval_, raced>>

(* The callback of an expired timer runs, and may add a timer of its own.  *)
Fire(t) ==
  /\ place[t] = "expired"
  /\ place' = [place EXCEPT ![t] = "rested"]
  /\ UNCHANGED <<due, interval_, raced>>

FireAndAdd(t, u) ==
  /\ place[t] = "expired" /\ place[u] = "free"
  /\ place' = [place EXCEPT ![t] = "rested", ![u] = "waiting"]
  /\ \E d \in 0 .. MaxDelay, i \in Intervals :
       due' = [due EXCEPT ![u] = d] /\ interval_' = [interval_ EXCEPT ![u] = i]
  /\ UNCHANGED raced

(* After its run a timer starts its next period or is deleted.             *)
EndRun(t) ==
  /\ place[t] = "rested"
  /\ IF interval_[t] > 0
     THEN /\ place' = [place EXCEPT ![t] = "waiting"]
          /\ due' = [due EXCEPT ![t] = interval_[t]]
     ELSE /\ place' = [place EXCEPT ![t] = "free"]
          /\ due' = [due EXCEPT ![t] = 0]
  /\ raced' = raced \ {t}
  /\ UNCHANGED interval_

(* Of the timers added in a race some are forgotten; others have joined.   *)
Race(R, S) ==
  /\ \A t \in R : place[t] = "waiting"
  /\ \A t \in S : t \in raced /\ place[t] = "waiting"
  /\ place' = [t \in Timers |-> IF t \in S THEN "forgotten" ELSE place[t]]
  /\ raced' = (raced \ S) \cup R
  /\ UNCHANGED <<due, interval_>>

(* One that is added in a race runs with those whose time has come.        *)
ExpireEarly(t) ==
  /\ place[t] = "waiting"
  /\ place' = [place EXCEPT ![t] = "expired"]
  /\ raced' = raced \cup {t}
  /\ UNCHANGED <<due, interval_>>

Live == {t \in Timers : place[t] # "free"}

(* The wall clock advances, or is set back.                                *)
ClockAdvances ==
  /\ due' = [t \in Timers |-> IF t \in Live THEN Later(due[t]) ELSE due[t]]
  /\ UNCHANGED <<place, interval_, raced>>

ClockSetBack ==
  /\ due' = [t \in Timers |-> IF t \in Live THEN due[t] + 1 ELSE due[t]]
  /\ UNCHANGED <<place, interval_, raced>>

Next ==
  \/ \E t \in Timers : Add(t) \/ Fire(t) \/ EndRun(t) \/ ExpireEarly(t)
  \/ \E S \in SUBSET Timers : Expire(S)
  \/ \E t, u \in Timers : FireAndAdd(t, u)
  \/ \E R, S \in SUBSET Timers : Race(R, S)
  \/ ClockAdvances \/ ClockSetBack

(* A timer whose time has come expires, unless one that raced is in the    *)
(* way; an expired one runs, and ends its run.                             *)
Expires(t) == raced = {} /\ \E S \in SUBSET Timers : t \in S /\ Expire(S)
Fires(t) == Fire(t) \/ \E u \in Timers : FireAndAdd(t, u)

Protocol == Init /\ [][Next]_vars

Spec ==
  /\ Protocol
  /\ \A t \in Timers : WF_vars(Expires(t)) /\ WF_vars(Fires(t)) /\ WF_vars(EndRun(t))
=============================================================================
