---------------------------- MODULE MCTimerQueue ----------------------------
(* The timer queue for TLC, with two timers: one is in HandleRead's hands  *)
(* while the other waits, or is added by either thread.                    *)
EXTENDS TimerQueue
=============================================================================
