---------------------------- MODULE MCEventLoop ----------------------------
(* The event loops for TLC, whose configuration gives model values to the  *)
(* constants: three loops, so that two threads can wake the same one, three *)
(* functors, one channel besides the wake-up channel.                      *)
EXTENDS EventLoop
=============================================================================
