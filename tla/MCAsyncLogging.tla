--------------------------- MODULE MCAsyncLogging ---------------------------
(* The logger for TLC: buffers of four bytes and lines of one to three, so *)
(* that a buffer fills up, with and without a byte to spare, after two to  *)
(* four lines, and a pass of the back end finds none, one or more of them. *)
EXTENDS AsyncLogging
=============================================================================
