---------------------------- MODULE AsyncLogging ----------------------------
(***************************************************************************)
(* The asynchronous logger of src/log/AsyncLogging.cpp: any thread appends *)
(* lines to current_, full buffers go to buffers_, and one back-end thread *)
(* writes them to the file and hands the emptied buffers back as spares.   *)
(* Append and the body of the back end's loop run under mutex_, so each is *)
(* one step; running_ is written by Stop and read by the loop outside it.  *)
(*                                                                         *)
(* A line is its number and its length, a buffer the lines in it; what the *)
(* log files hold together is "written".  Both kinds of buffer have        *)
(* FixedBufferSize bytes, so a line made in a LogStream is shorter.        *)
(***************************************************************************)
EXTENDS Naturals, SequencesExt

CONSTANTS FixedBufferSize,
          Lengths,      \* of the lines, in bytes
          MaxLines,     \* bound: lines ever logged
          NoBuffer      \* an empty unique_ptr

ASSUME SizeAssumption == FixedBufferSize \in Nat \ {0}
ASSUME LengthsAssumption == Lengths \subseteq 1 .. FixedBufferSize - 1
ASSUME MaxLinesAssumption == MaxLines \in Nat

Lines == (1 .. MaxLines) \X Lengths
Bytes(line) == line[2]

VARIABLES
  running_,     \* AsyncLogging::running_
  latch_,       \* count of the Latch that Start waits on
  owner,        \* where the thread that calls Start and Stop is
  pc,           \* where the back-end thread is
  current_, next_, buffers_,
  new_current, new_next,  \* spare buffers of ThreadFunc
  lines,        \* history: number of lines logged
  written       \* what the log files hold

frontVars == <<current_, next_, buffers_>>
vars == <<running_, latch_, owner, pc, frontVars, new_current, new_next,
          lines, written>>

EmptyBuffer == <<>>

Init ==
  /\ running_ = FALSE /\ latch_ = 1
  /\ owner = "new" /\ pc = "none"
  /\ current_ = EmptyBuffer /\ next_ = EmptyBuffer /\ buffers_ = <<>>
  /\ new_current = NoBuffer /\ new_next = NoBuffer
  /\ lines = 0
  /\ written = <<>>

-----------------------------------------------------------------------------
(* FixedBuffer.                                                            *)

Available(buffer) ==
  FixedBufferSize - FoldSeq(LAMBDA line, n : n + Bytes(line), 0, buffer)

(* FixedBuffer::Append leaves out what does not fit with a byte to spare.  *)
Added(buffer, line) ==
  IF Available(buffer) > Bytes(line) THEN Append(buffer, line) ELSE buffer

(* Mutant of Bzero: the buffer keeps what it held.                         *)
BzeroKeeps(buffer) == buffer

Bzero(buffer) == EmptyBuffer

-----------------------------------------------------------------------------
(* Threads that log.                                                       *)

(* Mutant of AppendLine: without a spare buffer no new one is made.        *)
AppendLineNoNew(line) ==
  IF Available(current_) >= Bytes(line)
  THEN current_' = Added(current_, line) /\ UNCHANGED <<next_, buffers_>>
  ELSE /\ buffers_' = Append(buffers_, current_)
       /\ current_' = IF next_ # NoBuffer THEN Added(next_, line) ELSE NoBuffer
       /\ next_' = NoBuffer

(* AsyncLogging::Append.  Its notify_one ends no wait: see WaitTimesOut.   *)
AppendLine(line) ==
  \/ /\ Available(current_) >= Bytes(line)
     /\ current_' = Added(current_, line)
     /\ UNCHANGED <<next_, buffers_>>
  \/ /\ Available(current_) < Bytes(line)
     /\ buffers_' = Append(buffers_, current_)
     /\ current_' = Added(IF next_ # NoBuffer THEN next_ ELSE EmptyBuffer, line)
     /\ next_' = NoBuffer

Log(length) ==
  /\ lines < MaxLines
  /\ lines' = lines + 1
  /\ AppendLine(<<lines + 1, length>>)
  /\ UNCHANGED <<running_, latch_, owner, pc, new_current, new_next, written>>

-----------------------------------------------------------------------------
(* The owner: Start waits for the latch, Stop joins the thread.            *)

Start ==
  /\ owner = "new"
  /\ running_' = TRUE
  /\ pc' = "created"
  /\ owner' = "starting"
  /\ UNCHANGED <<latch_, frontVars, new_current, new_next, lines, written>>

StartReturns ==
  /\ owner = "starting" /\ latch_ = 0
  /\ owner' = "started"
  /\ UNCHANGED <<running_, latch_, pc, frontVars, new_current, new_next, lines,
                 written>>

(* Mutant of Stop: joins the thread before it resets running_.             *)
StopJoinsFirst ==
  /\ owner = "started"
  /\ owner' = "stopping"
  /\ UNCHANGED <<running_, latch_, pc, frontVars, new_current, new_next, lines,
                 written>>

Stop ==
  /\ owner = "started"
  /\ running_' = FALSE
  /\ owner' = "stopping"
  /\ UNCHANGED <<latch_, pc, frontVars, new_current, new_next, lines, written>>

StopReturns ==
  /\ owner = "stopping" /\ pc = "done"
  /\ owner' = "stopped"
  /\ UNCHANGED <<running_, latch_, pc, frontVars, new_current, new_next, lines,
                 written>>

-----------------------------------------------------------------------------
(* The back-end thread, ThreadFunc.                                        *)

ThreadStarts ==
  /\ pc = "created"
  /\ new_current' = EmptyBuffer /\ new_next' = EmptyBuffer
  /\ latch_' = latch_ - 1
  /\ pc' = "check"
  /\ UNCHANGED <<running_, owner, frontVars, lines, written>>

(* while(running_), without the mutex.                                     *)
CheckRunning ==
  /\ pc = "check"
  /\ pc' = IF running_ THEN "lock" ELSE "done"
  /\ UNCHANGED <<running_, latch_, owner, frontVars, new_current, new_next,
                 lines, written>>

(* The body after the wait: swaps the buffers out, writes them, and keeps  *)
(* at most two of them as the next spares.                                 *)
WriteBuffers ==
  LET active   == Append(buffers_, current_)
      recycled == SubSeq(active, 1, IF Len(active) > 2 THEN 2 ELSE Len(active))
  IN  /\ written' = written \o FlattenSeq(active)
      /\ buffers_' = <<>>
      /\ current_' = new_current
      /\ new_current' = Bzero(Last(recycled))
      /\ IF next_ = NoBuffer
         THEN /\ next_' = new_next
              /\ new_next' = IF Len(recycled) > 1 THEN Bzero(recycled[1])
                             ELSE EmptyBuffer
         ELSE UNCHANGED <<next_, new_next>>
      /\ pc' = "check"
      /\ UNCHANGED <<running_, latch_, owner, lines>>

(* With the mutex taken: no full buffer is there yet, so wait ...          *)
Wait ==
  /\ pc = "lock" /\ buffers_ = <<>>
  /\ pc' = "wait"
  /\ UNCHANGED <<running_, latch_, owner, frontVars, new_current, new_next,
                 lines, written>>

(* Mutant of WaitTimesOut: a stopped logger leaves without writing.        *)
WaitLeavesWhenStopped ==
  /\ pc = "wait"
  /\ \/ running_ /\ WriteBuffers
     \/ /\ ~running_ /\ pc' = "done"
        /\ UNCHANGED <<running_, latch_, owner, frontVars, new_current, new_next,
                       lines, written>>

(* ... until the timeout: the predicate of wait_until is always false, so  *)
(* the notifications of Append and Stop do not end the wait.               *)
WaitTimesOut == pc = "wait" /\ WriteBuffers

(* ... or write at once.                                                   *)
WriteFull == pc = "lock" /\ buffers_ # <<>> /\ WriteBuffers

BackEnd == ThreadStarts \/ CheckRunning \/ Wait \/ WaitTimesOut \/ WriteFull

Next ==
  \/ \E length \in Lengths : Log(length)
  \/ Start \/ StartReturns \/ Stop \/ StopReturns
  \/ BackEnd

(* The threads that were started are scheduled and the timeout elapses;    *)
(* nobody has to log, start or stop.                                       *)
Spec == Init /\ [][Next]_vars /\ WF_vars(BackEnd)
          /\ WF_vars(StartReturns \/ StopReturns)

-----------------------------------------------------------------------------
Buffers == Seq(Lines)

(* Types; Append and the back end dereference current_, and the back end   *)
(* new_current, without a test, so neither is ever NoBuffer when they do.  *)
TypeOK ==
  /\ running_ \in BOOLEAN /\ latch_ \in 0 .. 1
  /\ owner \in {"new", "starting", "started", "stopping", "stopped"}
  /\ pc \in {"none", "created", "check", "lock", "wait", "done"}
  /\ current_ \in Buffers
  /\ next_ \in Buffers \cup {NoBuffer}
  /\ buffers_ \in Seq(Buffers)
  /\ pc \in {"none", "created"} \/ (new_current \in Buffers /\ new_next \in Buffers)
  /\ lines \in 0 .. MaxLines
  /\ written \in Seq(Lines)

(* Lines in memory, oldest first.                                          *)
InMemory == FlattenSeq(buffers_) \o current_

LQ == INSTANCE LogQueue WITH running <- running_, pending <- InMemory

(* The buffers that are swapped, recycled and zeroed form one queue: no    *)
(* line the logger took is lost, repeated or overtaken, and while it runs  *)
(* every one reaches the file.                                             *)
ImplementsLogQueue == LQ!Spec

(* Even when Stop comes first: once the back end has seen running_ set,    *)
(* the lines taken before its wait is over are in the file afterwards.     *)
LastPassWritesAll ==
  \A n \in 1 .. MaxLines :
    pc \in {"lock", "wait"} /\ Len(written \o InMemory) >= n ~> Len(written) >= n

(* Stop returns: the back end sees running_ reset within one pass, and the *)
(* join of AsyncLogging.cpp:38-41 ends.                                    *)
StopTerminates == owner = "stopping" ~> owner = "stopped"

(* AsyncLogging.cpp:54 calls the other branch the one where current_ has   *)
(* too little room, and :64 says the data is written: a line Append was    *)
(* given is in a buffer or in the file.                                    *)
EveryLineIsKept == Len(written \o InMemory) = lines
=============================================================================
