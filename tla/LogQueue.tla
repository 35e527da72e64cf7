------------------------------ MODULE LogQueue ------------------------------
(***************************************************************************)
(* What the asynchronous logger promises to the threads that log, without  *)
(* buffers, threads or time: the lines it takes reach the file in the      *)
(* order they were taken, each once, and while the logger is running they  *)
(* do reach it.  It may refuse a line at once, never lose one later, and   *)
(* promises nothing of lines still waiting when it is stopped.             *)
(***************************************************************************)
EXTENDS Naturals, Sequences

CONSTANT Lines        \* the lines that may be logged

VARIABLES running,    \* between Start and Stop
          pending,    \* lines taken and not written yet
          written     \* lines in the file

vars == <<running, pending, written>>

Init == running = FALSE /\ pending = <<>> /\ written = <<>>

Take(line) == /\ pending' = Append(pending, line)
              /\ UNCHANGED <<running, written>>

WriteOut == /\ pending # <<>>
            /\ written' = written \o pending
            /\ pending' = <<>>
            /\ UNCHANGED running

Switch == running' = ~running /\ UNCHANGED <<pending, written>>

Next == (\E line \in Lines : Take(line)) \/ WriteOut \/ Switch

Protocol == Init /\ [][Next]_vars

Spec == Protocol /\ WF_vars(running /\ WriteOut)
=============================================================================
