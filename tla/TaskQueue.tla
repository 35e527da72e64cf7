----------------------------- MODULE TaskQueue -----------------------------
(***************************************************************************)
(* What the to_do_list_ of an EventLoop promises to its callers, without   *)
(* the mutex, the swap or the eventfd of the code: every loop owns a FIFO  *)
(* queue of functors, a functor that is handed over runs exactly once, on  *)
(* the thread of the loop it was handed to, in the order of the hand-overs *)
(* to that loop, and it does run.  EventLoop.h:25-27 states the purpose:   *)
(* other threads give their work to the loop, which runs it by itself.     *)
(***************************************************************************)
EXTENDS Naturals, Sequences

CONSTANTS Loops,      \* the event loops, one thread each
          Functors    \* one element per call of QueueOneFunc or RunOneFunc

VARIABLES pending,    \* pending[l]: handed over to l, not started yet
          submitted,  \* every functor handed over so far
          ran         \* every functor run so far

vars == <<pending, submitted, ran>>

Init == /\ pending = [l \in Loops |-> <<>>]
        /\ submitted = {}
        /\ ran = {}

(* The queues after one functor, or none, is handed over from queues p.    *)
HandOver(p) ==
  \/ pending' = p /\ submitted' = submitted
  \/ \E l \in Loops, f \in Functors \ submitted :
       /\ pending' = [p EXCEPT ![l] = Append(@, f)]
       /\ submitted' = submitted \cup {f}

(* A callback of some loop hands a functor over.                           *)
Submit == HandOver(pending) /\ UNCHANGED ran

(* RunOneFunc by the thread of the loop itself: the functor runs at once.  *)
RunInPlace ==
  \E f \in Functors \ submitted :
    /\ submitted' = submitted \cup {f}
    /\ ran' = ran \cup {f}
    /\ UNCHANGED pending

(* The oldest functor of l runs; it may itself hand one over, or run one   *)
(* in place.                                                               *)
Execute(l) ==
  /\ pending[l] # <<>>
  /\ LET rest == [pending EXCEPT ![l] = Tail(@)]
         done == ran \cup {Head(pending[l])}
     IN  \/ HandOver(rest) /\ ran' = done
         \/ \E f \in Functors \ submitted :
              /\ pending' = rest
              /\ submitted' = submitted \cup {f}
              /\ ran' = done \cup {f}

Next == Submit \/ RunInPlace \/ \E l \in Loops : Execute(l)

Protocol == Init /\ [][Next]_vars
Spec == Protocol /\ \A l \in Loops : WF_vars(Execute(l))

(* Types: only functors that were handed over wait or have run.            *)
TypeOK ==
  /\ submitted \in SUBSET Functors
  /\ pending \in [Loops -> Seq(submitted)]
  /\ ran \in SUBSET submitted

(* A functor waits in one place of one queue only, and one that waits has  *)
(* not run: no functor can run twice.                                      *)
RunsOnce ==
  \A k, l \in Loops : \A i \in DOMAIN pending[k], j \in DOMAIN pending[l] :
    /\ pending[k][i] \in submitted \ ran
    /\ pending[k][i] = pending[l][j] => k = l /\ i = j
=============================================================================
