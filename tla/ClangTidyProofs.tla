-------------------------- MODULE ClangTidyProofs --------------------------
(***************************************************************************)
(* Theorems about ClangTidy, for any finite set of workers and any number  *)
(* of files.  The argument is the inductive invariant IInv:                *)
(* the queue holds the last files put, so that the files taken are an      *)
(* interval; every taken file is in the hands of exactly one worker or     *)
(* done with; and unfinished_tasks counts the queue and the busy workers,  *)
(* so that join returns only when every file is done with.                 *)
(***************************************************************************)
EXTENDS ClangTidy, SequenceTheorems, FiniteSetTheorems, TLAPS

-----------------------------------------------------------------------------
(* The inductive invariant behind TypeOK and ZeroMeansAllClean.             *)

\* The files the workers have taken out of the queue so far: all that were
\* put except the last Len(task_queue).
Taken == 1 .. next - 1 - Len(task_queue)

Busy == {w \in Workers : pc[w] # "get"}

\* The queue holds the last files put, in the order they were put.
QueueIsRecent ==
  /\ Len(task_queue) < next
  /\ \A i \in 1 .. Len(task_queue) :
       task_queue[i] = next - 1 - Len(task_queue) + i
  /\ \A f \in 1 .. next - 1 : kind[f] # "foreign"

\* A busy worker, a dead one included, holds a taken file of its own, and
\* has run clang-tidy on it once it is past the check.
JobsAreOwn ==
  /\ \A w \in Workers : IF w \in Busy THEN job[w] \in Taken ELSE job[w] = NoFile
  /\ \A w \in Busy, v \in Busy : job[w] = job[v] => w = v
  /\ \A w \in Workers : pc[w] \in {"print", "dead"} => job[w] \in checked

\* unfinished_tasks counts the files in the queue and in the workers' hands.
CountIsExact ==
  /\ unfinished = Len(task_queue) + Cardinality(Busy)
  /\ unfinished < next

\* A file that left the queue is in a worker's hands, or it was skipped, or
\* clang-tidy has been run on it and its output could be decoded.
TakenAreHandled ==
  \A f \in Taken : \/ \E w \in Workers : job[w] = f
                   \/ kind[f] = "skipped"
                   \/ f \in checked /\ kind[f] # "garbled"

FailuresAreKept == \A f \in checked : kind[f] = "failing" => f \in failed_files

\* What main relies on behind the fill loop, and behind join.
PhasesAgree ==
  /\ main \in {"join", "export", "fix", "exit"} => next = NumFiles + 1
  /\ main \in {"export", "fix", "exit"} => unfinished = 0
  /\ main \in {"export", "fix", "exit"} /\ return_code = 0 => failed_files = {}
  /\ main = "exited" /\ return_code = 0 =>
       next = NumFiles + 1 /\ unfinished = 0 /\ failed_files = {}

IInv == /\ TypeOK
        /\ QueueIsRecent
        /\ JobsAreOwn
        /\ CountIsExact
        /\ TakenAreHandled
        /\ FailuresAreKept
        /\ PhasesAgree

-----------------------------------------------------------------------------
(* What a FIFO queue of consecutive numbers is after put and after get.    *)
LEMMA PutIsRecent ==
  ASSUME NEW q \in Seq(Files), NEW n \in Files,
         \A i \in 1 .. Len(q) : q[i] = n - 1 - Len(q) + i
  PROVE  /\ Append(q, n) \in Seq(Files)
         /\ Len(Append(q, n)) = Len(q) + 1
         /\ \A i \in 1 .. Len(q) + 1 :
              Append(q, n)[i] = n - 1 - Len(q) + i
BY AppendProperties DEF Files

LEMMA GetIsRecent ==
  ASSUME NEW q \in Seq(Files), q # <<>>, NEW n \in Nat,
         \A i \in 1 .. Len(q) : q[i] = n - 1 - Len(q) + i
  PROVE  /\ Len(q) \in Nat /\ Len(q) >= 1
         /\ Head(q) \in Files /\ Head(q) = n - Len(q)
         /\ Tail(q) \in Seq(Files) /\ Len(Tail(q)) = Len(q) - 1
         /\ \A i \in 1 .. Len(q) - 1 : Tail(q)[i] = n - Len(q) + i
<1>1. /\ Len(q) \in Nat /\ Len(q) >= 1 /\ Head(q) = q[1]
      /\ Tail(q) \in Seq(Files) /\ Len(Tail(q)) = Len(q) - 1
      /\ \A i \in 1 .. Len(q) - 1 : Tail(q)[i] = q[i + 1]
  BY HeadTailProperties
<1>2. \A i \in 1 .. Len(q) - 1 : q[i + 1] = n - Len(q) + i
  BY <1>1
<1>3. Head(q) \in Files
  BY HeadTailProperties
<1> QED
  BY <1>1, <1>2, <1>3

(* The number of busy workers is a number, and one more or one less when a *)
(* worker takes a file or is done with it.                                 *)
LEMMA BusyIsFinite == IsFiniteSet(Busy) /\ Cardinality(Busy) \in Nat
BY WorkersAssumption, FS_Subset, FS_CardinalityType DEF Busy

LEMMA BusyGrows ==
  ASSUME NEW w \in Workers, TypeOK, pc[w] = "get",
         NEW p, p # "get", pc' = [pc EXCEPT ![w] = p]
  PROVE  Busy' = Busy \cup {w} /\ Cardinality(Busy') = Cardinality(Busy) + 1
<1>1. Busy' = Busy \cup {w} /\ w \notin Busy
  BY DEF Busy, TypeOK
<1> QED
  BY <1>1, BusyIsFinite, FS_AddElement

LEMMA BusyShrinks ==
  ASSUME NEW w \in Workers, TypeOK, pc[w] # "get",
         pc' = [pc EXCEPT ![w] = "get"]
  PROVE  Busy' = Busy \ {w} /\ Cardinality(Busy') = Cardinality(Busy) - 1
<1>1. Busy' = Busy \ {w} /\ w \in Busy
  BY DEF Busy, TypeOK
<1> QED
  BY <1>1, BusyIsFinite, FS_RemoveElement

LEMMA BusyStays ==
  ASSUME NEW w \in Workers, TypeOK, pc[w] # "get",
         NEW p, p # "get", pc' = [pc EXCEPT ![w] = p]
  PROVE  Busy' = Busy
BY DEF Busy, TypeOK

LEMMA InitIInv == Init => IInv
<1> SUFFICES ASSUME Init PROVE IInv
  OBVIOUS
<1>1. Busy = {} /\ Cardinality(Busy) = 0
  BY FS_EmptySet DEF Init, Busy
<1>2. TypeOK
  BY NumFilesAssumption, WorkersAssumption, FS_CardinalityType
     DEF Init, TypeOK, MaxTask, Files, Over
<1>3. QueueIsRecent /\ JobsAreOwn /\ CountIsExact
  BY <1>1 DEF Init, QueueIsRecent, JobsAreOwn, CountIsExact, Kinds
<1>4. TakenAreHandled /\ FailuresAreKept /\ PhasesAgree
  BY DEF Init, TakenAreHandled, Taken, FailuresAreKept, PhasesAgree
<1> QED
  BY <1>2, <1>3, <1>4 DEF IInv

(* The arithmetic of the invariant: what the counts are.                   *)
LEMMA Numbers ==
  ASSUME IInv
  PROVE  /\ NumFiles \in Nat /\ MaxTask \in Nat
         /\ next \in Nat /\ next >= 1 /\ next <= NumFiles + 1
         /\ Len(task_queue) \in Nat /\ unfinished \in Nat
         /\ Cardinality(Busy) \in Nat
         /\ Taken \subseteq Files
BY NumFilesAssumption, WorkersAssumption, FS_CardinalityType, BusyIsFinite
   DEF IInv, TypeOK, MaxTask, QueueIsRecent, Taken, Files

(* The part of the invariant about the files and the workers holds when    *)
(* neither moves, whatever main does.                                      *)
LEMMA WorkersRest ==
  ASSUME IInv,
         UNCHANGED <<kind, next, task_queue, unfinished, pc, job,
                     failed_files, checked>>
  PROVE  /\ QueueIsRecent' /\ JobsAreOwn' /\ CountIsExact'
         /\ TakenAreHandled' /\ FailuresAreKept'
<1>1. Busy' = Busy /\ Taken' = Taken
  BY DEF Busy, Taken
<1> QED
  BY <1>1 DEF IInv, QueueIsRecent, JobsAreOwn, CountIsExact, TakenAreHandled,
              FailuresAreKept

LEMMA PutFileKeepsIInv == ASSUME IInv, PutFile PROVE IInv'
<1> USE DEF IInv
<1>1. /\ next \in Files /\ task_queue \in Seq(Files)
      /\ task_queue' = Append(task_queue, next) /\ next' = next + 1
      /\ kind[next] # "foreign"
  BY Numbers DEF PutFile, TypeOK, Files
<1>2. /\ task_queue' \in Seq(Files) /\ Len(task_queue') = Len(task_queue) + 1
      /\ \A i \in 1 .. Len(task_queue) + 1 :
           task_queue'[i] = next - 1 - Len(task_queue) + i
  BY <1>1, PutIsRecent DEF QueueIsRecent
<1>3. Busy' = Busy /\ Taken' = Taken
  BY <1>1, <1>2, Numbers, SMTT(30) DEF PutFile, Busy, Taken
<1>4. TypeOK'
  BY <1>1, <1>2, Numbers, SMTT(30) DEF PutFile, TypeOK, Files, CountIsExact, MaxTask
<1>5. QueueIsRecent'
  <2>1. \A f \in 1 .. next : kind'[f] # "foreign"
    BY <1>1, Numbers DEF PutFile, QueueIsRecent
  <2>2. next' - 1 - Len(task_queue') = next - 1 - Len(task_queue)
        /\ next' - 1 = next /\ Len(task_queue') < next'
    BY <1>1, <1>2, Numbers, SMTT(30) DEF QueueIsRecent
  <2> QED
    BY <1>2, <2>1, <2>2 DEF QueueIsRecent
<1>6. CountIsExact'
  BY <1>1, <1>2, <1>3, Numbers, SMTT(30) DEF PutFile, CountIsExact
<1>7. JobsAreOwn' /\ TakenAreHandled' /\ FailuresAreKept'
  BY <1>3 DEF PutFile, JobsAreOwn, TakenAreHandled, FailuresAreKept
<1>8. PhasesAgree'
  BY DEF PutFile, PhasesAgree
<1> QED
  BY <1>4, <1>5, <1>6, <1>7, <1>8

LEMMA GetFileKeepsIInv ==
  ASSUME IInv, NEW w \in Workers, GetFile(w)
  PROVE  IInv'
<1> USE DEF IInv
<1> DEFINE f == Head(task_queue)
<1>1. /\ Len(task_queue) >= 1 /\ f \in Files /\ f = next - Len(task_queue)
      /\ task_queue' \in Seq(Files) /\ Len(task_queue') = Len(task_queue) - 1
      /\ \A i \in 1 .. Len(task_queue) - 1 :
           task_queue'[i] = next - Len(task_queue) + i
  BY GetIsRecent, Numbers DEF GetFile, TypeOK, QueueIsRecent
<1>2. Taken' = Taken \cup {f} /\ f \notin Taken
  BY <1>1, Numbers DEF GetFile, Taken, QueueIsRecent
<1>3. Busy' = Busy \cup {w} /\ Cardinality(Busy') = Cardinality(Busy) + 1
  BY BusyGrows DEF GetFile
<1>4. w \notin Busy
  BY DEF GetFile, Busy
<1>5. job' = [job EXCEPT ![w] = f] /\ pc' = [pc EXCEPT ![w] = "check"]
  BY DEF GetFile
<1>6. TypeOK'
  BY <1>1, <1>5, Numbers DEF GetFile, TypeOK, MaxTask
<1>7. QueueIsRecent'
  BY <1>1, Numbers DEF GetFile, QueueIsRecent
<1>8. JobsAreOwn'
  <2>1. \A v \in Workers \ {w} : job'[v] = job[v] /\ pc'[v] = pc[v]
    BY <1>5 DEF TypeOK
  <2>2. job'[w] = f /\ pc'[w] = "check"
    BY <1>5 DEF TypeOK
  <2>3. \A v \in Busy : job[v] \in Taken /\ job[v] # f
    BY <1>2 DEF JobsAreOwn, Busy
  <2> QED
    BY <1>2, <1>3, <1>4, <2>1, <2>2, <2>3 DEF JobsAreOwn, GetFile, Busy
<1>9. CountIsExact'
  BY <1>1, <1>3, Numbers DEF GetFile, CountIsExact
<1>10. TakenAreHandled'
  <2> SUFFICES ASSUME NEW g \in Taken'
               PROVE  \/ \E v \in Workers : job'[v] = g
                      \/ kind[g] = "skipped"
                      \/ g \in checked /\ kind[g] # "garbled"
    BY DEF TakenAreHandled, GetFile
  <2>1. CASE g = f
    BY <1>5, <2>1 DEF TypeOK
  <2>2. CASE g \in Taken
    <3>1. \A v \in Workers : job[v] = g => v # w
      BY <1>4, <2>2, Numbers DEF JobsAreOwn, NoFile, Files
    <3> QED
      BY <1>5, <2>2, <3>1 DEF TakenAreHandled, TypeOK
  <2> QED
    BY <1>2, <2>1, <2>2
<1>11. FailuresAreKept'
  BY DEF GetFile, FailuresAreKept
<1>12. PhasesAgree'
  BY DEF GetFile, PhasesAgree
<1> QED
  BY <1>6, <1>7, <1>8, <1>9, <1>10, <1>11, <1>12

(* task_done by a worker whose file is skipped, or printed.                *)
LEMMA TaskDoneKeepsIInv ==
  ASSUME IInv, NEW w \in Workers, pc[w] # "get", TaskDone(w),
         \/ kind[job[w]] = "skipped"
         \/ job[w] \in checked /\ kind[job[w]] # "garbled",
         UNCHANGED <<kind, options, main, next, task_queue, failed_files,
                     fixes, return_code, checked>>
  PROVE  IInv'
<1> USE DEF IInv
<1>1. Busy' = Busy \ {w} /\ Cardinality(Busy') = Cardinality(Busy) - 1
  BY BusyShrinks DEF TaskDone
<1>2. w \in Busy /\ Taken' = Taken
  BY DEF Busy, Taken
<1>3. CountIsExact' /\ unfinished >= 1
  <2>1. Cardinality(Busy) # 0
    BY <1>2, BusyIsFinite, FS_EmptySet
  <2> QED
    BY <1>1, <2>1, Numbers DEF TaskDone, CountIsExact
<1>4. TypeOK'
  BY <1>3, Numbers DEF TaskDone, TypeOK, MaxTask, NoFile
<1>5. QueueIsRecent' /\ FailuresAreKept'
  BY DEF QueueIsRecent, FailuresAreKept
<1>6. JobsAreOwn'
  BY <1>1, <1>2 DEF TaskDone, JobsAreOwn, TypeOK
<1>7. TakenAreHandled'
  BY <1>2 DEF TaskDone, TakenAreHandled, TypeOK
<1>8. PhasesAgree'
  BY <1>3, Numbers DEF TaskDone, PhasesAgree
<1> QED
  BY <1>3, <1>4, <1>5, <1>6, <1>7, <1>8

LEMMA RunTidyKeepsIInv ==
  ASSUME IInv, NEW w \in Workers, RunTidy(w)
  PROVE  IInv'
<1> USE DEF IInv
<1>1. Busy' = Busy /\ Taken' = Taken /\ w \in Busy
  BY BusyStays DEF RunTidy, Busy, Taken
<1>2. job[w] \in Taken /\ job[w] \in Files
  BY <1>1, Numbers DEF JobsAreOwn
<1>3. TypeOK'
  BY <1>2 DEF RunTidy, TypeOK, MaxTask
<1>4. QueueIsRecent' /\ CountIsExact'
  BY <1>1 DEF RunTidy, QueueIsRecent, CountIsExact
<1>5. JobsAreOwn'
  BY <1>1 DEF RunTidy, JobsAreOwn, TypeOK
<1>6. TakenAreHandled' /\ FailuresAreKept'
  BY <1>1 DEF RunTidy, TakenAreHandled, FailuresAreKept
<1>7. PhasesAgree'
  BY <1>1, Numbers, BusyIsFinite, FS_EmptySet
     DEF RunTidy, PhasesAgree, CountIsExact
<1> QED
  BY <1>3, <1>4, <1>5, <1>6, <1>7

LEMMA DecodeFailsKeepsIInv ==
  ASSUME IInv, NEW w \in Workers, DecodeFails(w)
  PROVE  IInv'
<1> USE DEF IInv
<1>1. Busy' = Busy /\ Taken' = Taken
  BY BusyStays DEF DecodeFails, Taken
<1>2. TypeOK'
  BY DEF DecodeFails, TypeOK, MaxTask
<1>3. QueueIsRecent' /\ CountIsExact' /\ TakenAreHandled' /\ FailuresAreKept'
  BY <1>1 DEF DecodeFails, QueueIsRecent, CountIsExact, TakenAreHandled,
              FailuresAreKept
<1>4. JobsAreOwn'
  BY <1>1 DEF DecodeFails, JobsAreOwn, TypeOK
<1>5. PhasesAgree'
  BY DEF DecodeFails, PhasesAgree
<1> QED
  BY <1>2, <1>3, <1>4, <1>5

LEMMA NextIInv == IInv /\ [Next]_vars => IInv'
<1> SUFFICES ASSUME IInv, [Next]_vars PROVE IInv'
  OBVIOUS
<1> USE DEF IInv
<1>1. CASE UNCHANGED vars
  BY <1>1, WorkersRest DEF vars, TypeOK, PhasesAgree
<1>2. CASE GiveUp
  BY <1>2, WorkersRest DEF GiveUp, TypeOK, PhasesAgree, Over
<1>3. CASE Begin
  BY <1>3, WorkersRest DEF Begin, TypeOK, PhasesAgree
<1>4. CASE PutFile
  BY <1>4, PutFileKeepsIInv
<1>5. CASE EndOfFiles
  BY <1>5, WorkersRest, Numbers DEF EndOfFiles, TypeOK, PhasesAgree
<1>6. CASE Join
  BY <1>6, WorkersRest DEF Join, TypeOK, PhasesAgree
<1>7. CASE ExportFixes
  BY <1>7, WorkersRest DEF ExportFixes, TypeOK, PhasesAgree
<1>8. CASE ApplyFixes
  BY <1>8, WorkersRest DEF ApplyFixes, TypeOK, PhasesAgree
<1>9. CASE Exit
  BY <1>9, WorkersRest DEF Exit, TypeOK, PhasesAgree, Over
<1>10. CASE Interrupt
  BY <1>10, WorkersRest DEF Interrupt, TypeOK, PhasesAgree, Over
<1>11. ASSUME NEW w \in Workers, Worker(w) PROVE IInv'
  <2>1. CASE GetFile(w)
    BY <2>1, GetFileKeepsIInv
  <2>2. CASE SkipFile(w)
    BY <2>2, TaskDoneKeepsIInv DEF SkipFile
  <2>3. CASE RunTidy(w)
    BY <2>3, RunTidyKeepsIInv
  <2>4. CASE PrintOutput(w)
    <3>1. job[w] \in checked
      BY <2>4 DEF PrintOutput, JobsAreOwn
    <3> QED
      BY <2>4, <3>1, TaskDoneKeepsIInv DEF PrintOutput
  <2>5. CASE DecodeFails(w)
    BY <2>5, DecodeFailsKeepsIInv
  <2> QED
    BY <1>11, <2>1, <2>2, <2>3, <2>4, <2>5 DEF Worker
<1> QED
  BY <1>1, <1>2, <1>3, <1>4, <1>5, <1>6, <1>7, <1>8, <1>9, <1>10, <1>11
     DEF Next, MainStep

(* Every variable keeps its type; among other things unfinished_tasks is   *)
(* never negative, so task_done is called at most once for every put, and  *)
(* the queue never holds more than max_task files.                         *)
THEOREM TypeCorrect == Spec => []TypeOK
<1>1. IInv => TypeOK
  BY DEF IInv
<1> QED
  BY <1>1, InitIInv, NextIInv, PTL DEF Spec

(* When main ends with exit code 0, no file is in the queue or in the      *)
(* hands of a worker, so every file is done with: each was skipped, or     *)
(* clang-tidy was run on it, its output was decoded and nothing was found. *)
LEMMA ZeroFollows == IInv => ZeroMeansAllClean
<1> SUFFICES ASSUME IInv, main = "exited", return_code = 0
             PROVE  /\ Wanted \subseteq checked
                    /\ \A f \in Files : kind[f] \in {"clean", "skipped"}
  BY DEF ZeroMeansAllClean
<1> USE DEF IInv
<1>1. next = NumFiles + 1 /\ unfinished = 0 /\ failed_files = {}
  BY DEF PhasesAgree
<1>2. Len(task_queue) = 0 /\ Cardinality(Busy) = 0
  BY <1>1, Numbers DEF CountIsExact
<1>3. Busy = {}
  BY <1>2, BusyIsFinite, FS_EmptySet
<1>4. Taken = Files
  BY <1>1, <1>2, Numbers DEF Taken, Files
<1>5. \A w \in Workers : job[w] \notin Files
  BY <1>3 DEF JobsAreOwn, NoFile, Files
<1>6. ASSUME NEW f \in Files
      PROVE  kind[f] = "skipped" \/ (f \in checked /\ kind[f] # "garbled")
  BY <1>4, <1>5 DEF TakenAreHandled
<1>7. ASSUME NEW f \in Files PROVE kind[f] \in Kinds /\ kind[f] # "foreign"
  BY <1>1, <1>7, Numbers, SMTT(30) DEF QueueIsRecent, TypeOK, Files
<1> QED
  BY <1>1, <1>6, <1>7 DEF Wanted, FailuresAreKept, Kinds

(* Exit code 0 of run_clang_tidy.py (main and run_tidy) means that         *)
(* clang-tidy was run on every file it is meant for and that none failed.  *)
THEOREM ZeroIsClean == Spec => []ZeroMeansAllClean
BY ZeroFollows, InitIInv, NextIInv, PTL DEF Spec

=============================================================================
