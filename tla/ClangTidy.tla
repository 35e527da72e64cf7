----------------------------- MODULE ClangTidy -----------------------------
(***************************************************************************)
(* build_support/run_clang_tidy.py: the program behind make check-clang-   *)
(* tidy.  The main thread feeds the files of the compilation database to a *)
(* bounded queue.Queue, max_task daemon threads take them out and run      *)
(* clang-tidy on them, and the main thread joins the queue, merges the     *)
(* fixes and turns the list of failed files into the exit code.            *)
(*                                                                         *)
(* A file is its position in the database; what clang-tidy will make of it *)
(* is its kind:                                                            *)
(*   clean    exit code 0                                                  *)
(*   failing  another exit code                                            *)
(*   garbled  prints bytes that are not UTF-8 (the decode of line 183)     *)
(*   skipped  a path CheckConfig.should_skip refuses to run                *)
(*   foreign  a path that file_name_re does not match                      *)
(* External: queue.Queue (put, get, task_done, join), clang-tidy itself,   *)
(* the temporary directory.                                                *)
(***************************************************************************)
EXTENDS Naturals, Sequences, FiniteSets

CONSTANTS
  Workers,    \* the threads run_tidy runs in; max_task of them (-j)
  NumFiles    \* the entries of compile_commands.json

ASSUME WorkersAssumption == Workers # {} /\ IsFiniteSet(Workers)
ASSUME NumFilesAssumption == NumFiles \in Nat

Files == 1 .. NumFiles
Kinds == {"clean", "failing", "garbled", "skipped", "foreign"}
MaxTask == Cardinality(Workers)

VARIABLES
  kind,        \* what each file is
  options,     \* which of -export-fixes and -fix were given
  main,        \* where the main thread is
  next,        \* the file the fill loop has come to
  task_queue,
  unfinished,  \* unfinished_tasks of the queue, what join waits for
  pc,          \* where each worker is: get, check, print or dead
  job,         \* the file each worker has taken
  failed_files,
  fixes,       \* the files with a .yaml file in tmpdir
  return_code, \* what sys.exit will be called with
  checked      \* history: the files clang-tidy has been run on

vars == <<kind, options, main, next, task_queue, unfinished, pc, job,
          failed_files, fixes, return_code, checked>>

NoFile == 0
HasTmpdir == options # {}
Over == {"exited", "killed"}

TypeOK ==
  /\ kind \in [Files -> Kinds]
  /\ options \subseteq {"export", "fix"}
  /\ main \in {"start", "fill", "join", "export", "fix", "exit"} \cup Over
  /\ next \in 1 .. NumFiles + 1
  /\ task_queue \in Seq(Files) /\ Len(task_queue) <= MaxTask
  /\ unfinished \in 0 .. NumFiles
  /\ pc \in [Workers -> {"get", "check", "print", "dead"}]
  /\ job \in [Workers -> Files \cup {NoFile}]
  /\ failed_files \subseteq Files
  /\ fixes \subseteq Files
  /\ return_code \in {0, 1}
  /\ checked \subseteq Files

Init ==
  /\ kind \in [Files -> Kinds]
  /\ options \in SUBSET {"export", "fix"}
  /\ main = "start"
  /\ next = 1
  /\ task_queue = <<>>
  /\ unfinished = 0
  /\ pc = [w \in Workers |-> "get"]
  /\ job = [w \in Workers |-> NoFile]
  /\ failed_files = {}
  /\ fixes = {}
  /\ return_code = 0
  /\ checked = {}

-----------------------------------------------------------------------------
\* The workers exist: started by main, ended with the process.
Running == main \notin {"start"} \cup Over

\* queue.task_done and the next turn of the loop.
TaskDone(w) ==
  /\ unfinished' = unfinished - 1
  /\ pc' = [pc EXCEPT ![w] = "get"]
  /\ job' = [job EXCEPT ![w] = NoFile]

-----------------------------------------------------------------------------
(* Mutants of the program: what a plausible slip would make of an operation. *)

\* task_done is forgotten for a file that is skipped.
SkipWithoutDone(w) ==
  /\ Running
  /\ pc[w] = "check"
  /\ kind[job[w]] = "skipped"
  /\ pc' = [pc EXCEPT ![w] = "get"]
  /\ job' = [job EXCEPT ![w] = NoFile]
  /\ UNCHANGED <<kind, options, main, next, task_queue, unfinished,
                 failed_files, fixes, return_code, checked>>

\* main waits for an empty queue instead of finished tasks.
JoinEmpty ==
  /\ main = "join"
  /\ task_queue = <<>>
  /\ return_code' = IF failed_files # {} THEN 1 ELSE return_code
  /\ main' = "export"
  /\ UNCHANGED <<kind, options, next, task_queue, unfinished, pc, job,
                 failed_files, fixes, checked>>

\* The queue is not bounded by max_task.
PutUnbounded ==
  /\ main = "fill"
  /\ next <= NumFiles
  /\ kind[next] # "foreign"
  /\ task_queue' = Append(task_queue, next)
  /\ unfinished' = unfinished + 1
  /\ next' = next + 1
  /\ UNCHANGED <<kind, options, main, pc, job, failed_files, fixes,
                 return_code, checked>>

-----------------------------------------------------------------------------
(* The main thread. *)

\* find_compilation_database reached the root, clang-tidy -list-checks did
\* not run, or clang-apply-replacements did not: sys.exit(1).
GiveUp ==
  /\ main = "start"
  /\ main' = "exited"
  /\ return_code' = 1
  /\ UNCHANGED <<kind, options, next, task_queue, unfinished, pc, job,
                 failed_files, fixes, checked>>

\* The tools work: make tmpdir, start the threads, begin to fill the queue.
Begin ==
  /\ main = "start"
  /\ main' = "fill"
  /\ UNCHANGED <<kind, options, next, task_queue, unfinished, pc, job,
                 failed_files, fixes, return_code, checked>>

\* task_queue.put of a file that file_name_re matches.  While the queue is
\* full the put times out and is tried again; for a file that does not match
\* put_file stays False and the loop never leaves it.  Neither changes
\* anything: there is no action for them.
PutFile ==
  /\ main = "fill"
  /\ next <= NumFiles
  /\ kind[next] # "foreign"
  /\ Len(task_queue) < MaxTask
  /\ task_queue' = Append(task_queue, next)
  /\ unfinished' = unfinished + 1
  /\ next' = next + 1
  /\ UNCHANGED <<kind, options, main, pc, job, failed_files, fixes,
                 return_code, checked>>

EndOfFiles ==
  /\ main = "fill"
  /\ next > NumFiles
  /\ main' = "join"
  /\ UNCHANGED <<kind, options, next, task_queue, unfinished, pc, job,
                 failed_files, fixes, return_code, checked>>

\* task_queue.join() returns and failed_files decides the return code.
Join ==
  /\ main = "join"
  /\ unfinished = 0
  /\ return_code' = IF failed_files # {} THEN 1 ELSE return_code
  /\ main' = "export"
  /\ UNCHANGED <<kind, options, next, task_queue, unfinished, pc, job,
                 failed_files, fixes, checked>>

\* When -export-fixes was given, merge_replacement_files: with a .yaml file in
\* tmpdir it uses the name yaml, whose import is commented out (line 49); the
\* NameError is caught in main.
ExportFixes ==
  /\ main = "export"
  /\ return_code' = IF "export" \in options /\ fixes # {}
                    THEN 1 ELSE return_code
  /\ main' = "fix"
  /\ UNCHANGED <<kind, options, next, task_queue, unfinished, pc, job,
                 failed_files, fixes, checked>>

\* apply_fixes when -fix was given: what clang-apply-replacements returns is
\* not looked at, but the call may fail and main catches that.  The .yaml
\* files stay.
ApplyFixes ==
  /\ main = "fix"
  /\ return_code' \in {return_code} \cup (IF "fix" \in options THEN {1} ELSE {})
  /\ main' = "exit"
  /\ UNCHANGED <<kind, options, next, task_queue, unfinished, pc, job,
                 failed_files, fixes, checked>>

\* rmtree(tmpdir) and sys.exit(return_code): the daemon threads end with it.
Exit ==
  /\ main = "exit"
  /\ main' = "exited"
  /\ fixes' = {}
  /\ UNCHANGED <<kind, options, next, task_queue, unfinished, pc, job,
                 failed_files, return_code, checked>>

\* KeyboardInterrupt while the queue is filled or joined: tmpdir is removed and
\* the whole process group killed.
Interrupt ==
  /\ main \in {"fill", "join"}
  /\ main' = "killed"
  /\ fixes' = {}
  /\ UNCHANGED <<kind, options, next, task_queue, unfinished, pc, job,
                 failed_files, return_code, checked>>

-----------------------------------------------------------------------------
(* A worker: one turn of the loop of run_tidy. *)

\* queue.get, and get_tidy_invocation, which makes the file's .yaml file even
\* when the file is then skipped.
GetFile(w) ==
  /\ Running
  /\ pc[w] = "get"
  /\ task_queue # <<>>
  /\ job' = [job EXCEPT ![w] = Head(task_queue)]
  /\ task_queue' = Tail(task_queue)
  /\ fixes' = IF HasTmpdir THEN fixes \cup {Head(task_queue)} ELSE fixes
  /\ pc' = [pc EXCEPT ![w] = "check"]
  /\ UNCHANGED <<kind, options, main, next, unfinished, failed_files,
                 return_code, checked>>

SkipFile(w) ==
  /\ Running
  /\ pc[w] = "check"
  /\ kind[job[w]] = "skipped"
  /\ TaskDone(w)
  /\ UNCHANGED <<kind, options, main, next, task_queue, failed_files, fixes,
                 return_code, checked>>

\* Popen and communicate; a garbled file may fail as well, which changes
\* nothing that is visible, since its worker dies before the task is done.
RunTidy(w) ==
  /\ Running
  /\ pc[w] = "check"
  /\ kind[job[w]] # "skipped"
  /\ failed_files' = IF kind[job[w]] = "failing"
                     THEN failed_files \cup {job[w]} ELSE failed_files
  /\ checked' = checked \cup {job[w]}
  /\ pc' = [pc EXCEPT ![w] = "print"]
  /\ UNCHANGED <<kind, options, main, next, task_queue, unfinished, job,
                 fixes, return_code>>

PrintOutput(w) ==
  /\ Running
  /\ pc[w] = "print"
  /\ kind[job[w]] # "garbled"
  /\ TaskDone(w)
  /\ UNCHANGED <<kind, options, main, next, task_queue, failed_files, fixes,
                 return_code, checked>>

\* UnicodeDecodeError under the lock: the with statement frees the lock, the
\* thread ends, task_done is never called for its file.
DecodeFails(w) ==
  /\ Running
  /\ pc[w] = "print"
  /\ kind[job[w]] = "garbled"
  /\ pc' = [pc EXCEPT ![w] = "dead"]
  /\ UNCHANGED <<kind, options, main, next, task_queue, unfinished, job,
                 failed_files, fixes, return_code, checked>>

-----------------------------------------------------------------------------
MainStep == GiveUp \/ Begin \/ PutFile \/ EndOfFiles \/ Join \/ ExportFixes
            \/ ApplyFixes \/ Exit

Worker(w) == GetFile(w) \/ SkipFile(w) \/ RunTidy(w) \/ PrintOutput(w)
             \/ DecodeFails(w)

Next == MainStep \/ Interrupt \/ \E w \in Workers : Worker(w)

\* The operating system runs every thread and clang-tidy ends on every file.
Fairness == WF_vars(MainStep) /\ \A w \in Workers : WF_vars(Worker(w))

Spec == Init /\ [][Next]_vars /\ Fairness

-----------------------------------------------------------------------------
(* Properties. *)

\* The files make check-clang-tidy is asked to run clang-tidy on.
Wanted == {f \in Files : kind[f] \in {"clean", "failing", "garbled"}}

\* An exit code 0 means that clang-tidy was run on every file it should run on
\* and that none of them failed, whatever the order the workers took them in.
ZeroMeansAllClean ==
  (main = "exited" /\ return_code = 0) =>
    /\ Wanted \subseteq checked
    /\ \A f \in Files : kind[f] \in {"clean", "skipped"}

\* Unless a file does not match, a worker dies over undecodable output or the
\* user interrupts it, the program ends: the bounded queue, the workers and
\* join never wait for each other in a circle.
Terminates ==
  (\A f \in Files : kind[f] \notin {"garbled", "foreign"}) =>
    <>(main \in Over)
=============================================================================
