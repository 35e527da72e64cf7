# Concurrency_Tcp_Server: formal models

TLA+ models of the C++ reactor server in `src/src/` and of the Python programs
in `src/build_support/` that check its sources, checked with TLC on small
instances and, where stated, proved with TLAPS for all values of the constants.

## 1. The system

One main event loop accepts connections, N sub event loops (one thread each)
serve them, an HTTP layer sits on top as callbacks, and an asynchronous logger
runs on a thread of its own.

| Component (source) | State it keeps | Operations | Talks to |
|---|---|---|---|
| **EventLoop** `tcp/EventLoop` | `to_do_list_` (under `mutex_`), `calling_functors_`, `tid_`, the eventfd `wakeup_fd_` | `Loop`, `DoToDoList`, `QueueOneFunc`, `RunOneFunc`, `HandleRead`, `RunAt/After/Every` | Epoll, TimerQueue, every thread that hands it functors |
| **Epoll**, **Channel** `tcp/Epoll`, `tcp/Channel` | registered events, ready events, raw `Channel*`, `tie_` (weak) | `Poll`, `UpdateChannel`, `DeleteChannel`, `HandleEvent(WithGuard)` | the kernel, Connection callbacks |
| **Acceptor** `tcp/Acceptor` | listening socket, its channel | `AcceptConnection` | Server (callback) |
| **Server** `tcp/Server` | `connections_` (fd -> `shared_ptr<Connection>`), `next_conn_id_`, the loops | `HandleNewConnection`, `HandleClose`, `HandleCloseInLoop` | both kinds of loop |
| **Connection** `tcp/Connection` | `state_`, buffers, channel, HTTP context, last-message time | `ConnectionEstablished`, `ConnectionDestructor`, `Read`, `Send`, `HandleClose` | its sub loop, Server, HttpServer |
| **Buffer** `tcp/Buffer` | vector, read index, write index | `Append`, `Retrieve*`, `EnsureWriteAbleBytes` | Connection, responses |
| **HttpServer** `http/HttpServer` | `auto_close_conn_`, the response callback | `HandleConnection`, `HandleMessage`, `HandleRequest`, `ActiveCloseConn` | Connection, EventLoop timers |
| **HttpContext**, **HttpRequest**, **HttpResponse** `http/` | parser state, the request being assembled | `ParaseRequest`, `ResetContextStatus` | HttpServer |
| **TimerQueue**, **Timer**, **TimeStamp** `timer/` | ordered set of timers, timerfd, `next_id` | `AddTimer`, `HandleRead`, `ResetTimers`, `ResetTimerFd` | EventLoop; called from other threads as well |
| **AsyncLogging**, **LogFile** `log/` | `current_`, `next_`, `buffers_` (under a mutex), `running_`, latch | `Append`, `ThreadFunc`, `Stop`, `Flush` | every logging thread |
| **Logging**, **LogStream** `log/` | a fixed line buffer per statement | `Append`, formatting | AsyncLogging |
| **ThreadPool**, **Latch** `tcp/ThreadPool`, `base/Latch` | task queue, stop flag, counter | `Add`, worker loop, `wait`, `notify` | Server starts the sub loops with it |
| **Socket**, **InetAddress**, **util**, **CurrentThread** | a descriptor, an address, a thread id | system call wrappers, `Errif` (ends the process) | all |
| **run_clang_tidy.py** `build_support/` | a bounded queue, `failed_files`, the fixes in a temporary directory | `main`, `run_tidy` in worker threads, `merge_replacement_files`, `apply_fixes` | clang-tidy, the user (interrupt) |
| **cpplint.py** `build_support/` | filters, suppressions, error count; per file `CleansedLines`, `NestingState`, `_FunctionState`, `_IncludeState` | `ProcessFile`, `ProcessFileData`, `ProcessLine`, `Error` | `CPPLINT.cfg` files |
| **run_clang_format.py** `build_support/` | `had_err` | `check` per source directory | clang-format |

How they interact. A *functor* is a closure left in another loop's
`to_do_list_`; it is the only message between loop threads, besides the unlocked
`AddTimer` of the main thread on a sub loop and the registration of a channel in
another loop's epoll. A close travels
`Connection::HandleClose` (sub) -> `Server::HandleCloseInLoop` (main) ->
`Connection::ConnectionDestructor` (sub), and the functors' bound
`shared_ptr`s keep the connection alive on the way; dropping the last one closes
the descriptor, which the kernel then gives to the next `accept`.

What is hard, and the properties that make each part correct:

* EventLoop: append under the lock, decide on the wake-up after the unlock;
  self-submission while draining; the swap. *No functor lost, run twice, run on
  the wrong thread or out of order; none left behind by a loop that sleeps.*
* Server/Connection/Channel/Epoll: two hops between threads while both serve
  other events, reuse of descriptors, raw channel pointers in epoll, edge
  triggering, blocking sockets. *All the places that know of a connection agree;
  a late close hits its own entry; no dangling channel; every close completes.*
* HttpServer timers: a timer racing a close or an early death. *A served
  connection is always watched.*
* TimerQueue: insertion from another thread, re-arming with timers that are added
  or expire meanwhile, two clocks. *An armed timerfd whenever a timer is pending;
  none runs early or twice, each runs.*
* AsyncLogging: double buffering, a stop racing appends. *Nothing lost,
  duplicated or reordered; Stop terminates and has written everything.*
* HttpContext: requests in pieces, context reuse on keep-alive. *No answer to half
  a head or about another request; nothing of an earlier request in a later one.*
* Buffer: index arithmetic under growth. *The parser sees what arrived.*
* run_clang_tidy: a bounded queue between main and workers that may die. *Exit
  code 0 only after every file was checked and none failed; the threads never
  wait for each other in a circle.*
* cpplint: four passes that remove comments and strings, stacks saved and
  restored around conditional groups, one counter for all functions, filters and
  suppressions in globals. *The checkers see the code; the stack is its nesting;
  what belongs to one file stays with it.*

The complete list of hazards, each at its line, is in `PROJECT.json`.

## 2. Modules

| Module | What it is |
|---|---|
| `TaskQueue` | abstract: what a loop promises the callers of `QueueOneFunc`/`RunOneFunc` |
| `EventLoop` | the loops with mutex, swap, eventfd and epoll; implements `TaskQueue` |
| `Server` | the life of a connection; uses the actions of `EventLoop` for its threads (`EL == INSTANCE EventLoop`) |
| `LogQueue` | abstract: what the logger promises the threads that log |
| `AsyncLogging` | the logger's buffers, back-end thread, Start and Stop; implements `LogQueue` |
| `Timers` | abstract: what `RunAt`, `RunAfter`, `RunEvery` promise |
| `TimerQueue` | the ordered set, the timerfd and both threads that add; implements `Timers` |
| `Buffer`, `HttpContext` | operators: the byte buffer, the parser |
| `HttpSession` | one connection: pieces, parser, answers; uses `Buffer` and `HttpContext` |
| `ClangTidy` | run_clang_tidy.py: main and its worker threads |
| `CppLines` | operators of cpplint.py: a file as it is cleansed of comments and strings |
| `NestingState`, `FunctionState`, `IncludeState`, `HeaderGuard`, `LintErrors` | its checkers that keep state, and what becomes of an error |
| `Cpplint` | a run of cpplint.py over command line, files and lines; extends the six above |
| `CpplintProperties` | what such a run promises, by a lexer and by conditional groups |
| `TaskQueueProofs`, `EventLoopProofs`, `ServerProofs`, `TimerQueueProofs`, `AsyncLoggingProofs`, `HttpSessionProofs`, `ClangTidyProofs`, `CpplintProofs` | the theorems and their proofs |
| `MCEventLoop`, `MCServer`, `MCAsyncLogging`, `MCTimerQueue`, `MCHttpSession`, `MCClangTidy`, `MCCpplint` | what TLC runs, with one `.cfg` per question |

### EventLoop

Each loop has a thread; `pc` says whether it has entered `Loop()` ("unbound"),
waits in `epoll_wait` ("poll"), handles ready channels ("dispatch") or runs its
batch ("drain"). One critical section of `mutex_` is one action, and the code
between two is its own action where another thread can see the difference:

* `QueueOneFunc` (append and unlock) sets `waking[t] = l`; `WriteWakeup`, a later
  step of the same thread, is the test `!IsInLoopThread() || calling_functors_`
  and the write to the eventfd. Everything else can happen in between.
* `BeginDoToDoList` is the swap, `RunFunctor` one functor of the batch,
  `EndDoToDoList` the reset of the flag and the way back to `epoll_wait`.
* `Poll` returns a batch of ready channels, `HandleRead` and `HandleEvent` handle
  one of them, in any order.

A functor is an identity, used by one call; what a handler or functor does is at
most one such call (a second call by the same handler is the same interleaving
as a second handler). `quit_` is never set by the program and is left out.

### Server

The state of `Server`, `Connection` and epoll (`connections_`, `fd`, `state_`,
`watch`, `edge`), of the peers' sockets (`unread`, `peer`), of the sub loops'
threads inside a `read()` (`reading`), of the idle timers
(`timer`, `active`) and of the references that keep a connection alive
(`Alive`: an entry, a functor waiting or run in a batch not yet destroyed, the
local of `HandleNewConnection`). `OpenFds` follows from it: `~Connection` closes
the descriptor. `establishing` splits `HandleNewConnection` after `EnableRead`,
from where the sub loop may serve the connection while main is still in the
connect callback.

The actions are those of the code: `AcceptConnection` (with
`HandleNewConnection` and `ConnectionEstablished` up to `EnableRead`),
`HandleConnection`, `HandleEvent` (with `Read`, `ReadBlocking`, the HTTP answer
`HandleRequest`, `Send` and `HandleClose`), `ActiveCloseConn`,
`RunHandleCloseInLoop`, `RunConnectionDestructor`, the loop's own steps, and the
clients' connect, send, urgent send, FIN and RST. `crash` records how the process ended:
`Errif` ("exit"), an `assert` ("assert"; no build type is set, so assertions are
compiled in) or SIGPIPE, which the program does not ignore.

Of the kernel the model takes: an arrival raises an edge; `epoll_wait` consumes
it and reports the events registered that hold at that moment; `EPOLL_CTL_ADD`
and `MOD` raise an edge when the socket is ready; the lowest free descriptor is
given to `accept`; the first call after RST fails with ECONNRESET and a second
write is a broken pipe.

`EnableRead` registers EPOLLIN and EPOLLPRI, and `HandleEvent` runs the read
callback on either (Channel.cpp:24, :37). A byte that a client sends as urgent
raises EPOLLPRI, but it is not among the data that `read()` returns, since no
socket sets SO_OOBINLINE: `AfterRead` says what one `read()` leaves of `unread`,
which stops at an urgent byte and skips one it starts at. When the callback has
nothing to return, `WaitInRead` takes the thread of the sub loop into `reading`,
and no step of that loop happens until that client sends data or goes.

Abstractions, all towards fewer details of data:

* bytes are a message, "data", or one "urgent" byte; several messages in a row
  are one; a message is answered by one `Send` and kept or
  closed, whichever the HTTP layer decides;
* a `Send` is left incomplete only by a reset that arrives meanwhile (accepted
  sockets block), and a client that never reads is not modelled: `write` would
  then stall the loop, a hazard listed without a property;
* `AddTimer` is atomic here; its interleaving is the subject of `TimerQueue`;
* the constructor of Connection already registers the channel, without EPOLLIN:
  what epoll may report of it until `EnableRead` (a hang-up) calls nothing, and
  the model registers it with `EnableRead`;
* what a client does after the descriptor is closed is not seen by the server;
* connection ids do not reach 1000 within the bounds, and are only logged.

### AsyncLogging

`AsyncLogging` shares nothing with the loops except that their threads log.
`Append` and the body of the back end's loop hold `mutex_` throughout (the
`unique_lock` of ThreadFunc lives to the end of the iteration), so each is one
step: `Log` with `AppendLine`, and `WriteBuffers`. Between them the back end is at
the unlocked test of `running_` ("check"), about to lock ("lock"), or in
`wait_until` ("wait"), which releases the mutex and, its predicate being always
false, ends at the timeout only: the notifications of Append and Stop change
nothing and are not in the model. `current_`, `next_`, `buffers_` and the two
spares of ThreadFunc are modelled with the `unique_ptr` moves between them
(`NoBuffer` is the moved-from pointer) and with `Bzero`, which a recycled buffer
needs. `Added` is `FixedBuffer::Append`, which drops what does not fit with a
byte to spare. Start waits for the latch, Stop joins.

`written` is what all log files hold together. The rotation of files, stdio
buffering and flushing, and a file that cannot be opened are left out. Lines may
be logged before Start and after Stop; one logged after the last pass, even
before Stop was called, stays in memory, and no property says otherwise.

### TimerQueue

Every call of the `std::set` is a step of its own, so that those of an `AddTimer`
on the main thread (HttpServer.cpp:61, without a lock) fall anywhere between those
of the loop's `HandleRead`. `AddTimer` is `empty()`; `CompareFirst` is the test
against `begin()`, `Emplace` the insertion into the ordered set (a sequence), and
`ResetTimerFd` follows if the test, by then perhaps stale, said so: it is for a
timer (`arming`) that the loop may have run and deleted meanwhile, so that its
delay is any. `adding` and `earliest` are what is going on in each thread's
`Insert`. `HandleRead` is the loop's `ReadTimerFd`, `LowerBound`, which sets the
iterator `end`, the copy into `active_timers_`, the erase, one `RunTimer` per
callback (which may add a timer, as `ActiveCloseConn` does), `ResetTimer` per
timer and `ResetLast`. A timer emplaced before the iterator between
`lower_bound` and the copy is taken with the others; one emplaced between the copy
and the erase is erased without having been copied (`lost`: it is never run and
never deleted).

Expirations are ticks to go on the wall clock (`TimeStamp::Now`), `left` the
monotonic ticks of the timerfd; `Tick` moves both and `SetClock` the wall clock
alone. A tick is the 100 microseconds that `ResetTimerFd` never goes below. What
two unsynchronised calls do to the nodes of the set is undefined in C++ and beyond
the model: what it shows are the errors that remain were each call atomic.

### Buffer, HttpContext, HttpSession

A character stands for a run of characters the parser treats alike.
`HttpContext!Step` is one turn of the loop of `ParaseRequest`: the next state
(`RequestLine`, `HeaderLines`, `AfterHeaders`), and what `start` and `colon`
delimit is stored when a part ends (`Store`). `HttpSession` keeps context and
read buffer from one read event to the next: `ReadEvent` takes any part of what
the client has sent, empties the buffer and appends (`Connection::Read`), and
`HandleMessage` answers 400 and closes, or answers what the callback of
`test/http-server.cpp` makes of the request, closes if told to, and resets the
context. A client sends when all of its last request has been read and it has an
answer. The callback throws for a login with a body of less than eight characters
(`ended`: nobody catches).

The head of a request holds one empty line, its end; a body is any sequence of
words. The parser takes what a read returns behind the head for the body
(HttpContext.cpp:252), so the rest of a body that TCP delivers later is parsed as
a request: it is answered 400, or, if it holds an empty line, it may be carried
out. `InBody` names these reads, and the properties say what they claim of them.

### ClangTidy

The main thread moves through `GiveUp` or `Begin`, `PutFile` (blocked by a full
queue), `EndOfFiles`, `Join`, `ExportFixes`, `ApplyFixes`, `Exit`; a worker
through `GetFile` and `SkipFile` or `RunTidy` and `PrintOutput`. `unfinished` is
the count of `queue.Queue` that `join` waits for. `DecodeFails` ends a worker
between `get` and `task_done`; `Interrupt` kills the process group. Of a file only
its kind is known. `merge_replacement_files` uses the name `yaml`, whose import is
commented out: with `-export-fixes` and any `.yaml` file the exit code is 1.
With `-fix`, `clang-apply-replacements` may fail to start, which main catches.

### cpplint

A file is a text of lines, a line a sequence of tokens; the marks that matter
(comment and string delimiters, directives, braces, `NOLINT...`) are tokens of
their own. `CleansedLines` makes the three versions of a line in the order of the
code: comments of several lines, raw strings, line and block comments, strings.
`NestingState!Update`, `CheckForFunctionLengths` and `CheckLanguage` are functions
from a checker's state and a line to its new state and the errors raised.
`Cpplint` has one action per step of the program: `ParseArguments` (or its ends
`NoFiles`, `DieOfFilter`), for each file `ExcludeFile`, `DieOfConfig`, `SkipFile`
or `StartFile` (configurations, suppressions, cleansing, copyright, header guard
with the NOLINT of its lines, `GuardVerdicts`), `ProcessLine` per line, `EndFile`,
and `Exit`. `verdicts` is the history of every error with whether it was printed.

Left out are the checks that look at one line by itself and keep nothing, except
three (unbalanced comments and strings, unapproved headers, bad characters) that
other checks depend on or report; the options `root` and `linelength`, which only
these and the name of the guard use; output formats. What the code finds by
comparing paths is given with a file: the paths by which its header can be included
(`own`, by suffix and without a test's ending), those that pass for the header by
substrings (`like`), and whether it is named like a test. The guard's name is a
token.

Besides TLC, the operators were compared with the program itself: about 12 000
random texts over larger alphabets (all directives, templates, assembler blocks,
nested namespaces, raw strings, header guards, a dozen include paths, every kind
of NOLINT) were given both to `cpplint.py` and to these modules, and the errors
agreed on all of them, lines and categories alike.

## 3. Checks

| Run | Instance | What it shows |
|---|---|---|
| `event_loop` | 3 loops, 3 functors, 1 channel; 370 163 states | `NoLostWakeup`, `WakeupReadable`, `RunsOnce`, `IInv`, and `Implements`: the loops refine `TaskQueue`, liveness included |
| `server_two_loops` | 2 sub loops, 2 descriptors, 2 clients with 1 send each; 1 254 265 states | `LifeCycle`, `NoDanglingChannel`, and `ImplementsEventLoop`: the server uses its loops as `EventLoop` allows |
| `server_one_loop` | 1 sub loop, **1 descriptor**, 2 clients; 65 699 states | the descriptor is reused, or accept fails: `CloseFindsItsOwnEntry`, `ClosedIsDestroyed`, `ClientsAreAccepted` |
| `server_idle` | 1 client, 2 sends, `auto_close_conn_` on; 43 730 states | `IdleConnectionsAreWatched`; `PeerGoneIsDestroyed` then holds through the timer; `ReadBlocksOnUrgentOnly` |
| `server_read_assert` | 1 client | violation: `Read` runs on a disconnected connection |
| `log` | buffers of 4 bytes, lines of 1 to 3, 6 lines; 158 353 states | `ImplementsLogQueue`: lines are written once, in order, and while the logger runs all of them are; `LastPassWritesAll`; `StopTerminates` |
| `log_drop` | the same | violation: a line as long as the room left is dropped |
| `timers` | 2 timers, delays to 2 ticks, intervals 0 and 2, the clock set once, with and without a second thread; 300 464 states | `PendingIsArmed`, `ArmedForEarliest`, `ImplementsTimers` (liveness included), `EveryTimerRuns` |
| `http` | 3 requests of 7 kinds, cut anywhere; 12 339 states | `AnswersOwnRequest`, `AnswersWholeHeads`, `BufferHoldsData`, `EveryRequestIsAnswered` |
| `http_reuse` | the same, uncut | violation: a GET behind a POST gets 400 where it would get 200 alone |
| `tidy` | 2 workers, 4 files of any kinds; 364 660 states | `ZeroMeansAllClean`, `Terminates` |
| `cpplint` | every text of 3 to 5 lines over the lines that matter to a checker, and commands of up to 3 files; 52 022 inputs, 505 134 states | `ElidedIsTheCode`, `StackFollowsBraces`, `TopLevelIncludesAreKept`, `LongFunctionsAreReported`, `VerdictsAreOwn`, `JudgedAlone` |

Why these bounds. Three loops let two threads be in the middle of waking the
same third one, and three functors let one wait in a batch, one in the list
behind it and one arrive. In the server a connection interacts with others
through the loop it shares, the descriptor it reuses and main's batch: two
connections on different loops, and two on one loop and one descriptor, meet each
of these. One send per client lets data be merged with FIN or RST, two also let an
idle timer be re-armed once. `MaxConn` and `MaxSend` bound the clients, not the
server. In the logger six lines fill more than the two buffers a pass keeps, so
that spares run out, are recycled and refilled within one run; a line can leave
less, exactly as much or more room than the next one needs. Two timers let one be taken, run
or reset while the other is added by its callback or by another thread, or waits;
delays to 2 let a timer be earlier, as early or later than the armed one. Three
requests let what is kept from the first meet the second and survive into the
third, one of the kinds is longer than the buffer is at first (10), and one
quotes a request in its body; `EveryRequestIsAnswered` counts the first answers,
up to `MaxRequests`. Two workers and four
files fill the queue of two while both workers are busy. The texts of cpplint are
as long as a scenario needs: 5 lines hold a group with two branches, the line
before it and the line behind; 4 hold two kinds of comment in each other;
`NamespaceLines` 2 and the triggers 1 and 2 (10, 250 and 400 in the code) let a
namespace or a function be too long within them, and verbosity 0 (the build uses
2) prints every error. In the scenario `verdicts` a file is judged, then one with
other suppressions and configurations, then the first again.

Deadlock is checked in `event_loop`: its loops can always be called by a channel.
It is off for the server and the logger, which rightly rest once nobody calls.

Fairness. In `EventLoop`: a thread that can run does (the scheduler), and
`epoll_wait` returns while the eventfd is readable; nothing is assumed of other
channels. In `Server`: weak fairness per thread and of the expiry of an armed
timer; nothing of the clients, which may stop at any point, and nothing that
would choose between "keep" and "close" after a request. In `AsyncLogging`: the
back-end thread, whose timeout elapses, and the returns of Start and Stop; nobody
has to log, start or stop. In `TimerQueue`: the loop's steps, the second half of
an `AddTimer` begun, and time; nobody has to add a timer. In `HttpSession`: what
arrived is read (the event loop), nothing of the client. In `ClangTidy`: main and
every worker run and clang-tidy ends on every file. A run of cpplint is
sequential and finite, and none of its properties needs fairness.

Some properties say where they do not speak. `PendingIsArmed`, `ImplementsTimers` and
`EveryTimerRuns` make an exception of the timers in `raced`, those whose `Insert` on
the main thread overlapped the taking of expired timers: without it TLC finds
such a timer left waiting with the timerfd off (its test saw an expired timer at
the head, which the loop then ran and deleted, arming nothing), run before its
time (emplaced between `lower_bound` and the copy), and erased without having run
(between the copy and the erase). `Timers` has the same exception as its actions
`Race` and `ExpireEarly`. `ClosedIsDestroyed` and `PeerGoneIsDestroyed` speak of
connections for which `NotStalled` holds: no `read()` for *another* client keeps
their loop for ever. With both connections open on one loop (`Fds = {4, 5}` in
`server_one_loop`, 443 881 states) they hold with that hypothesis and
`ClosedIsDestroyed` is violated without it; the run keeps one descriptor so that
accept runs out of them. `AnswersOwnRequest` is about reads that begin a request, and
`AnswersWholeHeads` allows one other answer, to the rest of a body that holds an
empty line. `ArmedForEarliest` is about a queue
of one thread and a clock that is not set: with a second thread the later of two
`ResetTimerFd` calls may be for the later timer, which only delays the earlier one
(`EveryTimerRuns` still holds). `Terminates` leaves out undecodable output, paths
that do not match and the user's interrupt, with which the program does hang or
is killed. `ElidedIsTheCode` leaves out two kinds of text that are misread without
a warning (`IsMisread`): a line of a raw string that starts like a comment, and
code behind the end of a comment of several lines. `StackFollowsBraces` is about
files whose groups match and whose code is clear in the lines that count: where a
class or namespace head waits for its brace comes no other head and no closing
brace, and a namespace gets its brace before a statement ends. That is all C++ but
a few forms (a class in the base list of a class, `namespace a = b;`), which the
checker takes for something else. `JudgedAlone` leaves out
commands with a `CPPLINT.cfg` that sets `headers` or `extensions`: these stay set
for all later files. `IsEarly` names the errors that are judged before the NOLINT
of their line is read, since the header guard comes before all lines: its own, an
unknown NOLINT category on a line it looks at, and an unclosed comment.
`TopLevelIncludesAreKept` is about files whose `#if` and `#endif` match, and lists
what is not listed at all (a source file of another directory, what looks like a
header of a third party); it and `LongFunctionsAreReported` leave out files with
inline assembler, since the lines of such a block are not looked at.
`VerdictsAreOwn` lets an error be silent only for a NOLINT of its own line in
the text of the file or in the text without raw strings (`MayBeSilenced`), which
are the two versions the program looks for it in.

The liveness properties allow "or the process ended": the program does end on
`Errif`, a failed assertion and SIGPIPE, and these outcomes are modelled.

Every property is paired with a mutant in `PROJECT.json`: a plausible bug in a
mapped definition (the dropped `|| calling_functors_`, a copy in place of the
swap, the flag not reset, a missing wake-up of the sub loop, a timer not
re-armed, ...) under which TLC finds that property violated. The mutated
operators stand next to the definitions they mutate.

### Findings

1. `Connection::Read` asserts `state_ == State::Connected` (Connection.cpp:163).
   `HandleClose` leaves the channel in epoll until the two functors have run, so
   any event in between - the client's FIN after a "Connection: close" answer,
   more data, or the EPOLLOUT of the same batch - aborts the process.
2. `AsyncLogging::Append` keeps `current_` when `Available() >= len`, but
   `FixedBuffer::Append` copies only when `Available() > len`: a line exactly as
   long as the room left is dropped.
3. `HttpContext::ResetContextStatus` resets the parser's state but not the request:
   a GET on a connection that carried a POST finds the old `Content-Length`, waits
   for a body and is answered 400.

Observed while modelling, without a run of their own: an urgent byte alone stops
a whole sub loop in `read()`; a timer that HttpServer adds from the main thread
may be forgotten or run early; the rest of a body may be carried out as a request;
without automatic closing
`PeerGoneIsDestroyed` fails (an edge-triggered channel on a blocking socket is read
once per edge, so a FIN merged with data is never read); a header's value keeps
the blank behind the colon, so `Connection: close` is never recognised;
`EnsureWriteAbleBytes` computes a wrong index in a branch this program does not
reach; run_clang_format.py forgets the issues of all but the last directory;
cpplint.py keeps `headers` and `extensions` of a `CPPLINT.cfg`. Each is at its
line among the hazards.

## 4. Proofs

Checked by TLAPS for every value of the constants that satisfies the named
assumptions of the modules: any number of loops, connections, timers, workers,
files, requests and lines, buffers of any size. Every proof module EXTENDS the
module it is about and begins with the inductive invariant, `IInv` (that of the
loops is in `EventLoop`, since a run checks it and `Server` needs it); before it
was proved, TLC checked each `IInv` on the instances of section 3.

The assumptions are of three kinds. Special values are not members of the sets
(`NoLoopAssumption`, `WakeupAssumption`, `NoTimerAssumption`; `LoopsAssumption`
says the same of the names in `Server`). Bounds are numbers, there is at least
one worker and one sub loop, and a line is shorter than a log buffer: it
is made in a `LogStream`, whose buffer has the same `FixedBufferSize`. What
arrives from outside is a text or a list: `InvocationsAssumption` (a command line
is a sequence of files, a file a sequence of lines, a line one of tokens, and
filters are a sequence of signs and categories), `RequiresAssumption` (the table of
headers is finite), `WordsAssumption` (the marks of HTTP are among the words),
`RequestsAssumption` (the parts of a request are words, and the head ends with its
first empty line; nothing is said of bodies) and `NamesAssumption`. The latter says
that a URL starts with a slash and holds no blank and no question mark, which
clients encode, that no word of capitals is a blank, and that a request names each
parameter once: of two of one name `params` keeps the later. Of the names
and values themselves nothing is assumed; if they are marks, the parser may reject
the request, but it does not carry out another one.

### The loops

* `TaskQueueProofs!FunctorsRunOnce`: in the abstract queues every functor waits
  in one place and has not run yet.
* `EventLoopProofs!Invariance`: `IInv` is an invariant. `NoLostWakeup` is not
  inductive: a loop leaves "drain" with a list that others, or its own functors,
  filled meanwhile, so `WakeupOnItsWay` states that the wake-up is sent while the
  loop still drains, from its own thread too. `PlacesAgree` gives the meaning of
  the flag: the test after the unlock reads `calling_functors_`, which must be
  TRUE in "drain" and cannot change between append and test of the loop's own
  thread. `WakeupReadable` is needed for `HandleRead`, which takes the counter
  to zero: only the "dispatch" phase does, and the drain that follows empties
  the list.
* `TypeCorrectness`, `NoWakeupIsLost`, `WakeupIsReadable` follow.
* `ImplementsTaskQueue`: under the mapping `pending = functors \o to_do_list_`
  every step of the loops is a step of `TaskQueue` or a stutter (the swap moves
  the list into the batch, which `PlacesAgree` shows empty).
* `RunsOnceTheorem` carries `FunctorsRunOnce` over by that refinement.

### The server

All six invariants the runs of `Server` check, and the refinement, follow from
one invariant (`ServerProofs`). They need each other: that a late
`HandleCloseInLoop` finds its own entry depends on the descriptor not having been
reused, which depends on who keeps the connection alive, which depends on where
its functors are.

* `PhasesAgree` puts each connection into a phase, *unborn*, *served*, *closing*
  or *closed*, with `state_`, its entry, its registration and both functors;
  `EntriesAgree` ties `connections_` to `fd`, `FunctorsWaitAtHome` says that a
  functor waits once and on the right loop. `FreshDescriptor` is the lemma on
  reuse: a descriptor accept gets belongs to no connection still alive, so the
  entry it overwrites is empty.
* `EventsAgree` and `SocketsAgree` keep what epoll reported true until it is
  handled, a batch and many steps of the peers later. What clients can have left
  unread is one of six sequences (`Unreads`), from which follows that a callback
  without data to read is due to an urgent byte that came alone.
* `TargetsAreBound` is the guard of `EventLoop`'s `QueueOneFunc`: functors go to
  threads that run. With it every step of the server is a step of `EventLoop` or
  leaves the loops alone, so that `EL!IInv` needs no new proof: `NextIInv` of
  `EventLoopProofs` is cited through an instance.
* Theorems: `TypeCorrect`, `PhasesOfConnections` (`LifeCycle`),
  `CloseErasesItsOwnEntry`, `ChannelsOutliveTheirEvents` (`NoDanglingChannel`),
  `SubLoopsBlockOnUrgentOnly` (`ReadBlocksOnUrgentOnly`), `IdleTimersWatch`
  (`IdleConnectionsAreWatched`), `LoopsAreUsedAsAllowed` (`ImplementsEventLoop`),
  and, through it, `ServerLosesNoWakeup`.

### The timer queue

* `OnlyRacesStrandTimers` (`PendingIsArmed`): a timer is left waiting unarmed only
  after an `Insert` of the main thread overlapped the taking of expired timers. The
  proof needs to know at every step of `HandleRead` and in the middle of every
  `Insert` who is still to arm the timerfd. `OthersWait` says of an `Insert` whose
  test has not shown its timer to be the earliest that another timer is still in
  `timers_` or a taking overlapped it, and `UncopiedRaced` that what the erase will
  lose was emplaced in such a race. `BatchesAgree` says when the two parts of
  `active_timers_` are empty, `DelaysBound` bounds what the wall clock can have
  moved, and the type invariant carries the order of `timers_` and that a Timer
  object is at one place.
* `TimerFdIsForTheEarliest` (`ArmedForEarliest`) needs `OwnLoopArmsFirst`: on a
  queue of one thread the timer to arm for is still the first, and the test of an
  `Insert` still holds at its emplace. `ArmedThroughout` is the property in the
  middle of an `Insert` too.
* `QueueKeepsTheProtocol`: the safety part of `ImplementsTimers`. `place` is where
  in the queue a timer is (`Taken` follows the iterator before the copy); the
  abstract `Protocol` says that callbacks run after their time, once per period,
  and that an object is reused after its delete.
* The lemmas on sequences (`InsertPlaces`, `ConcatPlaces`, `SplitPlaces`, ...) say
  what `std::set` insertion and the split at `lower_bound` keep and move.

### The logger

* `LinesStayInOrder`: the safety part of `ImplementsLogQueue`, every line taken is
  in the files or in memory, once and in order, through every swap and hand-back
  of buffers. `SparesAreEmpty` is the heart: a recycled buffer was emptied
  (`Bzero`), and a moved-from `next_` is not used. `StartsOnce` ties the latch,
  `running_` and the back end's thread together.
* `TypeCorrect`: no empty `unique_ptr` is dereferenced.

### HTTP

* `BufferTellsTheData` (`BufferHoldsData`): through growth and recycling of the
  vector, what the parser is given is exactly what the read took off the wire
  (`RoomIsMade`, `CopiedHolds`, `BufferShowsData`). `BufferIsSound` is the
  invariant: the read index never moves, the write index stays in the vector.
* `WholeHeads` (`AnswersWholeHeads`): wherever TCP cuts and whatever the bodies
  hold, a read that begins a request is answered other than by 400 only when it
  holds all of the head; any other such answer is to the rest of a body that holds
  an empty line. `RestIsBody` says what is left on the wire: the whole of the last
  request, or no more than its body. `CompleteSawEmptyLine` is the lemma on the
  parser: from its start, it completes only on data that hold an empty line;
  `RepliesToTheHead` that the first one in a request ends its head.
* `AnswersAreAboutTheirRequests` (`AnswersOwnRequest`): the reply to a read that
  begins a request carries its method, its URL and its parameters, although one request
  object serves the whole connection. `HeadStarts` says what the text of a request
  looks like, word by word (the parameters are folded into it: `FlattenFours`),
  and `UrlTurns`, `ParameterIsRead` and `TargetIsKept` follow the parser over it,
  state by state: it is in an invalid state for good (`DeadStaysDead`), or holds
  the method, the URL and the first `j` parameters. `ParsedIsAbout` puts them
  together; where in the stream the text is, `RestIsBody` says.
* `TypeCorrect`.

### The build scripts

* `ClangTidyProofs!ZeroIsClean` (`ZeroMeansAllClean`): the files taken are an
  interval (`QueueIsRecent`), each is in the hands of one worker or done with
  (`JobsAreOwn`, `TakenAreHandled`), and `unfinished_tasks` counts queue and busy
  workers exactly (`CountIsExact`), so that `join` returns only when all are done.
  A worker that died keeps its file forever, and `join` never returns.
* `CpplintProofs!AllVerdictsAreOwn` (`VerdictsAreOwn`): what is printed of a file
  is decided by the filters of the command line and of the configurations above
  the file, and by the file's own NOLINTs, whatever files came before. `IInv`
  says it of the state the rules are kept in (`filters` with `filters_backup`, the
  suppressions, which only grow along a file), `RunInv` of the errors. A checker
  may raise an error for a line it saw earlier, as for the head of a function; a
  NOLINT there must have been read by now, so `CheckersInv` says of each
  checker's state that the lines it remembers are lines it has seen. `LineType`
  and `EndType` say that a line and the end of a file keep this and raise errors
  of such lines only; `JudgedAreOwn`, `GuardVerdictsAreOwn` and
  `StartVerdictsAreOwn` what the verdicts on them are.
* `TypeCorrect` (`TypeOK`): among it that `include_list` is never empty when
  `ResetSection` replaces its last section, that a function has no more lines than
  the file up to there, and that `error_count` is the number of errors printed
  (`ReportCounts`).
* `TopLevelIncludesAreRemembered` (`TopLevelIncludesAreKept`): in a file there is one
  list of includes for the file and one for every `#if` so far (`Lists`). `KeptInv`
  says that a listed include outside of every group is in one of the lists there
  were at its line, and that every later line with its path has its error. An
  `#else` empties the last list only, and a group that is open at that line was
  opened later, with a list of its own (`ListsGrow`). `LanguageLists` and
  `LineLists` say what a line does to the lists, `ReportRaises` what becomes of its
  errors.
* `LongFunctionsAreFound` (`LongFunctionsAreReported`): `LengthsInv` says that the
  counter is the number of lines of code behind the last head that no closing brace
  is behind (`Counted`), and that the errors so far are right for the braces so far
  (`SizesRight`). `CountedStep` and `SizeErrors` are the lemmas on a line; that no
  other checker raises such an error is `Others`, the type of all their errors.
* `FilesAreJudgedAlone` (`JudgedAlone`): two files of a command that are the same
  file get the same verdicts. `JudgedInv` says that while a file is processed its
  verdicts and checkers are where a run on this file alone would be after as many
  lines (`OnItsCourse`); `CourseExists` and `CourseStays` are the lemmas on such a
  course of lines.
* `StackIsTheNesting` (`StackFollowsBraces`): `NestedInv` says that the stack is the one
  behind the lines that count so far (`StackAt`), and that for every open group the
  saved stacks are those behind the line before its `#if` and, when it had an
  `#else`, the line before its first (`Remembers`). `PlainLineCounts`, `PartCounts` and
  `EndCounts` say how the set of lines that count changes at a line (an `#else` takes
  lines away, an `#endif` gives lines back), and `FollowsLine` that
  `UpdatePreprocessor` restores just the stack of the new set. `LineFits` says of the
  rest of `Update` (namespaces, class, access, the loop over the braces) that it takes
  the stack along the braces of the line token by token (`Fits`): all blocks have their
  brace but the top one while its head waits. `SeenBlocks` counts them.

### How recursive definitions are reasoned about

The flattening of log buffers and requests, the parser and the stages of the
header guard are recursive functions. The library's induction theorems take an operator as
parameter and cannot be used; instead a lemma (`FlattensAgree`,
`CompleteSawEmptyLine`, `GuardReadsItsLines`) takes the least place where its
statement fails, which exists because `<` on the naturals is well-founded
(`LeastOf`, `LeastPlace`, `LeastLine`), and contradicts it by one unfolding. That
such a function exists at all is shown the same way (`FlattensExists`,
`ParsesExists`, `ReadsExists`). `CountsUp` is the same argument as a rule, for what
holds at a first place and moves from each to the next. For cpplint the two arguments are one lemma each,
cited for every loop over lines and tokens (the cleansing passes, `TakeBraces`, the
course of a file): `CourseExists`, that a course given by its start and its step
exists, and `CourseStays`, that it stays in a set its start is in and its step
keeps.

### Model-checked only

* All liveness, since fairness is out of the prover's reach: `Terminates`,
  `StopTerminates`, `LastPassWritesAll`, `EveryTimerRuns`, `ClientsAreAccepted`,
  `ClosedIsDestroyed`, `PeerGoneIsDestroyed`, `EveryRequestIsAnswered`, and the
  liveness parts of `Implements`, `ImplementsTimers` and `ImplementsLogQueue`.
* Of cpplint `ElidedIsTheCode`. It holds of the texts the run builds and not of every
  sequence of tokens: a line `*/ /*` in code is misread without a warning. That is
  not what anyone writes, but a theorem would have to say which texts are, or leave
  such lines out one kind after another.

## 5. Plan

All modules planned are written, and every safety invariant of the C++ server and
of run_clang_tidy.py is proved, as are those of cpplint but for `ElidedIsTheCode`.

## 6. Not modelled, and why

* `ThreadPool` gets one endless task per thread, which `Bind` of `EventLoop`
  stands for. `Socket`, `InetAddress` and the client programs under `test/` are
  wrappers and drivers; socket set-up has no state.
* `Write`, `WriteNonBlocking`, `ReadNonBlocking` never run in the server, since
  accepted sockets block and no one calls `write_callback_`. The `Retrieve`
  operations of Buffer other than `RetrieveAll` are used only there.
* The text of responses and log lines, and the rotation and flushing of log
  files, are layout and I/O.
* The checks of cpplint.py that look at one line by itself (spacing, casts,
  braces, ...) are regular expressions without state; their only interleaving with
  the rest is `Error`, which is modelled.
* run_clang_format.py is a loop without state but `had_err`; the CMake files are
  declarative.
* `fd % sub_reactors_.size()` with no sub loops is excluded by `NSubAssumption` and
  listed as a hazard.
