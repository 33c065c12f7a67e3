# Verification of the seminar programs

`src/` holds the programs of an operating-systems course: each seminar has a
notebook (`main.ipynb`) and a directory of short C, C++ or assembly programs the
notebook builds and runs. There is no single application. What carry most logic of
their own are the network servers of seminar 10, the lock-free stack and the
condition variable of seminar 8; each has a module, runs and theorems of its own. The small programs of seminars 3 to 10 have a module per family, and share
two runs in which any one of them is executed. Where a
notebook builds one of them it does so with plain `gcc`, without optimisation; that
is the build the models describe, except where said otherwise.

## Inventory

| part | state | operations | interacts by | hard behaviour | correct if |
|---|---|---|---|---|---|
| epoll echo server (`sem10…/epoll/server_epoll.c`) | `fd_data` per connection, `pending_events`, epoll's interest and ready lists, the sockets | `main` loop, `process_epoll_event`, `read_buff`, `write_buff`, `close_connection` | non-blocking sockets, edge-triggered epoll | events stale when processed, lost edges, partial reads and writes, a buffer that fills, resets, SIGPIPE, no descriptors left | bytes come back in order; no edge lost; no freed `fd_data` followed; buffer in bounds |
| sequential echo server (`tcp/tcp_server.c`) | `msg`, one connection, the backlog | `accept`, `read_message`, `write_message` | blocking sockets | stream without message borders, partial writes, a peer that stays or resets | everything read is echoed before the close; only a client that stays blocks others |
| TCP client (`tcp/tcp_client.c`) | line, `bytes_sent` | read a line, write it, read an answer | the server above | answers cut and glued, both sides in `write()` | never waits for an answer that is not owed |
| forking echo server (`tcp-fork/tcp_server.c`) | descriptors of parent and children, zombies, a pending SIGCHLD | `accept`, `fork`, the loop, `sigchld_handler` | processes, signals, shared descriptors | coalesced signals, handler in the middle of `main`, `fork` failing | no zombie forgotten, no descriptor kept, nobody waits for others |
| lock-free stack (`sem08…/lock-free/stack.c`) | heap nodes, `top` | `stack_push`, `stack_pop`, `stack_destroy`, producer, consumer | compare-and-swap, `malloc`/`free` | ABA, use after free, the empty stack | linearizable LIFO, no leak, no freed node touched |
| condition variable (`condvar/condvar.c`) | `done`, mutex, condition variable | `thread_entry`, `main` | mutex, signal | lost and spurious wake-ups, process exit under running threads | `main` returns, and after the last thread |
| store tests, counters, mutex orders (`faulty/`, `no-sync/`, `mutex-problem/`) | a few shared variables or two mutexes | thread bodies, create/join loop of `main` | memory, mutexes | store buffers, lost increments, deadlock | what the program prints or aborts on |
| UDP server and client (`udp/`) | what the client waits for, datagrams on their way | send a word and wait for an answer; echo what comes | datagrams | loss, repetition, reordering, an empty datagram of somebody else's | an answer is to the word just sent unless a datagram was repeated; stuck only after a loss or once the server has ended |
| signal loops (`sem09…`: `sigaction`, `masks`, `realtime`, `signalfd`) | a handler's flag or pair of variables, blocked and queued signals | handlers, wait loops, `sigqueue`'s parent | signals | a handler between any two accesses, or in the middle of another handler | what is reported, what is lost and only when |
| pipes (`sem07…/pipe.c`, `sem09…/fifo`) | each process's copies of the pipe's ends, what the pipe holds | fork, redirect, exec, close, read to the end, wait | a pipe, `waitpid()` | an end kept open, `fork()` or `exec` failing, `open()` of a fifo that blocks | children reaped, everything written is read, the parent returns |
| shell (`sem07…/simple_shell.c`) | the shells there are and how far each has read | read a line, fork, exec, wait | inherited stdin | a child that cannot exec falls through into the loop | how often a line is run |
| copied output (`sem07…/fork-buffer.c`, `mmap_shared.c`, `simple_fork.c`) | stdio buffers, a shared mapping, an exit status | print, fork, store, exit, wait | inherited buffers, shared memory | a buffer copied by `fork()` is printed twice | the output the notebook shows |
| low-level I/O (`sem03…`: `buffered_perf.c`, `perf.c`, `basic_io.c`, `sized_io.c`, `error_handling_io.c`, the reprinters) | a buffer, how much of it is written | read and write loops, `buffered_write`, `write_retry`, `close_buffer` | files | partial and failing calls, a line that does not fit, descriptors that are not open | what is written is the input, in order, each byte once; the buffer in bounds; the program ends |
| JSON file system (`sem03…/fuse`) | `files` and `dirs` | `_build_tree`, `getattr`, `readdir`, `read` | FUSE | recursion over nested values, offsets at the end of a file | the tree is the JSON value; reading to the end reads all |
| assembly (`sem04…`: `fib-loop`, `fib-rec`, `memory/sum.s`, `avx-sum`; `sem05…/sum_n`) | registers, stack | loops, a recursion | the C caller's conventions | widths of registers, 0 and negative arguments, blocks of lanes, callee-saved registers | the right number, the caller's registers and stack intact |
| memory benchmarks (`sem06…`: `cache_line_benchmark`, `list_traversal`, `matmul/naive`) | an array, a shuffled list, matrices | one pattern of accesses each | – | bounds of the array, counts derived apart from the accesses | accesses stay inside and are as many as reported |
| the rest: `getaddrinfo`, `alarm`, `create-join`, redirections, `fork-bomb`, `stat` and directory programs, `lseek`, `mmap`/`brk` demos, straight-line assembly, toolchain toys | – | a few library calls in a row | – | – | not modelled, see below |

`PROJECT.json` lists the same parts with their files, and under `hazards` every
place in this code where something can go wrong that a test would hardly reach.

## Modules

| module | models |
|---|---|
| `EchoService` | abstract: what every echo server promises a client – a prefix of what was sent, in order, only within a session |
| `EpollServer` | `server_epoll.c`, its clients and epoll; `MCEpollServer` adds a symmetry set |
| `TcpSession` | one connection of `tcp_server.c`: the loop of `main()`, `read_message`, `write_message`, and the client's side of the socket |
| `TcpServer` | extends `TcpSession`: the accept loop, one connection at a time |
| `ForkServer` | extends `TcpSession`: parent, children, SIGCHLD handler |
| `TcpChat` | extends `TcpSession`: `tcp_client.c` on the other end; `MCTcpChat` names the lines typed |
| `LifoStack` | abstract: a stack whose calls take effect at one instant |
| `LockFreeStack` | `stack.c` with `malloc` handing freed addresses out again |
| `CondVar` | `condvar.c` |
| `PthreadDemos` | `faulty/*.c`, `no-sync/*.c`, `mutex-problem/problem.c` over x86 store buffers |
| `SignalLoops` | `sem09…/sigaction`, `masks`, `realtime`, `signalfd`: handlers as a stack of frames on top of `main()` |
| `PipeProcesses` | `pipe.c` and `fifo.c`: who holds which end of the pipe |
| `Shell` | `simple_shell.c`: the stack of shells that failed commands leave |
| `ForkedOutput` | `fork-buffer.c`, `mmap_shared.c`, `simple_fork.c` |
| `ProcessPrograms` | extends `SignalLoops`, instantiates `PthreadDemos` and the three above: any one of their programs |
| `BufferedWriter` | `buffered_perf.c`: `buffered_write`, `write_retry`, `close_buffer` |
| `FileCopy` | `basic_io.c`, `sized_io.c`, `error_handling_io.c`, `simple_reprinter.c`, `smart_reprinter.c` (both ways of building it that call `read()`) |
| `PerfWriter` | `perf.c`, with and without `_USE_WRITE` |
| `UdpEcho` | `udp_client.c`, `udp_server.c` and the network between them |
| `JsonFs` | `fuse_json.py`: `_build_tree` and the three operations |
| `AssemblyLoops` | the loops of seminars 4 and 5, on registers of twice `WIDTH` bits |
| `MemoryBenchmarks` | which elements the benchmarks of seminar 6 touch, and what they report |
| `DataPrograms` | extends `BufferedWriter`, instantiates the others above but `PerfWriter`: any one of their programs |
| `EpollServerProofs`, `LockFreeStackProofs`, `CondVarProofs` | theorems about the modules they extend |
| `TcpSessionProofs` | lemmas about one connection, which the next two rest on |
| `EchoServersProofs`, `TcpChatProofs` | theorems about the programs at either end of it; the first reads `TcpServer` and `ForkServer` side by side, so that the former's `TurnSpec` and `TurnNext` are named apart from the latter's `Spec` and `Next` |
| `DataProgramsProofs` | theorems about the six modules `DataPrograms` joins; the longest parts are lemmas on counting in blocks, on recursive functions and on numbers of so many bits |
| `ProcessProgramsProofs` | theorems about the five modules `ProcessPrograms` joins |

`ProcessPrograms` and `DataPrograms` are the products of programs that have nothing
to do with each other: the initial state chooses one, and the variables of the
others keep the value `Unused`. They exist so that one model-checking run asks the
same two questions of all of them: is what it produces right, and does it end.

How code becomes actions: an action is one system call, or one access to shared
memory, with the private computation around it. So in `EpollServer` the ways
`read_buff()` can end are `ReadFull`, `ReadSome`, `ReadNothing` and `ReadError`,
each with all of what the caller does next (`EPOLL_CTL_MOD`, `close_connection`);
`Return` is what leaving `process_epoll_event()` does to the loop in `main()`. A
byte is its position in its client's stream, so order, loss and repetition show
as wrong numbers. In `TcpSession` the text matters too (`q` and NUL), and is kept
beside. In the modules of seminar 3 a byte is its position in the input. The kernel – accept queue, receive queue, send buffer, readiness, signals,
mutexes, store buffers, the heap – is external and modelled from what its calls
return; `PROJECT.json` marks those definitions.

Operators that begin with a comment "Deviation:" are not part of the model: each
is a wrong version of the operator after it, the change a plausible bug would
make, and exists to show that a property notices it (`mutants` in `PROJECT.json`).

### Points where the code's behaviour is easy to misread

* `read_buff()` never compacts the buffer. When `buffer_end` reaches `BUFF_SIZE`
  the next read is refused as an error and the connection is closed, even if most
  of the buffer has been written (`ReadFull`, `CutOffOnlyWhenFull`).
* `EPOLLRDHUP` closes the connection before anything is read. A client that sends
  and shuts down at once may get nothing back; `EchoedOrClosed` and
  `ImplementsEcho` allow it, the sequential server does better
  (`AllEchoedBeforeClose`).
* After a FIN, a reset makes `write()` fail with EPIPE and raise SIGPIPE, which
  ends the server. In the epoll server both must fall between `epoll_wait()` and
  `write()` (`KilledOnlyInWindow`); in the sequential server a second write to a
  reset connection is enough, and takes the clients in the backlog with it.
* `sigchld_handler()` loops, and has to: two children may share one SIGCHLD.
* A SIGINT is lost in one window only: its handler runs after `printf` and before
  `received_sigint = 0`. One that falls between the test and `pause()` stays in the
  flag and is reported with the next (`SignalLostOnlyBeforeReset`).
* In `sigqueue_demo.c` a handler interrupted by another real-time signal's finishes
  last and stores the older value beside the newer number; only the parent's
  `sleep(1)`, a matter of timing, keeps signals apart (`SignalsExactUnlessCrowded`). Which
  of the two arguments of `printf` is read first is left open, as C does.
* The stack's compare-and-swap takes `top->prev` as an argument, read before the
  swap. With several consumers this reads freed memory (`NoUseAfterFree` fails);
  with the one consumer of `main()` an address may come back only after that
  consumer freed it, so ABA cannot hit its own pop.
* A child of `simple_shell.c` whose `execvp()` fails becomes a second shell. With
  input from a pipe it has its own copy of what stdin had buffered, so each later
  line is run by both: `2^k` times after `k` lines that name no command. On a
  terminal the shells share the input, and the user has to end each of them
  (`RunsPerFailure`).
* `buffered_perf.c` ignores the result of `write_retry()`. What a failed `write()`
  did not take is dropped, but nothing is repeated or put out of order
  (`StreamKept`). Lines no longer than the buffer are a stated precondition
  (lines 57-59), and an assumption of the module.
* `perf.c` built with `_USE_WRITE` prints the whole of `getline()`'s buffer for each
  line (a finding, below).
* `sized_io.c` tells neither end of file from an error nor a descriptor from -1: with
  one that is not open it spins for ever. A status of 0 says that all was copied of
  `sized_io.c` and `error_handling_io.c` only, which look at what `write()` returns. It says
  nothing of `basic_io.c`, which looks at nothing, nor of the reprinters: `printf()` puts the
  buffer out when the program ends, nobody sees that fail (`broken` then holds
  `"output"`), and `%.*s` stops at a NUL byte of the data (`printable`, `CopiesTheStart`).
* The UDP server takes an empty datagram for an error and ends; its client waits
  without a timeout (`DataProgramsEnd`).
* `fib-loop` and `sum_n` compare the whole register: a negative `int`, whose upper half
  the caller left 0, is a large count. `sum_n(0)` is 1, for the test is at the end.
  `avx-sum` takes blocks off the end of aligned arrays and loads them with `vmovaps`: unless
  their length is a multiple of the lanes the first load faults (`LoadFaults`), and a
  length of 0 adds one block in front of the arrays. The two `fib` of seminar 4 are not
  the same function: the recursion returns for `n` what the loop returns for `n - 1`,
  though the notebook offers them as two ways of writing one (`main.ipynb:391`, `456`); the
  C programs pass 8 to the loop and 7 to the recursion (all in `LoopsCompute`).
* `benchmark_stride()` takes a size in elements and is passed one in bytes
  (`cache_line_benchmark.cpp:167`), so it runs past the array; the other patterns stay
  inside (`BenchmarksSound` excepts it by name). `avx_line` is in the usage text
  only: `main()` does not know it.

## Runs

| run | configuration | shows |
|---|---|---|
| `epoll_two` | `EpollTwo.cfg` | two connections in one batch, buffer of 3, 4 bytes: fills, empties, overflows. Types, buffer discipline, no use after free, no edge lost, SIGPIPE window, EPOLLOUT watched exactly while owed, cut-off only when full, refinement of `EchoService` |
| `epoll_live` | `EpollLive.cfg` | two clients, one descriptor: `accept()` fails while it is out. Echo, hang-up and backlog progress |
| `tcp` | `TcpServer.cfg` | two clients in turn: nothing dropped before close, refinement, echo progress and who blocks whom |
| `fork` | `ForkServer.cfg` | two children, parent and handler: zombies, descriptors, independence of clients |
| `chat` | `Chat.cfg` | client program and server loop, three lines out of `q`, `x`, `qx`, `xxq` |
| `chat_quit` | `ChatQuit.cfg` | violation: quitting needs no single `q` |
| `stack` | `Stack.cfg` | two producers, one consumer, three addresses, a node left over |
| `stack_empty` | `StackEmptyPop.cfg` | violation: popping an empty stack |
| `condvar` | `CondVar.cfg` | four threads |
| `processes` | `ProcessPrograms.cfg` | seventeen programs of seminars 7 to 9: six signal loops, six thread programs, two pipes, the shell, three that print around `fork()` |
| `data` | `DataPrograms.cfg` | seventeen programs of seminars 3 to 6 and 10: six that copy, the buffered writer, UDP, the file system, five loops in assembly, three benchmarks |
| `perf_write` | `PerfWrite.cfg` | violation: `perf.c` with `_USE_WRITE` prints more than it reads |

Some properties join what belongs to one question. `Responsive` of `epoll_live` is three
leads-to properties: echo, hang-up, backlog; `ServesInTurn` of `tcp` is echo progress
and the queue's; `NobodyLeftBehind` of `fork` is that zombies are reaped and that
clients do not wait for each other; `Terminates` of `stack` is that everybody ends
with no node left allocated. `ProgramsEnd` and `DataProgramsEnd` say of each program
that it ends, and name the only states in which one is stuck for ever: the two threads
of `problem.c`, `fifo.c` after a failed `fork()`, `sized_io.c` on a descriptor that is
not open, and a UDP client whose datagram was lost or whose server has ended.

### Bounds, and why they are enough

* `MaxBytes`, `n_pushes`, `n_pops`, `MaxLines`, `Rounds`, `Iterations` and
  `MaxSent` bound the input. The programs treat each further unit like the last: what matters is that
  the buffer (4, or 3 with two clients) fills, is emptied and reused, that a
  message is longer than `msg` (two bytes and a NUL) and than the send buffer (1),
  and that addresses are reused (four pushes, three addresses).
* `SNDBUF` 1 or 3 gives full and partial writes. `CAP` 2 lets a line block half
  written. `MAX_EVENTS` 1 against two sources makes epoll choose; 2 makes one batch
  hold two events. `MAX_FDS` 1 makes `accept()` fail.
* `capacity` 4 with `MaxLine` 3 and `MaxInput` 6: lines that fit, fill the buffer exactly
  and are cut, at least twice, and a remainder for `close_buffer()`; the theorem lifts
  all three. `BUFFER_SIZE` 4 against inputs of 0 to 6: shorter than the buffer, as long,
  longer; the first NUL byte is at each place, or nowhere; a theorem lifts all of it. `FirstAlloc` 3 against lines of up to 4: `getline()` enlarges its buffer once.
* `WIDTH` 4 and `LANES` 2: every `int` of 4 bits is an argument, so signs, wrap-around
  and the boundary values all occur; arrays of 0 to 5 are whole blocks, none, or have a
  part of one; a theorem lifts all three. `INTS_PER_CACHE_LINE` 4, `MaxElements` 10, `MaxStride` 3: two full lines and a
  part, strides that divide the size and that do not; `MaxNodes` 4; matrices of `SIDE` 2 with
  entries 0, 3 and 7, of which a sum of products leaves an `int` of 4 bits. All lifted, too.
* `MaxWords` 3 and `MaxCopies` 2 let an answer be two words late; a theorem lifts both. `Key` {a, b}, three levels
  of nesting and scalars of length up to `MaxSize` 2 give empty, flat and mixed objects
  and lists; a theorem lifts the names and sizes, not the depth.
* `CAP` 2 and `MaxOutput` 3 fill the pipe. `MaxShellLines` 4 allows three failed commands
  before a line. Theorems lift all three.
* Two clients suffice where clients interact: through the batch, the backlog, the
  descriptor limit or the shared SIGCHLD. The server keeps nothing else across
  connections. The theorems lift the bounds for the three servers and `TcpChat` (any
  clients, lines and sizes), for `CondVar` (any number of threads) and for
  `LockFreeStack` (any producers, addresses and pushes; one consumer, as in `main()`).
* `Iterations` 2: `main()` clears the variables before each round, so a second
  round shows all that a thousandth could.
* `THREADS_COUNT` 2 and `Rounds` 3: the lowest outcome of a racing counter, two,
  is reached with two threads and at least two rounds. The theorems lift these three bounds.

Runs switch TLC's deadlock check off because every one of these systems may
legitimately stop: servers with no client left to connect, programs that have
ended, the deadlock `problem.c` demonstrates, and both sides of a chat in
`write()`. Where stopping would be wrong a liveness property says so.

### Fairness

* A process or thread that can take a step takes one (`WF`): the scheduler.
* `EpollServer`: `epoll_wait()` reports each source that stays hot in the end
  (`SF` per source); it keeps a ready list and rotates it. A client takes the echo
  it is sent (`WF` of `Drain`). Nothing obliges a client to send, shut down or
  connect.
* `ForkServer`: a pending signal is delivered (`WF` of the handler).
* `CondVar`: a thread for which the mutex is free again and again gets it (`SF`);
  spurious wake-ups are never owed.
* `LockFreeStack`: a weak compare-and-swap does not fail by itself for ever (`SF`
  of the successful swap). With a bounded number of pushes this is not the same as
  saying the loser always wins: it may lose to every other push.
* `SignalLoops`: `main()` and handlers run, and what is pending and not blocked is
  delivered (`WF`). Nobody is obliged to send a signal.
* `PthreadDemos`: threads are scheduled and store buffers drain. Mutexes need `WF`
  only: nobody locks one twice in a round.
* `ProcessPrograms`: the two above, and for the pipes, the shell and the printing
  programs `WF` of the whole step: their runs are finite, so that somebody moves while
  somebody can is all that is needed.
* `DataPrograms`: `WF` of the step of a program that runs alone, which says that its
  calls return; an error that is retried is no step, so one that lasts for ever is
  not considered, but for descriptors that are not open. Of the UDP programs each has
  its own `WF`. Nobody has to lose, repeat or send a datagram, nor to deliver one late:
  what is on its way and never lost can be received.

## What is proved

`CondVarProofs`, for every `NUMTHREADS` > 0 (`CondVarAssumption`): types, `done`
counts the threads that made their increment, `main()` never sleeps past the last
signal, and it returns only when every thread is past its critical section. None of
these is inductive alone. `Inv` adds `Owner` (who is in the critical section owns
the mutex), `ReadIsFresh` (the value read in `done++` is still current when it is
written) and `Unborn` (threads not yet created have not begun). `done = NUMTHREADS`
then means all threads are counted (`CountedFinite`), and since `main()` holds the
mutex none of them is still in its critical section.

`EpollServerProofs`, for every set of clients and every `BUFF_SIZE`, `SNDBUF`,
`MAX_EVENTS` > 0 (`EpollAssumption`): types; `fd_data` holds exactly the bytes read
and not yet written; no freed `fd_data` is followed; EPOLLOUT is watched exactly
while bytes are owed; SIGPIPE only in the window; a live client is cut off only on a
full buffer; and `Spec => ImplementsEcho`. The inductive invariant joins `Types`
(with `Focus`: the event being processed is in the batch and showed no hang-up),
`Buffers` (with the send buffer's bound), `Queue` (the accept queue holds each
waiting client once), `Held` (who is in the batch, the ready list or the interest
table is open) and `HangupSeen`; each part has a lemma for its step. The refinement
maps each step to a step of `EchoService` or a stutter.

`EdgesNotLost` says what an edge-triggered loop has to make sure of: an open connection
with something to read, to write or to hang up is in the ready list, or the event is in
the batch, shows it, and is not yet past the call that would see it. It is inductive with
the parts above and one more, `Idle`: in `epoll_wait()` no event of the last batch is left
over. `EdgeWakes` and `RegisterWakes` are what epoll adds to the ready list.

`LockFreeStackProofs`, for any producers, addresses and pushes (`StackAssumption`) and one
consumer whose empty pop returns NULL (`AsInMain`, a hypothesis of the theorems: with a
second consumer, or another value, TLC finds both violated): `NoUseAfterFree` and
`ImplementsLifo`. The invariant: `Linked`, the `prev` pointers from `top` on are the chain,
without repetition; `ChainAllocated`; `PushOwned`, a node between `malloc()` and its
compare-and-swap is its producer's alone and points to the `top` that was seen; `PopOwned`,
the `top` the consumer has seen is still on the stack – nobody else takes nodes off – so
that its `prev` is still the one read, and what was popped is the consumer's alone;
`Destroying`, `stack_destroy()` has freed the nodes above `curr`. A compare-and-swap that
succeeds therefore removes the node it compared with, whatever addresses came back in
between: ABA does not reach the one consumer. The refinement takes the swaps for the
instants at which calls take effect.

`TcpSessionProofs`, for any clients, lines and sizes (`SessionAssumption`: `msg` holds a byte
beside its NUL, the send buffer one byte), has lemmas only. `Counted`: `msg` is the latest piece of
what was read and the kernel holds no more of the echo than fits. `Answered`: what was
echoed is exactly what was read before this message plus `total_written`, unless the peer
has reset the connection; the loop is left at the end of the stream or at a `q`. `InOrder`:
the echo is the positions from 1 on, in order. `Queue`: the backlog holds whoever waits, once.

* `EchoServersProofs`, of `TurnSpec`: `AllEchoedBeforeClose` and `ImplementsEcho`. The
  invariant is the above.
* `EchoServersProofs`, of `ForkServer`'s `Spec` (`ForkAssumption`): `ZombieNoticed`,
  `SocketReleased`, that a connection with a child is served in full, and the refinement of
  `EchoService`. The invariant adds
  `ParentHolds` (where the parent is and whose socket it has) and `ChildHolds` (a connection
  is in the loop exactly while its child runs and has the socket open). A connection for
  which `fork()` failed is closed without having been served (`Refused`); only for the others
  does `Answered` hold.
* `TcpChatProofs` (`ChatAssumption`: no line is empty, `fgets()` returns none): `AnswerOwed`,
  `BlockedOnlyWhenFull`, and that what comes back is what was written, in order. The invariant adds
  `Ahead`: a client in `read()` has sent more than it has been answered, because one `read()`
  takes no more than the lines before have brought.

`DataProgramsProofs`, of the whole of `DataSpec`, whichever program runs:

* `StreamKept`, for every `capacity`, `MaxLine` and `MaxInput` (`WriterAssumption`: a line is
  no longer than the capacity). The invariant says where things are: `Placed`, buffer and
  unwritten line are neighbouring runs of the input that end where it was read up to;
  `Written`, the output rises, has come no further than the first byte not yet written and,
  as long as no `write()` failed for good, is everything before it; `Points`, what
  `getline()`, the flush and the end rely on. Below it are lemmas about runs of the
  input: two that meet make one, a part of one is one, a rising sequence goes on rising
  with the run behind it.
* `CopiesTheStart`, for every `BUFFER_SIZE` > 0 (`DataAssumption`), length of the input and place
  of its first NUL byte: `Gathered`, the buffer is the beginning of the input, filled by the
  programs that loop; `PutOut`, the output is the beginning of the buffer, and what
  `read_retry` prints on an output that does not fail ends at the NUL byte only.
* `AnswersInStep`, for any number of words and copies: `Alternate`, a word is sent only after
  an answer; `OneOnItsWay`, with nothing repeated there is one datagram under way at most,
  that of the word waited for; and `SurplusCopied`, which counts: answers and datagrams
  under way, less the different words among them, are no more than the copies made. Each
  step of the server, the client and the network moves one datagram, drops one or, for one
  copy, adds one (`OneMore`, `OneLess`).
* `BenchmarksSound`, for any array, stride, shuffle and line of more than three ints
  (`DataAssumption`; the four threads of the false sharing each have an int of it), any number
  of nodes, and matrices of any size with any entries. Each of the three has an invariant
  (`LinesInv`, `ListInv`, `MatrixInv`). Both products add the same numbers in the same order,
  so that a sum which overflows does so alike (`FastIsNaive`); the rest is
  counting. `MultiplesCount`: as many multiples of `L` lie below `n` as `n` holds whole
  `L`s, and one more if a part is left; `OnePerBlock` and `FourPerBlock` count the ints touched
  in each line, `WholeBlocks` that the blocks together are the array. `EveryNode`: a list
  linked along a permutation visits all of it.
* `TreeFaithful`, for every finite set of names and every size. `CallsRight`: each pending
  `_build_tree()` has a directory and the value of its path; `DirsRight`: a directory is still
  waiting for its call or lists its value's names, each of which can be found; `FilesRight`, and
  `ReadSoFar`, what was read is inside the file and at its end if nothing came. A tree of one
  scalar makes no files (`OnlyScalar`).
* `LoopsCompute`, for every width of `int` of at least two bits, and lanes and lengths that fit
  one. The invariants say which step of the definition the registers are at: two
  numbers in a row and how many are left (`FibLoopInv`), the sum up to `x2` (`SumNInv`), up to
  the element read (`MySumInv`). `AvxInv`: the results from `low` on are there, and once a block has
  been added `low` and the length are multiples of the lanes, so that only the first load can
  fault. For the recursion
  `Frames` ties the stack to the arguments: a frame's saved `r12` is one less than the argument
  of the frame below, and the saved `r13` of a second call is what the first has
  returned, so that every return adds the right two numbers and the last finds its
  caller's registers. Below are lemmas on remainders: a sum may be reduced before or after
  it is made (`WrappedSum`), and what a register drops does not change the `int` in
  it (`IntOfWrapped`), so that overflow on the way does no harm.

`ProcessProgramsProofs`, of the whole of `ProgramsSpec`, whichever program runs
(`SignalAssumption`, `ProgramsAssumption`: a program is one of those modelled, `CAP`,
`MaxSent` and `MaxOutput` are numbers, there is a thread that increments and it does so
at least twice, since one increment alone makes a counter of one):

* `SignalLostOnlyBeforeReset`: as long as a SIGINT that was sent has not been reported, it is
  pending, in its handler or in the flag, but for one whose handler came to `main()`'s reset
  (`Remembered`); who sleeps has no handler running (`Quiet`), and `handledAt` remembers
  the reset while a handler runs on top of it (`LateHandler`).
* `SignalsExactUnlessCrowded`: until two signals meet, there is at most one at a time
  between the parent and the line it is printed on. `QueueInv` says for each place it can be
  (pending, in the handler, in `last_signal` and `last_value`, half read by `printf()`) that what
  was printed is the numbers before it.
* `PipelineReaped`: `Places` and `Reaping` tie each child's place to the parent's and to the
  `fork()` that failed, whose -1 makes `waitpid()` take any child; `WriteEnds`, the first child
  is the last that holds a write end; `Through`, what went in is what came out and what is
  still inside, and nothing is once the reader has seen the end.
* `PrintsAsShown`: `ParentWaits`, `ChildTalks` and `ParentTalks` say for each place of parent
  and child what a process has emitted, which is the output and its own buffer behind it: where
  the buffer is flushed makes no difference to that, on a terminal or in a pipe.
* `ThreadOutcomes`, for any `THREADS_COUNT`, `Rounds` and `Iterations`: `Tested`, what a thread of
  `atomic.c` or `mutex.c` has stored is in memory or in its own buffer, where nothing else is,
  and of two that have loaded one has seen the other's store (`OneSeen`); `Exclusive`, a thread is
  between lock and unlock exactly while it owns the mutex, and outside its buffer is empty, so that
  whoever locks second finds the first one's store in memory. The counters are compared with `Made`,
  the set of the increments made so far: `Incremented`, the atomic one is its size; `Counted`, no
  value loaded, buffered or in memory exceeds it, none is 0 once its thread has stored, and
  who stores later than its first round stores two at least. `Numbered`, a thread's number
  is in its cell before the thread is created.
* `RunsPerFailure`, for every input. A shell is known by the bad lines at which it or
  an ancestor was the child (`Origin`): the shells still there owe line `d` one run for each
  set of bad lines before it that agrees with the origin of one of them up to where
  it has read (`Owed`). `FromPipe`: what was run and what is owed add up to the number of
  those sets, a power of two by the library's count of subsets. Reading a
  good line, forking at a bad one and returning at the end each move a set from one to
  the other or change neither. On a terminal all shells are behind the same line (`FromTerminal`).

Recursion: the powers of two, the Fibonacci numbers, the alternating sum and the value at a path
are recursive functions, for which the provers have no induction rule to apply. What is said of all
their values is proved of the least one it might fail for (`LeastNumber`, which rests on the
library's facts on well-founded relations), or, for powers, by counting subsets. Those
functions are what `LoopsCompute` and `TreeFaithful` compare with.

What `DataAssumption` asks beside a buffer that is not empty is what the code or its platform
has: finitely many names, a cache line of more than three ints, an `int` of at least two bits,
and fewer lanes and array elements than the largest `int`.

TLC has checked each of these invariants on the run of its module, too, with the two
functions chosen in `LoopInv` written as recursive ones.

Only model-checked:

* all liveness (`Responsive`, `ServesInTurn`, `NobodyLeftBehind`, `ChatEnds`, `Terminates`,
  `Returns`, `BlockedSignalReported`, `ProgramsEnd`, `DataProgramsEnd`): the prover handles
  neither fairness nor ENABLED. Every other property a passing run checks is also a theorem.

## Findings

* `stack_pop()` has no return for the empty stack (`stack.c:49`), while
  `consumer()` relies on NULL (`stack.c:68-69`). Without optimisation the return
  register happens to hold the NULL just compared; gcc 12 at -O3 returns 1. The
  passing runs use what the course's build does (`EmptyPop = {NULL}`), the run
  `stack_empty` lets the value be anything.
* The client says `single 'q' to quit` (`tcp_client.c:42`); the server compares
  whatever one `read()` returned (`tcp_server.c:107`), so a line that starts with
  `q` and arrives in two pieces ends the session.
* `perf.c` with `_USE_WRITE` passes `len`, the size of `getline()`'s buffer, to `write()` instead
  of the length of the line (`perf.c:17`); the notebook says that the program reads the
  lines and sends them to stdout (`main.ipynb:1021`).

## Not modelled

Socket set-up (`socket`, `bind`, `listen`, address parsing) is the initial state:
each call's failure ends the program. Log output is left out, and with it one thing that
can go wrong: the epoll server prints `data->buffer` with `%s` (`server_epoll.c:200`), though
no NUL stands behind what was read. `errno` clobbered by the SIGCHLD handler between a failing
`accept()` and the test of `errno` (`tcp-fork/tcp_server.c:82`, `112`) decides only
whether a message is printed: both branches go on. Failing `close()` and `shutdown()` have
no effect on what follows. Bodies of system calls are reduced to their results. A
failing `epoll_ctl` after `read()` and `EINTR` in the epoll server are not
considered: no handler is installed, and `EPOLL_CTL_MOD` on an open, registered
descriptor does not fail.

Of the small programs these are left out, because they have no state that a sequence of
steps could get wrong: `getaddrinfo`, `stat` and directory programs, `lseek_demo.c`,
`alarm_demo.c`, `create-join.c`, the two redirections of seminar 7, the `mmap` and `brk`
demos of seminar 6 and the straight-line assembly of seminars 4 and 5 are a few calls or
instructions in a row; `fork-bomb.c` has no end; `smart_reprinter.c` with `_USE_SCANF` reads
through the library. The programs of seminars 1, 2 and 11 are inputs for a compiler, a debugger
or a loader, one of them (`helloworld_preprocessed.c`) a compiler's output. The time the
benchmarks measure is the hardware's.

Preconditions the code states or relies on without testing them are assumptions of the
models, each named where it is made: lines of the shell have fewer than ten words
(`args` has no room for more) and its `fork()` succeeds (`RunsPerFailure`), lines of
`buffered_perf.c` fit its buffer, names in the JSON file hold no slash. What somebody else
sends to either UDP program is empty in the model (`SendEmpty`):
`udp_client.c:33-41` takes a datagram from anyone for its answer, so `AnswersInStep` is about
a client that only the server writes to.

## Plan

What is left:

1. a byte sink as an abstract specification of `BufferedWriter` and `FileCopy`, and an
   at-most-once datagram service for `UdpEcho`; their invariants are proved already, so the
   refinements would restate them in terms a caller sees;
2. `lseek_demo.c`, the redirections of seminar 7 and the straight-line assembly, if they ever
   get a state of their own.
