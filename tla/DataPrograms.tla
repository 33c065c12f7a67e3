---------------------------- MODULE DataPrograms ----------------------------
(***************************************************************************)
(* Any one of the small programs of seminars 3 to 6 and 10 that are about  *)
(* data on its way through a buffer, a network, a tree or registers:       *)
(* BufferedWriter, FileCopy, UdpEcho, JsonFs, AssemblyLoops or             *)
(* MemoryBenchmarks.  Which it is, is chosen at the start; the variables   *)
(* of the others do not change.                                            *)
(***************************************************************************)
EXTENDS BufferedWriter, FiniteSets

CONSTANTS
    CopyProgram, BUFFER_SIZE,
    MaxWords, MaxCopies,
    Key, MaxSize,
    LoopProgram, WIDTH, LANES, MaxArray,
    BenchProgram, INTS_PER_CACHE_LINE, MaxElements, MaxStride, MaxNodes, SIDE, Entry

\* The programs FileCopy, AssemblyLoops and MemoryBenchmarks know, a buffer, finitely
\* many names, an int that can count the lanes and the elements of an array, a cache
\* line with room for the four threads of the false sharing, and numbers for bounds.
ASSUME DataAssumption ==
    /\ CopyProgram \subseteq {"basic_io", "sized_io", "error_handling_io", "simple_reprinter",
                             "smart_reprinter", "read_retry"}
    /\ LoopProgram \subseteq {"fib_loop", "fib_rec", "my_sum", "avx_sum", "sum_n"}
    /\ BenchProgram \subseteq {"cache_line_benchmark", "list_traversal", "naive"}
    /\ BUFFER_SIZE \in Nat \ {0}
    /\ IsFiniteSet(Key) /\ MaxSize \in Nat
    /\ WIDTH \in Nat /\ WIDTH > 1
    /\ LANES \in 1 .. 2 ^ (WIDTH - 1) - 1 /\ MaxArray \in 0 .. 2 ^ (WIDTH - 1) - 1
    /\ INTS_PER_CACHE_LINE \in Nat /\ INTS_PER_CACHE_LINE > 3
    /\ MaxElements \in Nat /\ MaxStride \in Nat /\ MaxNodes \in Nat
    /\ SIDE \in Nat /\ Entry \subseteq Nat

VARIABLES
    broken, nul,
    client, server, words, toServer, toClient, answers, dropped, copies,
    json_data, todo, files, dirs, path, offset, whole,
    argument, array, reg, stack, R,
    args, shuffled, touched, operations, next, seen, product

Copy  == INSTANCE FileCopy
Udp   == INSTANCE UdpEcho WITH lost <- dropped
Tree  == INSTANCE JsonFs
Loops == INSTANCE AssemblyLoops WITH n <- argument, x <- array
Bench == INSTANCE MemoryBenchmarks

fileVars   == <<total, taken, buffer, done, output>>
writerVars == <<string, lost>>
copyVars   == <<broken, nul>>
udpVars    == <<client, server, words, toServer, toClient, answers, dropped, copies>>
treeVars   == <<json_data, todo, files, dirs, path, offset, whole>>
loopVars   == <<argument, array, reg, stack, R>>
benchVars  == <<args, shuffled, touched, operations, next, seen, product>>
allVars    == <<program, pc, fileVars, writerVars, copyVars, udpVars, treeVars, loopVars,
                benchVars>>

Buffering == program = "buffered_perf"
Copying   == program \in CopyProgram
Echoing   == program = "udp"
Mounting  == program = "fuse_json"
Computing == program \in LoopProgram
Measuring == program \in BenchProgram

\* The variables of a program that does not run.
Unused == 0
NoFile ==
    total = Unused /\ taken = Unused /\ buffer = Unused /\ done = Unused /\ output = Unused
NoWriter == string = Unused /\ lost = Unused
NoCopy   == broken = Unused /\ nul = Unused
NoUdp ==
    /\ client = Unused /\ server = Unused /\ words = Unused /\ toServer = Unused
    /\ toClient = Unused /\ answers = Unused /\ dropped = Unused /\ copies = Unused
NoTree ==
    /\ json_data = Unused /\ todo = Unused /\ files = Unused /\ dirs = Unused
    /\ path = Unused /\ offset = Unused /\ whole = Unused
NoLoop ==
    argument = Unused /\ array = Unused /\ reg = Unused /\ stack = Unused /\ R = Unused
NoBench ==
    /\ args = Unused /\ shuffled = Unused /\ touched = Unused /\ operations = Unused
    /\ next = Unused /\ seen = Unused /\ product = Unused

DataInit ==
    \/ Init /\ NoCopy /\ NoUdp /\ NoTree /\ NoLoop /\ NoBench
    \/ Copy!Init /\ NoWriter /\ NoUdp /\ NoTree /\ NoLoop /\ NoBench
    \/ /\ Udp!Init /\ pc = Unused
       /\ NoFile /\ NoWriter /\ NoCopy /\ NoTree /\ NoLoop /\ NoBench
    \/ /\ Tree!Init /\ pc = Unused
       /\ NoFile /\ NoWriter /\ NoCopy /\ NoUdp /\ NoLoop /\ NoBench
    \/ Loops!Init /\ NoFile /\ NoWriter /\ NoCopy /\ NoUdp /\ NoTree /\ NoBench
    \/ Bench!Init /\ NoFile /\ NoWriter /\ NoCopy /\ NoUdp /\ NoTree /\ NoLoop

DataNext ==
    \/ /\ Buffering /\ Next
       /\ UNCHANGED <<copyVars, udpVars, treeVars, loopVars, benchVars>>
    \/ /\ Copying /\ Copy!Next
       /\ UNCHANGED <<writerVars, udpVars, treeVars, loopVars, benchVars>>
    \/ /\ Echoing /\ Udp!Next
       /\ UNCHANGED <<pc, fileVars, writerVars, copyVars, treeVars, loopVars, benchVars>>
    \/ /\ Mounting /\ Tree!Next
       /\ UNCHANGED <<pc, fileVars, writerVars, copyVars, udpVars, loopVars, benchVars>>
    \/ /\ Computing /\ Loops!Next
       /\ UNCHANGED <<fileVars, writerVars, copyVars, udpVars, treeVars, benchVars>>
    \/ /\ Measuring /\ Bench!Next
       /\ UNCHANGED <<fileVars, writerVars, copyVars, udpVars, treeVars, loopVars>>

(* A program that runs alone takes its steps, and what it calls returns.  Of *)
(* the UDP programs each takes its own; nobody has to lose, repeat or send   *)
(* anything.                                                                 *)
DataSpec ==
    /\ DataInit /\ [][DataNext]_allVars
    /\ WF_allVars(~Echoing /\ DataNext)
    /\ WF_allVars(Echoing /\ Udp!Client /\ DataNext)
    /\ WF_allVars(Echoing /\ Udp!Server /\ DataNext)
-----------------------------------------------------------------------------
(* Properties *)

\* Whatever read() and write() return, what is written is the beginning of the
\* input; all that fits into the buffer if a program that checks write() exits
\* with 0, and up to the first NUL byte of it if read_retry's output did not fail.
\* The exception is simple_reprinter.c after an error.
CopiesTheStart == Copying => Copy!CopiesTheStart

\* The answers come in step with the words unless a datagram is repeated.
AnswersInStep == Echoing => Udp!AnswersInStep

\* fuse_json.py's files and directories are the JSON file.
TreeFaithful == Mounting => Tree!TreeFaithful

\* The assembly returns the numbers it is for, and the registers it must keep.
LoopsCompute == Computing => Loops!LoopsCompute

\* The benchmarks touch what they report and no more, but for the stride.
BenchmarksSound == Measuring => Bench!BenchmarksSound

Over ==
    \/ Buffering /\ pc = "end"
    \/ Copying /\ Copy!Ended
    \/ Echoing /\ client = "end"
    \/ Mounting /\ Tree!Mounted
    \/ Computing /\ Loops!Ended
    \/ Measuring /\ Bench!Ended

\* sized_io.c goes round for ever without a descriptor, and the UDP client waits
\* for ever for an answer that is lost.
Stuck ==
    \/ Copying /\ Copy!Spins
    \/ Echoing /\ Udp!Waits

\* Each program comes to its end, whatever its calls return, and there are only
\* these two ways to get stuck.
DataProgramsEnd == <>[](Over \/ Stuck)
=============================================================================
