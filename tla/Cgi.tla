-------------------------------- MODULE Cgi --------------------------------
(***************************************************************************)
(* One CGI request: CgiExecutor::execute with the program it starts, the   *)
(* pipes between them and the clock, and HttpController::executeCgi, which *)
(* turns what execute returns into a status.  The server does nothing else *)
(* until execute returns.                                                  *)
(*                                                                         *)
(* The program writes chunks to stdout and stderr in any order, may close  *)
(* either before it ends, may leave a descendant that holds them after it  *)
(* ended, may be stubborn about SIGTERM and need not end at all.           *)
(***************************************************************************)
EXTENDS Naturals, FiniteSets

CONSTANTS
    CGI_TIMEOUT,    \* Common.hpp:8, in seconds
    PipeSize,       \* chunks a pipe holds, no more than one read takes
    MaxOutput       \* bound: chunks the program writes to each stream

ASSUME CgiAssumption == CGI_TIMEOUT \in Nat /\ {PipeSize, MaxOutput} \subseteq Nat \ {0}

VARIABLES
    pc,         \* where execute is
    hasBody,    \* the request has a body
    blank,      \* the chunk of stdout with the blank line, 0 for none
    stubborn,   \* the program ignores SIGTERM
    held,       \* the pipe ends and the temporary file execute has open
    linked,     \* the temporary file has its name
    child,      \* "none", "running", "zombie" or "reaped"
    ends,       \* the streams the program or a descendant has open
    pipe,       \* pipe[s]: chunks written and not yet read
    written,    \* written[s]: chunks written
    taken,      \* taken[s]: chunks read
    ready,      \* readFds: what select reported and has not been looked at
    elapsed,    \* time(NULL) - startTime
    timedOut,   \* timedOut
    faults,     \* history: "pipe", "select", and "out" or "err" for a failing read
    status      \* the status of the response, 0 before there is one

parentVars == <<pc, held, linked, ready, timedOut, faults, status>>
childVars == <<child, ends, pipe, written>>
fixedVars == <<hasBody, blank, stubborn>>
vars == <<parentVars, childVars, fixedVars, taken, elapsed>>

Streams == {"out", "err"}
Pipes == <<{"in0", "in1"}, {"out0", "out1"}, {"err0", "err1"}>>
AllPipes == Pipes[1] \cup Pipes[2] \cup Pipes[3]
ReadEnd(s) == IF s = "out" THEN "out0" ELSE "err0"
Reading == {s \in Streams : ReadEnd(s) \in held}
Spawned == child # "none"

Init ==
    /\ pc = "access"
    /\ hasBody \in BOOLEAN /\ blank \in 0..MaxOutput /\ stubborn \in BOOLEAN
    /\ held = {} /\ linked = FALSE /\ ready = {} /\ timedOut = FALSE /\ faults = {}
    /\ child = "none" /\ ends = {} /\ elapsed = 0 /\ status = 0
    /\ pipe = [s \in Streams |-> 0] /\ written = pipe /\ taken = pipe

-----------------------------------------------------------------------------
(***************************************************************************)
(* execute up to the fork.                                                 *)
(***************************************************************************)
Answer(code) == pc' = "done" /\ status' = code

\* The file exists, or the interpreter is ubuntu_cgi_tester; or neither.
Access ==
    /\ pc = "access"
    /\ \/ pc' = "pipes" /\ UNCHANGED status
       \/ Answer(404)
    /\ UNCHANGED <<held, linked, ready, timedOut, faults, childVars, fixedVars, taken, elapsed>>

\* The first pipe that fails ends the request, with the earlier ones open.
MakePipes ==
    /\ pc = "pipes"
    /\ \/ held' = AllPipes /\ pc' = "spool" /\ UNCHANGED <<faults, status>>
       \/ /\ \E made \in 0..2 : held' = UNION {Pipes[i] : i \in 1..made}
          /\ faults' = faults \cup {"pipe"}
          /\ Answer(500)
    /\ UNCHANGED <<linked, ready, timedOut, childVars, fixedVars, taken, elapsed>>

Spool ==
    /\ pc = "spool"
    /\ \/ ~hasBody /\ pc' = "fork" /\ UNCHANGED <<held, linked, status>>
       \/ /\ hasBody /\ pc' = "fork"
          /\ held' = held \cup {"tmp"} /\ linked' = TRUE
          /\ UNCHANGED status
       \/ /\ hasBody /\ Answer(500)
          /\ held' = held \ AllPipes
          /\ UNCHANGED linked
    /\ UNCHANGED <<ready, timedOut, faults, childVars, fixedVars, taken, elapsed>>

\* Mutant: the temporary file is forgotten when fork fails.
HeldAfterForkFailedKeepingFile == held \ AllPipes

HeldAfterForkFailed == held \ (AllPipes \cup {"tmp"})

HeldByParent == {"out0", "err0"}

Fork ==
    /\ pc = "fork"
    /\ linked' = FALSE
    /\ \/ /\ Answer(500)
          /\ held' = HeldAfterForkFailed
          /\ UNCHANGED <<child, ends>>
       \/ /\ pc' = "loop" /\ child' = "running" /\ ends' = Streams
          /\ held' = HeldByParent
          /\ UNCHANGED status
    /\ UNCHANGED <<ready, timedOut, faults, pipe, written, fixedVars, taken, elapsed>>

-----------------------------------------------------------------------------
(***************************************************************************)
(* The loop that reads both streams until both have ended.                 *)
(***************************************************************************)
\* Mutant: one end of file is enough.
OneStreamEnded == Reading # Streams

StreamsEnded == Reading = {}

\* The end of file is seen when nobody has the write end open, execute included.
HasEnded(s) == s \notin ends /\ (IF s = "out" THEN "out1" ELSE "err1") \notin held
Readable == {s \in Reading : pipe[s] > 0 \/ HasEnded(s)}

\* Mutant: the clock is not looked at.
TooLateNever == FALSE

TooLate == elapsed > CGI_TIMEOUT

LoopTop ==
    /\ pc = "loop"
    /\ \/ StreamsEnded /\ pc' = "close" /\ UNCHANGED timedOut
       \/ ~StreamsEnded /\ TooLate /\ pc' = "close" /\ timedOut' = TRUE
       \/ ~StreamsEnded /\ ~TooLate /\ pc' = "select" /\ UNCHANGED timedOut
    /\ UNCHANGED <<held, linked, ready, faults, status, childVars, fixedVars, taken, elapsed>>

Select ==
    /\ pc = "select" /\ Readable # {}
    /\ ready' = Readable /\ pc' = "read"
    /\ UNCHANGED <<held, linked, timedOut, faults, status, childVars, fixedVars, taken, elapsed>>

\* Nothing to read for a second.
SelectExpires ==
    /\ pc = "select" /\ Readable = {}
    /\ elapsed' = elapsed + 1 /\ pc' = "loop"
    /\ UNCHANGED <<held, linked, ready, timedOut, faults, status, childVars, fixedVars, taken>>

SelectFails ==
    /\ pc = "select"
    /\ pc' = "close" /\ faults' = faults \cup {"select"}
    /\ UNCHANGED <<held, linked, ready, timedOut, status, childVars, fixedVars, taken, elapsed>>

\* read from stdout before stderr; end of file closes the stream.
Read(s) ==
    /\ pc = "read" /\ s \in ready /\ (s = "err" => "out" \notin ready)
    /\ ready' = ready \ {s}
    /\ pc' = IF ready' = {} THEN "loop" ELSE pc
    /\ \/ /\ pipe[s] > 0
          /\ taken' = [taken EXCEPT ![s] = @ + pipe[s]]
          /\ pipe' = [pipe EXCEPT ![s] = 0]
          /\ UNCHANGED held
       \/ /\ pipe[s] = 0
          /\ held' = held \ {ReadEnd(s)}
          /\ UNCHANGED <<pipe, taken>>
    /\ UNCHANGED <<linked, timedOut, faults, status, child, ends, written, fixedVars, elapsed>>

\* A read that fails otherwise than by EAGAIN is taken for the end of the
\* stream: the loop goes on without it.
ReadFails(s) ==
    /\ pc = "read" /\ s \in ready /\ (s = "err" => "out" \notin ready)
    /\ ready' = ready \ {s}
    /\ pc' = IF ready' = {} THEN "loop" ELSE pc
    /\ held' = held \ {ReadEnd(s)} /\ faults' = faults \cup {s}
    /\ UNCHANGED <<linked, timedOut, status, childVars, fixedVars, taken, elapsed>>

(***************************************************************************)
(* After the loop: close, kill after a timeout, and wait for the program   *)
(* in any case, however long it takes.                                     *)
(***************************************************************************)
\* Mutant: nothing is killed.
ChildNotKilled == child

\* SIGTERM.
ChildKilled == IF timedOut /\ ~stubborn THEN "zombie" ELSE child

Close ==
    /\ pc = "close"
    /\ pc' = "wait"
    /\ held' = held \ {"out0", "err0"}
    /\ child' = ChildKilled
    /\ ends' \in IF child' = child THEN {ends} ELSE SUBSET ends
    /\ UNCHANGED <<linked, ready, timedOut, faults, status, pipe, written, fixedVars, taken, elapsed>>

\* executeCgi: 504, 500 for no output, 502 for output without a blank line.
StatusOf(out) ==
    CASE timedOut                -> 504
      [] ~timedOut /\ out = 0    -> 500
      [] ~timedOut /\ out > 0    -> IF blank \in 1..out THEN 200 ELSE 502

Wait ==
    /\ pc = "wait" /\ child = "zombie"
    /\ child' = "reaped"
    /\ Answer(StatusOf(taken["out"]))
    /\ UNCHANGED <<held, linked, ready, timedOut, faults, ends, pipe, written, fixedVars, taken, elapsed>>

-----------------------------------------------------------------------------
(***************************************************************************)
(* The program and the clock.                                              *)
(***************************************************************************)
\* It blocks while the pipe is full.
ChildWrites(s) ==
    /\ s \in ends /\ written[s] < MaxOutput
    /\ s \in Reading /\ pipe[s] < PipeSize
    /\ pipe' = [pipe EXCEPT ![s] = @ + 1]
    /\ written' = [written EXCEPT ![s] = @ + 1]
    /\ UNCHANGED <<parentVars, child, ends, fixedVars, taken, elapsed>>

ChildCloses(s) ==
    /\ s \in ends
    /\ ends' = ends \ {s}
    /\ UNCHANGED <<parentVars, child, pipe, written, fixedVars, taken, elapsed>>

\* It ends, perhaps by SIGPIPE; what stays open is a descendant's.
ChildExits ==
    /\ child = "running"
    /\ child' = "zombie"
    /\ ends' \in SUBSET ends
    /\ UNCHANGED <<parentVars, pipe, written, fixedVars, taken, elapsed>>

Elapse ==
    /\ pc \in {"loop", "select", "read"} /\ elapsed <= CGI_TIMEOUT
    /\ elapsed' = elapsed + 1
    /\ UNCHANGED <<parentVars, childVars, fixedVars, taken>>

Parent ==
    \/ Access \/ MakePipes \/ Spool \/ Fork
    \/ LoopTop \/ Select \/ SelectExpires \/ SelectFails
    \/ (\E s \in Streams : Read(s) \/ ReadFails(s)) \/ Close \/ Wait

Program == ChildExits \/ \E s \in Streams : ChildWrites(s) \/ ChildCloses(s)

Next == Parent \/ Program \/ Elapse

Spec == Init /\ [][Next]_vars

-----------------------------------------------------------------------------
(***************************************************************************)
(* Properties                                                              *)
(***************************************************************************)
\* Shapes; a pipe holds what was written and not read, within its size; the
\* loop looks at the clock often enough to leave a second after the timeout.
TypeOK ==
    /\ pc \in {"access", "pipes", "spool", "fork", "loop", "select", "read", "close", "wait", "done"}
    /\ hasBody \in BOOLEAN /\ blank \in 0..MaxOutput /\ stubborn \in BOOLEAN
    /\ held \subseteq AllPipes \cup {"tmp"} /\ linked \in BOOLEAN
    /\ child \in {"none", "running", "zombie", "reaped"} /\ ends \subseteq Streams
    /\ {pipe, written, taken} \subseteq [Streams -> 0..MaxOutput]
    /\ \A s \in Streams : pipe[s] <= PipeSize /\ written[s] = pipe[s] + taken[s]
    /\ ready \subseteq Streams /\ elapsed \in 0..(CGI_TIMEOUT + 2)
    /\ timedOut \in BOOLEAN /\ faults \subseteq {"pipe", "select"} \cup Streams
    /\ status \in {0, 200, 404, 500, 502, 504}

\* Whichever way execute returns once it has its three pipes, it has closed
\* everything, removed the temporary file and reaped the program.
Released ==
    pc = "done" /\ "pipe" \notin faults
        => held = {} /\ ~linked /\ child \in {"none", "reaped"}

\* A program that wrote a response has it sent from what was read of stdout,
\* and that is all it wrote, however its output, its end of stream and a
\* failing stderr were interleaved.  Two failing calls alone cut it short, the
\* select and the read of stdout, and then the part is answered as if it were
\* the whole: 200 as soon as it has the blank line.
AnswerIsWholeOutput ==
    pc = "done" /\ Spawned /\ ~timedOut
        => /\ status = 200 <=> blank \in 1..taken["out"]
           /\ {"select", "out"} \cap faults = {} => taken["out"] = written["out"]

\* CgiExecutor.cpp:480: after a timeout the child process is ended.
TimeoutEndsChild == timedOut ~> child = "reaped"

-----------------------------------------------------------------------------
(***************************************************************************)
(* Liveness: execute takes its steps; select returns after a second at the *)
(* latest; time passes.  Of the program nothing is assumed.                *)
(***************************************************************************)
FairSpec == Spec /\ WF_vars(Parent) /\ WF_vars(Elapse)

\* execute returns, whatever the program writes, closes or leaves open, if
\* the program heeds SIGTERM and ends once each of its streams was closed,
\* by itself or on it by a failing select or read.
Returns ==
    ~stubborn /\ [](child = "running" /\ (ends \subseteq faults \/ "select" \in faults) => <>(child # "running"))
        => <>(pc = "done")
=============================================================================
