------------------------------ MODULE CgiProofs ------------------------------
(***************************************************************************)
(* Theorems about module Cgi, for every timeout, size of pipes and output. *)
(***************************************************************************)
EXTENDS Cgi, TLAPS

-----------------------------------------------------------------------------
(***************************************************************************)
(* Where execute is says what it has open, what it has started and what it *)
(* has read.                                                               *)
(***************************************************************************)
BeforeFork == {"access", "pipes", "spool", "fork"}
Looping == {"loop", "select", "read"}

\* A second passes in select only if the clock was in time at the loop's top.
ClockInv == pc = "select" => elapsed <= CGI_TIMEOUT + 1

\* The descriptors, the temporary file and the program, at every place where
\* execute may leave off.
HeldInv ==
    /\ pc \in {"access", "pipes"} => held = {}
    /\ pc = "spool" => held = AllPipes
    /\ pc \in {"access", "pipes", "spool"} => ~linked
    /\ pc \in BeforeFork => child = "none"
    /\ pc \in Looping \cup {"close"} => held \subseteq {"out0", "err0"}
    /\ pc = "wait" => held = {}
    /\ pc \in Looping \cup {"close", "wait"} => ~linked /\ child \in {"running", "zombie"}

\* Nothing is left in a stream and nobody can write to it any more.
Drained(s) == pipe[s] = 0 /\ s \notin ends

\* A stream that select reported is read or at its end, and stays so.
ReadyInv ==
    /\ pc # "read" => ready = {}
    /\ \A s \in ready : s \in Reading /\ (pipe[s] > 0 \/ s \notin ends)

\* A stream is closed in the loop only when it is drained or a read of it has
\* failed, and the loop ends early only by a timeout or a failing select.
DrainedInv ==
    /\ pc \in BeforeFork \cup Looping => ~timedOut /\ "select" \notin faults
    /\ pc \in Looping => \A s \in Streams \ (Reading \cup faults) : Drained(s)
    /\ pc \in {"close", "wait", "done"} /\ Spawned /\ ~timedOut /\ "select" \notin faults
       => \A s \in Streams \ faults : Drained(s)

\* The status is the one of what has been read.
StatusInv == pc = "done" /\ Spawned => status = StatusOf(taken["out"])

-----------------------------------------------------------------------------
(***************************************************************************)
(* Type correctness.                                                       *)
(***************************************************************************)
\* A pipe and the two counters of a stream keep their types and their sum when
\* some of what is in the pipe is read, or one more chunk is written.
LEMMA StreamMoves ==
    ASSUME TypeOK, NEW s \in Streams
    PROVE  /\ pipe[s] \in Nat /\ taken[s] \in Nat /\ written[s] \in 0..MaxOutput
           /\ written[s] = pipe[s] + taken[s]
           /\ \A t \in Streams \ {s} : pipe[t] <= PipeSize /\ written[t] = pipe[t] + taken[t]
BY CgiAssumption DEF TypeOK

\* Reading from a pipe moves bytes and makes none.
LEMMA ReadType ==
    ASSUME TypeOK, NEW s \in Streams, Read(s)
    PROVE  TypeOK'
<1>1. MaxOutput \in Nat /\ PipeSize \in Nat
  BY CgiAssumption
<1>2. CASE /\ taken' = [taken EXCEPT ![s] = @ + pipe[s]]
           /\ pipe' = [pipe EXCEPT ![s] = 0] /\ held' = held /\ pipe[s] > 0
  <2>1. taken[s] + pipe[s] \in 0..MaxOutput /\ 0 \in 0..MaxOutput
    BY <1>1, StreamMoves
  <2>2. {pipe', written', taken'} \subseteq [Streams -> 0..MaxOutput]
    BY <1>2, <2>1 DEF Read, TypeOK
  <2>3. ASSUME NEW t \in Streams PROVE pipe'[t] <= PipeSize /\ written'[t] = pipe'[t] + taken'[t]
    <3>1. CASE t = s
      <4>1. pipe'[t] = 0 /\ taken'[t] = taken[s] + pipe[s] /\ written'[t] = written[s]
        BY <1>2, <3>1 DEF Read, TypeOK
      <4> QED
        BY <1>1, <4>1, StreamMoves
    <3>2. CASE t # s
      BY <1>2, <3>2, StreamMoves DEF Read, TypeOK
    <3> QED
      BY <3>1, <3>2
  <2> QED
    BY <1>2, <2>2, <2>3 DEF Read, TypeOK, fixedVars
<1>3. CASE pipe' = pipe /\ taken' = taken /\ held' = held \ {ReadEnd(s)}
  BY <1>3 DEF Read, TypeOK, fixedVars
<1> QED
  BY <1>2, <1>3 DEF Read

\* A program that writes fills a pipe, and no more than a pipe takes.
LEMMA ChildWritesType ==
    ASSUME TypeOK, NEW s \in Streams, ChildWrites(s)
    PROVE  TypeOK'
<1>1. MaxOutput \in Nat /\ PipeSize \in Nat
  BY CgiAssumption
<1>2. pipe[s] + 1 \in 0..MaxOutput /\ written[s] + 1 \in 0..MaxOutput /\ pipe[s] + 1 <= PipeSize
  BY <1>1, StreamMoves DEF ChildWrites, TypeOK
<1>3. {pipe', written', taken'} \subseteq [Streams -> 0..MaxOutput]
  BY <1>2 DEF ChildWrites, TypeOK
<1>4. ASSUME NEW t \in Streams PROVE pipe'[t] <= PipeSize /\ written'[t] = pipe'[t] + taken'[t]
  <2>1. CASE t = s
    <3>1. pipe'[t] = pipe[s] + 1 /\ taken'[t] = taken[s] /\ written'[t] = written[s] + 1
      BY <2>1 DEF ChildWrites, TypeOK
    <3> QED
      BY <1>1, <1>2, <3>1, StreamMoves
  <2>2. CASE t # s
    BY <2>2, StreamMoves DEF ChildWrites, TypeOK
  <2> QED
    BY <2>1, <2>2
<1> QED
  BY <1>3, <1>4 DEF ChildWrites, TypeOK, parentVars, fixedVars

\* TypeOK needs ClockInv for its bound on the clock.
LEMMA TypeInit == Init => TypeOK /\ ClockInv
<1> SUFFICES ASSUME Init PROVE TypeOK /\ ClockInv
  OBVIOUS
<1>1. MaxOutput \in Nat /\ PipeSize \in Nat /\ CGI_TIMEOUT \in Nat
  BY CgiAssumption
<1>2. pipe = [s \in Streams |-> 0] /\ written = pipe /\ taken = pipe
  BY DEF Init
<1>3. \A s \in Streams : pipe[s] = 0 /\ written[s] = 0 /\ taken[s] = 0
  BY <1>2
<1>4. {pipe, written, taken} \subseteq [Streams -> 0..MaxOutput]
  <2>1. 0 \in 0..MaxOutput
    BY <1>1
  <2> QED
    BY <1>2, <2>1
<1>5. \A s \in Streams : pipe[s] <= PipeSize /\ written[s] = pipe[s] + taken[s]
  BY <1>1, <1>3
<1>6. /\ hasBody \in BOOLEAN /\ stubborn \in BOOLEAN /\ linked \in BOOLEAN /\ timedOut \in BOOLEAN
      /\ pc = "access" /\ blank \in 0..MaxOutput
      /\ held = {} /\ child = "none" /\ ends = {} /\ ready = {} /\ faults = {}
      /\ elapsed = 0 /\ status = 0
  BY DEF Init
<1> QED
  BY <1>1, <1>4, <1>5, <1>6 DEF TypeOK, ClockInv

\* Each step keeps the types and the clock's bound.
LEMMA TypeStep == TypeOK /\ ClockInv /\ [Next]_vars => TypeOK' /\ ClockInv'
<1> SUFFICES ASSUME TypeOK, ClockInv, [Next]_vars PROVE TypeOK' /\ ClockInv'
  OBVIOUS
<1>1. CGI_TIMEOUT \in Nat /\ elapsed \in Nat
  BY CgiAssumption DEF TypeOK
<1>2. CASE Access
  BY <1>2 DEF Access, Answer, TypeOK, ClockInv, childVars, fixedVars
<1>3. CASE MakePipes
  <2>1. \A made \in 0..2 : UNION {Pipes[i] : i \in 1..made} \subseteq AllPipes
    <3> TAKE made \in 0..2
    <3>1. \A i \in 1..made : i \in {1, 2} /\ Pipes[i] \subseteq AllPipes
      BY DEF Pipes, AllPipes
    <3> QED
      BY <3>1
  <2>2. held' \subseteq AllPipes
    BY <1>3, <2>1 DEF MakePipes
  <2>3. status' \in {status, 500} /\ faults' \in {faults, faults \cup {"pipe"}} /\ pc' \in {"spool", "done"}
    BY <1>3 DEF MakePipes, Answer
  <2> QED
    BY <1>3, <2>2, <2>3 DEF MakePipes, TypeOK, ClockInv, childVars, fixedVars
<1>4. CASE Spool
  <2>1. /\ held' \subseteq held \cup {"tmp"} /\ linked' \in BOOLEAN
        /\ pc' \in {"fork", "done"} /\ status' \in {status, 500}
    <3>0. linked \in BOOLEAN /\ held \subseteq AllPipes \cup {"tmp"}
      BY DEF TypeOK
    <3>1. CASE ~hasBody /\ pc' = "fork" /\ UNCHANGED <<held, linked, status>>
      BY <3>0, <3>1
    <3>2. CASE pc' = "fork" /\ held' = held \cup {"tmp"} /\ linked' = TRUE /\ UNCHANGED status
      BY <3>2
    <3>3. CASE pc' = "done" /\ status' = 500 /\ held' = held \ AllPipes /\ UNCHANGED linked
      BY <3>0, <3>3
    <3> QED
      BY <1>4, <3>1, <3>2, <3>3 DEF Spool, Answer
  <2> QED
    BY <1>4, <2>1 DEF Spool, TypeOK, ClockInv, childVars, fixedVars
<1>5. CASE Fork
  <2>1. held' \subseteq AllPipes \cup {"tmp"}
    BY <1>5 DEF Fork, HeldAfterForkFailed, HeldByParent, AllPipes, Pipes, TypeOK
  <2>2. /\ linked' \in BOOLEAN /\ pc' \in {"loop", "done"} /\ status' \in {status, 500}
        /\ child' \in {child, "running"} /\ ends' \in {ends, Streams}
    BY <1>5 DEF Fork, Answer
  <2> QED
    BY <1>5, <2>1, <2>2 DEF Fork, TypeOK, ClockInv, fixedVars
<1>6. CASE LoopTop
  <2>1. /\ pc' \in {"close", "select"} /\ timedOut' \in BOOLEAN
        /\ pc' = "select" => ~TooLate
    BY <1>6 DEF LoopTop, TypeOK
  <2> QED
    BY <1>1, <1>6, <2>1 DEF LoopTop, TooLate, TypeOK, ClockInv, childVars, fixedVars
<1>7. CASE Select
  BY <1>7 DEF Select, Readable, Reading, TypeOK, ClockInv, childVars, fixedVars
<1>8. CASE SelectExpires
  BY <1>1, <1>8 DEF SelectExpires, TypeOK, ClockInv, childVars, fixedVars
<1>9. CASE SelectFails
  BY <1>9 DEF SelectFails, TypeOK, ClockInv, childVars, fixedVars
<1>10. ASSUME NEW s \in Streams, Read(s) PROVE TypeOK' /\ ClockInv'
  BY <1>10, ReadType DEF Read, ClockInv
<1>18. ASSUME NEW s \in Streams, ReadFails(s) PROVE TypeOK' /\ ClockInv'
  BY <1>18 DEF ReadFails, TypeOK, ClockInv, childVars, fixedVars
<1>11. CASE Close
  <2>1. child' \in {child, "zombie"} /\ ends' \subseteq ends
    BY <1>11 DEF Close, ChildKilled
  <2> QED
    BY <1>11, <2>1 DEF Close, TypeOK, ClockInv, fixedVars
<1>12. CASE Wait
  <2>1. taken["out"] \in Nat
    BY StreamMoves DEF Streams
  <2>2. StatusOf(taken["out"]) \in {504, 500, 200, 502}
    BY <2>1 DEF StatusOf, TypeOK
  <2> QED
    BY <1>12, <2>2 DEF Wait, Answer, TypeOK, ClockInv, fixedVars
<1>13. ASSUME NEW s \in Streams, ChildWrites(s) PROVE TypeOK' /\ ClockInv'
  BY <1>13, ChildWritesType DEF ChildWrites, ClockInv, parentVars
<1>14. ASSUME NEW s \in Streams, ChildCloses(s) PROVE TypeOK' /\ ClockInv'
  BY <1>14 DEF ChildCloses, TypeOK, ClockInv, parentVars, fixedVars
<1>15. CASE ChildExits
  BY <1>15 DEF ChildExits, TypeOK, ClockInv, parentVars, fixedVars
<1>16. CASE Elapse
  BY <1>1, <1>16 DEF Elapse, TypeOK, ClockInv, parentVars, childVars, fixedVars
<1>17. CASE UNCHANGED vars
  BY <1>17 DEF vars, TypeOK, ClockInv, parentVars, childVars, fixedVars
<1> QED
  BY <1>2, <1>3, <1>4, <1>5, <1>6, <1>7, <1>8, <1>9, <1>10, <1>11, <1>12, <1>13, <1>14, <1>15,
     <1>16, <1>17, <1>18 DEF Next, Parent, Program

\* execute and its program keep their types: pipes hold what was written and
\* not read, and the loop looks at the clock within a second of its timeout.
THEOREM TypeCorrect == Spec => []TypeOK
<1>1. Spec => [](TypeOK /\ ClockInv)
  BY TypeInit, TypeStep, PTL DEF Spec
<1> QED
  BY <1>1, PTL

-----------------------------------------------------------------------------
(***************************************************************************)
(* Everything is released.                                                 *)
(***************************************************************************)
\* HeldInv says, for each place of execute, what the steps from there on have
\* to give back.
LEMMA HeldStep ==
    TypeOK /\ HeldInv /\ Released /\ [Next]_vars => HeldInv' /\ Released'
<1> SUFFICES ASSUME TypeOK, HeldInv, Released, [Next]_vars PROVE HeldInv' /\ Released'
  OBVIOUS
<1> USE DEF BeforeFork, Looping
<1>1. CASE Access
  BY <1>1 DEF Access, Answer, HeldInv, Released, childVars
<1>2. CASE MakePipes
  <2>1. CASE pc' = "spool" /\ held' = AllPipes
    BY <1>2, <2>1 DEF MakePipes, HeldInv, Released, childVars
  <2>2. CASE pc' = "done" /\ "pipe" \in faults'
    BY <1>2, <2>2 DEF HeldInv, Released
  <2> QED
    BY <1>2, <2>1, <2>2 DEF MakePipes, Answer
<1>3. CASE Spool
  BY <1>3 DEF Spool, Answer, HeldInv, Released, childVars
<1>4. CASE Fork
  <2>1. CASE pc' = "done" /\ held' = HeldAfterForkFailed /\ child' = child
    <3>1. held' = {}
      BY <2>1 DEF HeldAfterForkFailed, TypeOK
    <3> QED
      BY <1>4, <2>1, <3>1 DEF Fork, HeldInv, Released
  <2>2. CASE pc' = "loop" /\ held' = HeldByParent /\ child' = "running"
    BY <1>4, <2>2 DEF Fork, HeldByParent, HeldInv, Released
  <2> QED
    BY <1>4, <2>1, <2>2 DEF Fork, Answer
<1>5. CASE LoopTop \/ Select \/ SelectExpires \/ SelectFails
  BY <1>5 DEF LoopTop, Select, SelectExpires, SelectFails, HeldInv, Released, childVars
<1>6. ASSUME NEW s \in Streams, Read(s) \/ ReadFails(s) PROVE HeldInv' /\ Released'
  BY <1>6 DEF Read, ReadFails, HeldInv, Released, childVars
<1>7. CASE Close
  BY <1>7 DEF Close, ChildKilled, HeldInv, Released
<1>8. CASE Wait
  BY <1>8 DEF Wait, Answer, HeldInv, Released
<1>9. ASSUME NEW s \in Streams, ChildWrites(s) \/ ChildCloses(s) PROVE HeldInv' /\ Released'
  BY <1>9 DEF ChildWrites, ChildCloses, HeldInv, Released, parentVars
<1>10. CASE ChildExits
  BY <1>10 DEF ChildExits, HeldInv, Released, parentVars
<1>11. CASE Elapse \/ UNCHANGED vars
  BY <1>11 DEF Elapse, vars, HeldInv, Released, parentVars, childVars
<1> QED
  BY <1>1, <1>2, <1>3, <1>4, <1>5, <1>6, <1>7, <1>8, <1>9, <1>10, <1>11 DEF Next, Parent, Program

\* Whichever way execute returns once it has its three pipes, nothing is left
\* open, no file is left behind and the program is reaped.
THEOREM ReleasedCorrect == Spec => []Released
<1>1. Init => HeldInv /\ Released
  BY DEF Init, HeldInv, Released, BeforeFork, Looping
<1>2. Spec => [](HeldInv /\ Released)
  BY <1>1, HeldStep, TypeCorrect, PTL DEF Spec
<1> QED
  BY <1>2, PTL

-----------------------------------------------------------------------------
(***************************************************************************)
(* An answer is made of the whole output.                                  *)
(***************************************************************************)
\* What a step of the program does to a stream: it is written to only while
\* somebody has it open, and nobody opens it again.
LEMMA ProgramKeepsStreams ==
    ASSUME TypeOK, HeldInv, ReadyInv, DrainedInv, Program
    PROVE  ReadyInv' /\ DrainedInv'
<1>1. UNCHANGED parentVars /\ ends' \subseteq ends /\ (Spawned' => Spawned)
  BY DEF Program, ChildExits, ChildWrites, ChildCloses, Spawned
<1>2. ASSUME NEW s \in Streams
      PROVE  /\ pipe'[s] \in Nat /\ pipe'[s] >= pipe[s]
             /\ Drained(s) => Drained(s)'
  <2>1. CASE ChildExits \/ \E t \in Streams : ChildCloses(t)
    <3>1. pipe' = pipe /\ pipe[s] \in Nat
      BY <2>1, StreamMoves DEF ChildExits, ChildCloses
    <3> QED
      BY <1>1, <3>1 DEF Drained
  <2>2. ASSUME NEW t \in Streams, ChildWrites(t)
        PROVE  pipe'[s] \in Nat /\ pipe'[s] >= pipe[s] /\ (Drained(s) => Drained(s)')
    <3>1. pipe[s] \in Nat /\ t \in ends /\ ends' = ends /\ pipe' = [pipe EXCEPT ![t] = @ + 1]
      BY <2>2, StreamMoves DEF ChildWrites
    <3>2. pipe'[s] = IF s = t THEN pipe[s] + 1 ELSE pipe[s]
      BY <3>1 DEF TypeOK
    <3> QED
      BY <3>1, <3>2 DEF Drained
  <2> QED
    BY <2>1, <2>2 DEF Program
<1>3. ReadyInv'
  <2>1. ready' = ready /\ pc' = pc /\ Reading' = Reading
    BY <1>1 DEF parentVars, Reading
  <2>2. ASSUME NEW s \in ready PROVE s \in Reading /\ (pipe'[s] > 0 \/ s \notin ends')
    <3>1. s \in Streams /\ pipe[s] \in Nat /\ (pipe[s] > 0 \/ s \notin ends) /\ pipe'[s] >= pipe[s]
      BY <1>2, StreamMoves DEF ReadyInv, TypeOK
    <3> QED
      BY <1>1, <1>2, <3>1 DEF ReadyInv
  <2> QED
    BY <2>1, <2>2 DEF ReadyInv
<1>4. DrainedInv'
  <2>1. pc' = pc /\ timedOut' = timedOut /\ faults' = faults /\ Reading' = Reading
    BY <1>1 DEF parentVars, Reading
  <2> QED
    BY <1>1, <1>2, <2>1 DEF DrainedInv
<1> QED
  BY <1>3, <1>4

\* read takes all there is in the pipe, or closes a stream that is at its end.
LEMMA ReadKeepsStreams ==
    ASSUME TypeOK, HeldInv, ReadyInv, DrainedInv, NEW s \in Streams, Read(s)
    PROVE  ReadyInv' /\ DrainedInv'
<1> USE DEF BeforeFork, Looping
<1>1. /\ pc = "read" /\ pc' \in {"loop", "read"} /\ ready' = ready \ {s} /\ (pc' = "loop" => ready' = {})
      /\ s \in ready /\ UNCHANGED <<timedOut, faults, ends>>
  BY DEF Read
<1>2. \A t \in Streams \ {s} : pipe'[t] = pipe[t] /\ (t \in Reading' <=> t \in Reading)
  BY DEF Read, TypeOK, Reading, ReadEnd, Streams
<1>3. pc' # "read" => ready' = {}
  BY <1>1
<1>4. ReadyInv'
  <2>1. ASSUME NEW t \in ready' PROVE t \in Reading' /\ (pipe'[t] > 0 \/ t \notin ends')
    <3>1. t \in ready /\ t \in Streams \ {s}
      BY <1>1, <2>1 DEF TypeOK
    <3> QED
      BY <1>1, <1>2, <3>1 DEF ReadyInv
  <2> QED
    BY <1>3, <2>1 DEF ReadyInv
<1>5. s \in Streams \ Reading' => Drained(s)'
  <2>1. CASE held' = held
    BY <1>1, <2>1 DEF Reading, ReadyInv
  <2>2. CASE pipe[s] = 0 /\ pipe' = pipe
    BY <1>1, <2>2 DEF ReadyInv, Drained
  <2> QED
    BY <2>1, <2>2 DEF Read
<1>6. \A t \in Streams \ (Reading' \cup faults) : Drained(t)'
  BY <1>1, <1>2, <1>5 DEF DrainedInv, Drained
<1> QED
  BY <1>1, <1>4, <1>6 DEF DrainedInv

\* A read that fails closes its stream, drained or not, and is remembered.
LEMMA ReadFailsKeepsStreams ==
    ASSUME TypeOK, HeldInv, ReadyInv, DrainedInv, NEW s \in Streams, ReadFails(s)
    PROVE  ReadyInv' /\ DrainedInv'
<1> USE DEF BeforeFork, Looping
<1>1. /\ pc = "read" /\ pc' \in {"loop", "read"} /\ ready' = ready \ {s} /\ (pc' = "loop" => ready' = {})
      /\ faults' = faults \cup {s} /\ UNCHANGED <<timedOut, ends, pipe>>
  BY DEF ReadFails, childVars
<1>2. /\ \A t \in Streams \ {s} : t \in Reading' <=> t \in Reading
      /\ s \notin Reading' /\ s # "select"
  BY DEF ReadFails, TypeOK, Reading, ReadEnd, Streams
<1>3. pc' # "read" => ready' = {}
  BY <1>1
<1>4. ReadyInv'
  <2>1. ASSUME NEW t \in ready' PROVE t \in Reading' /\ (pipe'[t] > 0 \/ t \notin ends')
    <3>1. t \in ready /\ t \in Streams \ {s}
      BY <1>1, <2>1 DEF TypeOK
    <3> QED
      BY <1>1, <1>2, <3>1 DEF ReadyInv
  <2> QED
    BY <1>3, <2>1 DEF ReadyInv
<1>5. \A t \in Streams \ (Reading' \cup faults') : Drained(t)'
  BY <1>1, <1>2 DEF DrainedInv, Drained
<1> QED
  BY <1>1, <1>2, <1>4, <1>5 DEF DrainedInv

\* Every step keeps what is known of the streams.
LEMMA DrainedStep ==
    TypeOK /\ HeldInv /\ ReadyInv /\ DrainedInv /\ [Next]_vars => ReadyInv' /\ DrainedInv'
<1> SUFFICES ASSUME TypeOK, HeldInv, ReadyInv, DrainedInv, [Next]_vars
             PROVE  ReadyInv' /\ DrainedInv'
  OBVIOUS
<1> USE DEF BeforeFork, Looping
<1>1. CASE Access \/ MakePipes \/ Spool
  <2>1. /\ pc \in BeforeFork /\ pc' \notin Looping \cup {"close", "wait"} /\ UNCHANGED <<child, ready>>
    BY <1>1 DEF Access, MakePipes, Spool, Answer, childVars, BeforeFork
  <2>2. ~Spawned' /\ ready' = {}
    BY <2>1 DEF HeldInv, ReadyInv, Spawned, BeforeFork
  <2>3. pc' \in BeforeFork => ~timedOut' /\ "select" \notin faults'
    BY <1>1, <2>1 DEF Access, MakePipes, Spool, Answer, DrainedInv, BeforeFork
  <2> QED
    BY <2>1, <2>2, <2>3 DEF ReadyInv, DrainedInv
<1>2. CASE Fork
  <2>1. ready' = {} /\ ~timedOut' /\ "select" \notin faults'
    <3>1. ~timedOut /\ "select" \notin faults
      BY <1>2 DEF Fork, DrainedInv
    <3> QED
      BY <1>2, <3>1 DEF Fork, ReadyInv
  <2>2. CASE pc' = "done" /\ child' = child
    BY <1>2, <2>1, <2>2 DEF Fork, HeldInv, BeforeFork, ReadyInv, DrainedInv, Spawned
  <2>3. CASE pc' = "loop" /\ held' = HeldByParent
    BY <2>1, <2>3 DEF HeldByParent, Reading, ReadEnd, Streams, ReadyInv, DrainedInv
  <2> QED
    BY <1>2, <2>2, <2>3 DEF Fork, Answer
<1>3. CASE LoopTop
  BY <1>3 DEF LoopTop, StreamsEnded, Reading, ReadyInv, DrainedInv, Drained, Spawned, childVars
<1>4. CASE Select
  <2>1. ASSUME NEW s \in ready' PROVE s \in Reading' /\ (pipe'[s] > 0 \/ s \notin ends')
    BY <1>4, <2>1 DEF Select, Readable, Reading, HasEnded, childVars
  <2> QED
    BY <1>4, <2>1 DEF Select, Reading, ReadyInv, DrainedInv, Drained, Spawned, childVars
<1>5. CASE SelectExpires
  BY <1>5 DEF SelectExpires, Reading, ReadyInv, DrainedInv, Drained, Spawned, childVars
<1>6. CASE SelectFails
  BY <1>6 DEF SelectFails, ReadyInv, DrainedInv
<1>7. ASSUME NEW s \in Streams, Read(s) \/ ReadFails(s) PROVE ReadyInv' /\ DrainedInv'
  BY <1>7, ReadKeepsStreams, ReadFailsKeepsStreams
<1>8. CASE Close
  <2>1. ends' \subseteq ends
    BY <1>8 DEF Close
  <2>2. Spawned
    BY <1>8 DEF Close, HeldInv, Spawned
  <2> QED
    BY <1>8, <2>1, <2>2 DEF Close, ReadyInv, DrainedInv, Drained
<1>9. CASE Wait
  BY <1>9 DEF Wait, Answer, ReadyInv, DrainedInv, Drained, Spawned
<1>10. CASE Program
  BY <1>10, ProgramKeepsStreams
<1>11. CASE Elapse \/ UNCHANGED vars
  BY <1>11 DEF Elapse, vars, parentVars, childVars, Reading, ReadyInv, DrainedInv, Drained, Spawned
<1> QED
  BY <1>1, <1>2, <1>3, <1>4, <1>5, <1>6, <1>7, <1>8, <1>9, <1>10, <1>11 DEF Next, Parent

\* The status is settled when execute returns.
LEMMA StatusStep ==
    TypeOK /\ HeldInv /\ StatusInv /\ [Next]_vars => StatusInv'
<1> SUFFICES ASSUME TypeOK, HeldInv, StatusInv, [Next]_vars, pc' = "done", Spawned'
             PROVE  status' = StatusOf(taken["out"])'
  BY DEF StatusInv
<1> USE DEF BeforeFork, Looping
<1>1. CASE Wait
  BY <1>1 DEF Wait, Answer, StatusOf, fixedVars
<1>2. CASE Access \/ MakePipes \/ Spool \/ Fork
  BY <1>2 DEF Access, MakePipes, Spool, Fork, HeldInv, Spawned, childVars
<1>3. ASSUME NEW s \in Streams, Read(s) \/ ReadFails(s) PROVE FALSE
  BY <1>3 DEF Read, ReadFails
<1>4. CASE LoopTop \/ Select \/ SelectExpires \/ SelectFails \/ Close
  BY <1>4 DEF LoopTop, Select, SelectExpires, SelectFails, Close
<1>5. CASE Program \/ Elapse \/ UNCHANGED vars
  <2>1. UNCHANGED <<parentVars, fixedVars, taken>> /\ (Spawned' => Spawned)
    BY <1>5 DEF Program, ChildExits, ChildWrites, ChildCloses, Elapse, vars, childVars, Spawned
  <2>2. pc' = pc /\ status' = status
    BY <2>1 DEF parentVars
  <2>3. status = StatusOf(taken["out"])
    BY <2>1, <2>2 DEF StatusInv
  <2>4. StatusOf(taken["out"])' = StatusOf(taken["out"])
    BY <2>1 DEF parentVars, fixedVars, StatusOf
  <2> QED
    BY <2>2, <2>3, <2>4
<1> QED
  BY <1>1, <1>2, <1>3, <1>4, <1>5 DEF Next, Parent

\* A response to a program that ended, or closed its streams, in time is made
\* of what was read of stdout, and that is all of it unless a select or a read
\* of stdout failed: the loop stops reading a stream only when it is drained
\* or its read has failed.
THEOREM AnswerCorrect == Spec => []AnswerIsWholeOutput
<1> USE DEF BeforeFork, Looping
<1>1. Init => ReadyInv /\ DrainedInv /\ StatusInv
  BY DEF Init, ReadyInv, DrainedInv, StatusInv
<1>2. Spec => [](TypeOK /\ HeldInv /\ Released)
  <2>1. Init => HeldInv /\ Released
    BY DEF Init, HeldInv, Released
  <2> QED
    BY <2>1, HeldStep, TypeCorrect, PTL DEF Spec
<1>3. Spec => [](ReadyInv /\ DrainedInv /\ StatusInv)
  BY <1>1, <1>2, DrainedStep, StatusStep, PTL DEF Spec
<1>4. TypeOK /\ DrainedInv /\ StatusInv => AnswerIsWholeOutput
  <2> SUFFICES ASSUME TypeOK, DrainedInv, StatusInv, pc = "done", Spawned, ~timedOut
               PROVE  /\ status = 200 <=> blank \in 1..taken["out"]
                      /\ {"select", "out"} \cap faults = {} => taken["out"] = written["out"]
    BY DEF AnswerIsWholeOutput
  <2>1. taken["out"] \in Nat /\ (pipe["out"] = 0 => taken["out"] = written["out"])
    BY StreamMoves DEF Streams
  <2>2. {"select", "out"} \cap faults = {} => pipe["out"] = 0
    BY DEF DrainedInv, Drained, Streams
  <2>3. status = StatusOf(taken["out"])
    BY DEF StatusInv
  <2> QED
    BY <2>1, <2>2, <2>3 DEF StatusOf, TypeOK
<1> QED
  BY <1>2, <1>3, <1>4, PTL
=============================================================================
