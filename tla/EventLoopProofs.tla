-------------------------- MODULE EventLoopProofs --------------------------
(***************************************************************************)
(* Theorems about module EventLoop, for any number of connections,         *)
(* listening sockets and descriptors, any batch size and any timeout.      *)
(***************************************************************************)
EXTENDS EventLoop, LeastNaturals, FiniteSetTheorems, SequenceTheorems, TLAPS

-----------------------------------------------------------------------------
(***************************************************************************)
(* What the helpers and the environment do to the tables, one by one.      *)
(***************************************************************************)
TablesType ==
    /\ owner \in [Descriptors -> Conns \cup {None}]
    /\ epoll \in [Descriptors -> SUBSET EventNames]
    /\ interests \in [Descriptors -> SUBSET EventNames]
    /\ clients \in [Descriptors -> ClientEntry]

PeersType == peer \in [Conns -> PeerStates] /\ unread \in [Conns -> BOOLEAN]

BatchType == batch \in Seq(BatchEntry) /\ Len(batch) <= MAX_EVENTS

\* A client's fields, and the fields of NoClient.
LEMMA EntryFields ==
    /\ NoClient \in ClientEntry
    /\ \A e \in ClientEntry : e.conn \in Conns \cup {None} /\ e.phase \in Phase!Phases /\ e.idle \in Nat
    /\ \A p \in Phase!Phases : Phase!AfterRead[p] \subseteq Phase!Phases
BY DEF NoClient, ClientEntry, Phase!Phases, Phase!AfterRead

\* cleanupClient keeps the shape of every table.
LEMMA CleanupType ==
    ASSUME TablesType, PeersType, NEW fds, CleanupClients(fds)
    PROVE  TablesType' /\ PeersType'
<1>1. clients' \in [Descriptors -> ClientEntry]
  BY EntryFields DEF CleanupClients, TablesType
<1>2. interests' \in [Descriptors -> SUBSET EventNames] /\ epoll' \in [Descriptors -> SUBSET EventNames]
  BY DEF CleanupClients, TablesType, Removed
<1>3. owner' \in [Descriptors -> Conns \cup {None}]
  BY DEF CleanupClients, TablesType
<1>4. peer' \in [Conns -> PeerStates]
  BY DEF CleanupClients, PeersType, PeerStates
<1>5. unread' \in [Conns -> BOOLEAN]
  BY DEF CleanupClients, PeersType
<1> QED
  BY <1>1, <1>2, <1>3, <1>4, <1>5 DEF TablesType, PeersType

\* EventLoop::setWritable keeps the shape of the two tables it changes.
LEMMA SetWritableType ==
    ASSUME TablesType, NEW fd, NEW enable \in BOOLEAN, SetWritable(fd, enable)
    PROVE  /\ epoll' \in [Descriptors -> SUBSET EventNames]
           /\ interests' \in [Descriptors -> SUBSET EventNames]
<1>1. CASE fd \in Descriptors
  <2>1. WritableEvents(interests[fd], enable) \in SUBSET EventNames
    BY <1>1 DEF TablesType, WritableEvents, EventNames
  <2> QED
    BY <2>1 DEF SetWritable, TablesType
<1>2. CASE fd \notin Descriptors
  BY <1>2 DEF SetWritable, TablesType
<1> QED
  BY <1>1, <1>2

\* The entry being dispatched, and what is left of the batch after it.
LEMMA BatchFields ==
    ASSUME BatchType, batch # <<>>
    PROVE  /\ Head(batch) \in BatchEntry /\ Head(batch) = batch[1]
           /\ 1 \in DOMAIN batch
           /\ Tail(batch) \in Seq(BatchEntry) /\ Len(Tail(batch)) <= MAX_EVENTS
           /\ \A done : Left(done) \in Seq(BatchEntry) /\ Len(Left(done)) <= MAX_EVENTS
<1>1. Head(batch) \in BatchEntry /\ Head(batch) = batch[1] /\ 1 \in DOMAIN batch
  BY DEF BatchType
<1>2. Tail(batch) \in Seq(BatchEntry) /\ Len(Tail(batch)) <= MAX_EVENTS
  <2>1. Len(Tail(batch)) = Len(batch) - 1 /\ Len(batch) \in Nat
    BY DEF BatchType
  <2> QED
    BY <2>1, DescriptorsAssumption DEF BatchType
<1>3. ASSUME NEW done
      PROVE  Left(done) \in Seq(BatchEntry) /\ Len(Left(done)) <= MAX_EVENTS
  <2>1. CASE Head(batch).ev \subseteq done
    BY <1>2, <2>1 DEF Left
  <2>2. CASE ~(Head(batch).ev \subseteq done)
    <3> DEFINE entry == [batch[1] EXCEPT !.ev = @ \ done]
    <3>1. entry \in BatchEntry
      BY <1>1, <2>2 DEF BatchEntry
    <3> HIDE DEF entry
    <3>2. Left(done) = [batch EXCEPT ![1] = entry]
      BY <2>2 DEF Left, entry
    <3> QED
      BY <1>1, <3>1, <3>2, ExceptSeq DEF BatchType
  <2> QED
    BY <2>1, <2>2
<1> QED
  BY <1>1, <1>2, <1>3

\* Server::handleNewConnection is given a free descriptor by the kernel.
LEMMA LowestIsFree ==
    ASSUME Free # {}
    PROVE  (CHOOSE f \in Free : \A g \in Free : f <= g) \in Free
<1>1. Free \subseteq Nat
  BY DescriptorsAssumption DEF Free
<1> QED
  BY <1>1, LeastNatural

\* A batch of epoll_wait fits the array it is written to.
LEMMA PollType ==
    ASSUME TypeOK, NEW canWrite, Poll(canWrite)
    PROVE  BatchType'
<1> DEFINE listening == {l \in Listeners : backlog[l] # <<>>}
           ready == listening \cup {fd \in Descriptors : Ready(fd, canWrite) # {}}
<1>1. PICK reported \in SUBSET ready :
        /\ Cardinality(reported) = BatchSize(ready)
        /\ \E order \in SetToSeqs(reported) :
             batch' = [i \in DOMAIN order |->
                         LET fd == order[i]
                         IN  IF fd \in Listeners
                             THEN [fd |-> fd, ev |-> {"IN"}, of |-> None]
                             ELSE [fd |-> fd, ev |-> Ready(fd, canWrite), of |-> owner[fd]]]
  BY DEF Poll
<1>2. PICK order \in SetToSeqs(reported) :
        batch' = [i \in DOMAIN order |->
                    LET fd == order[i]
                    IN  IF fd \in Listeners
                        THEN [fd |-> fd, ev |-> {"IN"}, of |-> None]
                        ELSE [fd |-> fd, ev |-> Ready(fd, canWrite), of |-> owner[fd]]]
  BY <1>1
<1>3. ready \subseteq Listeners \cup Descriptors
  OBVIOUS
<1>4. IsFiniteSet(ready)
  BY <1>3, DescriptorsAssumption, FS_Union, FS_Subset
<1> HIDE DEF listening
<1>5. BatchSize(ready) \in Nat /\ BatchSize(ready) <= MAX_EVENTS
  BY <1>4, FS_CardinalityType, DescriptorsAssumption DEF BatchSize
<1>6. order \in [1..Cardinality(reported) -> reported]
  BY DEF SetToSeqs
<1>7. ASSUME NEW i \in 1..Cardinality(reported)
      PROVE  batch'[i] \in BatchEntry
  <2>1. order[i] \in ready
    BY <1>6
  <2>2. CASE order[i] \in Listeners
    <3>1. batch'[i] = [fd |-> order[i], ev |-> {"IN"}, of |-> None]
      BY <1>2, <1>6, <2>2
    <3> QED
      BY <2>2, <3>1 DEF BatchEntry
  <2>3. CASE order[i] \notin Listeners
    <3>1. order[i] \in Descriptors /\ Ready(order[i], canWrite) # {}
      BY <2>1, <2>3 DEF listening
    <3>2. Ready(order[i], canWrite) \subseteq EventNames
      BY DEF Ready
    <3>3. owner[order[i]] \in Conns \cup {None}
      BY <3>1 DEF TypeOK
    <3>4. batch'[i] = [fd |-> order[i], ev |-> Ready(order[i], canWrite), of |-> owner[order[i]]]
      BY <1>2, <1>6, <2>3
    <3> HIDE DEF ready
    <3> DEFINE ev == Ready(order[i], canWrite)
    <3>5. ev \in (SUBSET EventNames) \ {{}}
      BY <3>1, <3>2
    <3> HIDE DEF ev
    <3>6. batch'[i] = [fd |-> order[i], ev |-> ev, of |-> owner[order[i]]]
      BY <3>4 DEF ev
    <3> QED
      BY <3>1, <3>3, <3>5, <3>6 DEF BatchEntry
  <2> QED
    BY <2>2, <2>3
<1>8. batch' \in [1..Cardinality(reported) -> BatchEntry]
  <2>1. batch' = [i \in 1..Cardinality(reported) |-> batch'[i]]
    <3>1. DOMAIN order = 1..Cardinality(reported)
      BY <1>6
    <3> QED
      BY <1>2, <3>1, Zenon
  <2> QED
    BY <1>7, <2>1
<1> HIDE DEF ready
<1> DEFINE n == Cardinality(reported)
<1>9. n \in Nat /\ n <= MAX_EVENTS
  BY <1>1, <1>5
<1> HIDE DEF n
<1>10. batch' \in [1..n -> BatchEntry]
  BY <1>8 DEF n
<1> QED
  BY <1>9, <1>10 DEF BatchType

\* The descriptor of the entry being dispatched.
LEMMA DispatchedDescriptor ==
    ASSUME BatchType, NEW e, Dispatching(e)
    PROVE  /\ batch # <<>>
           /\ Head(batch).fd \in Descriptors \cup Listeners
           /\ e # "IN" => Head(batch).fd \in Descriptors
<1>1. batch # <<>> /\ e \in Head(batch).ev
  BY DEF Dispatching
<1>2. Head(batch) \in BatchEntry
  BY <1>1, BatchFields
<1> QED
  BY <1>1, <1>2 DEF BatchEntry

\* accept and what follows it.
LEMMA AcceptType == ASSUME TypeOK, OnAccept PROVE TypeOK'
<1> DEFINE l == Head(batch).fd
           c == Head(backlog[l])
           fd == CHOOSE f \in Free : \A g \in Free : f <= g
<1>1. BatchType /\ TablesType /\ PeersType
  BY DEF TypeOK, BatchType, TablesType, PeersType
<1>2. Dispatching("IN") /\ l \in Listeners /\ batch' = Left({"IN"}) /\ UNCHANGED <<pc, alive>>
  BY DEF OnAccept
<1>3. BatchType'
  BY <1>1, <1>2, DispatchedDescriptor, BatchFields DEF BatchType
<1>4. CASE UNCHANGED <<peer, unread, backlog, kernelVars, tableVars>>
  BY <1>2, <1>3, <1>4 DEF TypeOK, BatchType, kernelVars, tableVars
<1>5. ASSUME Free # {}, backlog[l] # <<>>
      PROVE  /\ c \in Conns /\ fd \in Descriptors
             /\ [backlog EXCEPT ![l] = Tail(@)] \in [Listeners -> Seq(Conns)]
  <2>1. backlog[l] \in Seq(Conns)
    BY <1>2 DEF TypeOK
  <2>2. c \in Conns /\ Tail(backlog[l]) \in Seq(Conns)
    BY <2>1, <1>5
  <2>3. fd \in Descriptors
    BY <1>5, LowestIsFree DEF Free
  <2> QED
    BY <2>2, <2>3, <1>2 DEF TypeOK
<1> HIDE DEF l, c, fd
<1>6. CASE /\ Free # {} /\ backlog[l] # <<>>
           /\ backlog' = [backlog EXCEPT ![l] = Tail(@)]
           /\ owner' = OwnerWhenRefused(fd, c)
           /\ peer' = [peer EXCEPT ![c] = "closed"]
           /\ unread' = [unread EXCEPT ![c] = FALSE]
           /\ UNCHANGED <<epoll, tableVars>>
  BY <1>2, <1>3, <1>5, <1>6 DEF TypeOK, BatchType, tableVars, OwnerWhenRefused, PeerStates
<1>7. CASE /\ Free # {} /\ backlog[l] # <<>>
           /\ backlog' = [backlog EXCEPT ![l] = Tail(@)]
           /\ owner' = [owner EXCEPT ![fd] = c]
           /\ epoll' = [epoll EXCEPT ![fd] = ClientEvents]
           /\ interests' = [interests EXCEPT ![fd] = ClientEvents]
           /\ clients' = [clients EXCEPT ![fd] = [NoClient EXCEPT !.conn = c]]
           /\ UNCHANGED <<peer, unread>>
  <2>1. [NoClient EXCEPT !.conn = c] \in ClientEntry
    BY <1>5, <1>7, EntryFields DEF ClientEntry
  <2>2. ClientEvents \in SUBSET EventNames
    BY DEF ClientEvents, EventNames
  <2> QED
    BY <1>2, <1>3, <1>5, <1>7, <2>1, <2>2 DEF TypeOK, BatchType
<1> QED
  BY <1>4, <1>6, <1>7 DEF OnAccept, l, c, fd

\* recv and the handler of what it received.
LEMMA DataType == ASSUME TypeOK, OnData PROVE TypeOK'
<1> DEFINE fd == Head(batch).fd
           c == owner[fd]
<1>1. BatchType /\ TablesType /\ PeersType
  BY DEF TypeOK, BatchType, TablesType, PeersType
<1>2. Dispatching("IN") /\ fd \notin Listeners /\ batch' = Left({"IN"})
  BY DEF OnData
<1>3. UNCHANGED <<backlog, pc, alive>>
  BY DEF OnData
<1>4. BatchType' /\ fd \in Descriptors
  BY <1>1, <1>2, DispatchedDescriptor, BatchFields DEF BatchType
<1>5. CASE UNCHANGED <<peer, unread, kernelVars, tableVars>>
  BY <1>3, <1>4, <1>5 DEF TypeOK, BatchType, kernelVars, tableVars
<1>6. CASE CleanupClients({fd})
  BY <1>1, <1>3, <1>4, <1>6, CleanupType DEF TypeOK, TablesType, PeersType, BatchType
<1>7. CASE /\ \E rest \in BOOLEAN : unread' = [unread EXCEPT ![c] = rest]
           /\ \E p \in Phase!AfterRead[clients[fd].phase] :
                /\ clients' = [clients EXCEPT ![fd].phase = p, ![fd].idle = 0]
                /\ IF Phase!Waiting(p) THEN SetWritable(fd, TRUE)
                                       ELSE UNCHANGED <<epoll, interests>>
           /\ UNCHANGED <<peer, owner>>
  <2> HIDE DEF fd, c
  <2>1. unread' \in [Conns -> BOOLEAN]
    BY <1>7 DEF TypeOK
  <2>2. PICK p \in Phase!AfterRead[clients[fd].phase] :
               /\ clients' = [clients EXCEPT ![fd].phase = p, ![fd].idle = 0]
               /\ IF Phase!Waiting(p) THEN SetWritable(fd, TRUE)
                                      ELSE UNCHANGED <<epoll, interests>>
    BY <1>7
  <2>3. clients[fd] \in ClientEntry
    BY <1>4 DEF TypeOK
  <2>4. p \in Phase!Phases
    BY <2>2, <2>3, EntryFields
  <2>5. [clients[fd] EXCEPT !.phase = p, !.idle = 0] \in ClientEntry
    BY <2>3, <2>4 DEF ClientEntry
  <2>6. clients' = [clients EXCEPT ![fd] = [clients[fd] EXCEPT !.phase = p, !.idle = 0]]
    BY <1>4, <2>2 DEF TypeOK
  <2>7. clients' \in [Descriptors -> ClientEntry]
    BY <2>5, <2>6 DEF TypeOK
  <2>8. epoll' \in [Descriptors -> SUBSET EventNames] /\ interests' \in [Descriptors -> SUBSET EventNames]
    BY <1>1, <2>2, SetWritableType DEF TablesType
  <2> QED
    BY <1>3, <1>4, <1>7, <2>1, <2>7, <2>8 DEF TypeOK, BatchType
<1> QED
  BY <1>5, <1>6, <1>7 DEF OnData

\* handleWrite.
LEMMA WritableType == ASSUME TypeOK, OnWritable PROVE TypeOK'
<1> DEFINE fd == Head(batch).fd
<1>1. BatchType /\ TablesType /\ PeersType
  BY DEF TypeOK, BatchType, TablesType, PeersType
<1>2. Dispatching("OUT") /\ batch' = Left({"OUT"})
  BY DEF OnWritable
<1>3. UNCHANGED <<backlog, pc>> /\ alive' \in BOOLEAN
  BY DEF OnWritable, TypeOK
<1>4. BatchType' /\ fd \in Descriptors
  BY <1>1, <1>2, DispatchedDescriptor, BatchFields DEF BatchType
<1> HIDE DEF fd
<1>5. ASSUME NEW p \in Phase!Phases
      PROVE  /\ [clients EXCEPT ![fd].idle = 0] \in [Descriptors -> ClientEntry]
             /\ [clients EXCEPT ![fd].idle = 0, ![fd].phase = p] \in [Descriptors -> ClientEntry]
  <2>1. clients[fd] \in ClientEntry
    BY <1>4 DEF TypeOK
  <2>2. /\ [clients[fd] EXCEPT !.idle = 0] \in ClientEntry
        /\ [clients[fd] EXCEPT !.idle = 0, !.phase = p] \in ClientEntry
    BY <2>1 DEF ClientEntry
  <2>3. /\ [clients EXCEPT ![fd].idle = 0] = [clients EXCEPT ![fd] = [clients[fd] EXCEPT !.idle = 0]]
        /\ [clients EXCEPT ![fd].idle = 0, ![fd].phase = p]
             = [clients EXCEPT ![fd] = [clients[fd] EXCEPT !.idle = 0, !.phase = p]]
    BY <1>4 DEF TypeOK
  <2> QED
    BY <2>2, <2>3 DEF TypeOK
<1>6. CASE UNCHANGED <<peer, unread, kernelVars, tableVars>>
  BY <1>3, <1>4, <1>6 DEF TypeOK, BatchType, kernelVars, tableVars
<1>7. CASE SetWritable(fd, FALSE) /\ UNCHANGED <<peer, unread, owner, clients>>
  BY <1>1, <1>3, <1>4, <1>7, SetWritableType DEF TypeOK, BatchType
<1>8. CASE /\ clients' = [clients EXCEPT ![fd].idle = 0]
           /\ UNCHANGED <<peer, unread, kernelVars, interests>>
  BY <1>3, <1>4, <1>5, <1>8 DEF TypeOK, BatchType, kernelVars, Phase!Phases
<1>9. CASE /\ clients' = [clients EXCEPT ![fd].idle = 0, ![fd].phase = "reading"]
           /\ SetWritable(fd, FALSE)
           /\ UNCHANGED <<peer, unread, owner>>
  <2>1. "reading" \in Phase!Phases
    BY DEF Phase!Phases
  <2> QED
    BY <1>1, <1>3, <1>4, <1>5, <1>9, <2>1, SetWritableType DEF TypeOK, BatchType
<1>10. CASE CleanupClients({fd})
  BY <1>1, <1>3, <1>4, <1>10, CleanupType DEF TypeOK, TablesType, PeersType, BatchType
<1> QED
  BY <1>6, <1>7, <1>8, <1>9, <1>10 DEF OnWritable, fd

\* For every number of connections, descriptors and events in a batch, the
\* tables keep their shape and a batch never outgrows the array of
\* EventLoop::run.
THEOREM TypeCorrect == Spec => []TypeOK
<1>1. Init => TypeOK
  <2> SUFFICES ASSUME Init PROVE TypeOK
    OBVIOUS
  <2>1. clients \in [Descriptors -> ClientEntry]
    BY EntryFields DEF Init
  <2>2. batch \in Seq(BatchEntry) /\ Len(batch) = 0
    BY DEF Init
  <2> QED
    BY <2>1, <2>2, DescriptorsAssumption DEF Init, TypeOK, PeerStates
<1>2. TypeOK /\ [Next]_vars => TypeOK'
  <2> SUFFICES ASSUME TypeOK, [Next]_vars PROVE TypeOK'
    OBVIOUS
  <2>1. BatchType /\ TablesType /\ PeersType
    BY DEF TypeOK, BatchType, TablesType, PeersType
  <2>2. ASSUME NEW c \in Conns, NEW l \in Listeners, Connect(c, l) PROVE TypeOK'
    <3>1. Append(backlog[l], c) \in Seq(Conns)
      BY DEF TypeOK
    <3> QED
      BY <2>2, <3>1 DEF Connect, TypeOK, PeerStates, kernelVars, tableVars
  <2>3. ASSUME NEW c \in Conns, Send(c) PROVE TypeOK'
    BY <2>3 DEF Send, TypeOK, kernelVars, tableVars
  <2>4. ASSUME NEW c \in Conns, HangUp(c) PROVE TypeOK'
    BY <2>4 DEF HangUp, TypeOK, PeerStates, kernelVars, tableVars
  <2>5. CASE Elapse
    <3>1. ASSUME NEW fd \in Descriptors
          PROVE  [clients[fd] EXCEPT !.idle = @ + 1] \in ClientEntry
      <4>1. clients[fd] \in ClientEntry
        BY DEF TypeOK
      <4> DEFINE e == clients[fd]
      <4> HIDE DEF e
      <4>2. e \in ClientEntry => [e EXCEPT !.idle = @ + 1] \in ClientEntry
        BY DEF ClientEntry
      <4> QED
        BY <4>1, <4>2 DEF e
    <3>2. clients' \in [Descriptors -> ClientEntry]
      <4>1. \A fd \in Descriptors : clients[fd] \in ClientEntry
        BY DEF TypeOK
      <4>2. clients' = [fd \in Descriptors |->
                          IF Has(fd) /\ clients[fd].idle <= CLIENT_TIMEOUT
                          THEN [clients[fd] EXCEPT !.idle = @ + 1] ELSE clients[fd]]
        BY <2>5 DEF Elapse
      <4> QED
        BY <3>1, <4>1, <4>2
    <3> QED
      BY <2>5, <3>2 DEF Elapse, TypeOK, kernelVars
  <2>6. ASSUME NEW canWrite, Poll(canWrite) PROVE TypeOK'
    BY <2>6, PollType DEF Poll, TypeOK, BatchType, kernelVars, tableVars
  <2>7. CASE OnAccept
    BY <2>7, AcceptType
  <2>8. CASE OnData
    BY <2>8, DataType
  <2>9. CASE OnWritable
    BY <2>9, WritableType
  <2>10. CASE OnHangup
    <3>1. batch # <<>>
      BY <2>10 DEF OnHangup, Dispatching
    <3>2. TablesType' /\ PeersType'
      BY <2>1, <2>10, CleanupType DEF OnHangup
    <3>3. BatchType'
      BY <2>1, <2>10, <3>1, BatchFields DEF OnHangup, BatchType
    <3> QED
      BY <2>10, <3>2, <3>3 DEF OnHangup, TypeOK, TablesType, PeersType, BatchType
  <2>11. CASE OnTick
    <3>1. TablesType' /\ PeersType'
      BY <2>1, <2>11, CleanupType DEF OnTick
    <3> QED
      BY <2>11, <3>1 DEF OnTick, TypeOK, TablesType, PeersType
  <2>12. CASE UNCHANGED vars
    BY <2>12 DEF vars, kernelVars, tableVars, TypeOK
  <2> QED
    BY <2>2, <2>3, <2>4, <2>5, <2>6, <2>7, <2>8, <2>9, <2>10, <2>11, <2>12
    DEF Next, Peers, Loop
<1> QED
  BY <1>1, <1>2, PTL DEF Spec

-----------------------------------------------------------------------------
(***************************************************************************)
(* The tables agree.  What has to be added to make this inductive is that  *)
(* a connection is in one place only: not yet made, waiting in one         *)
(* backlog, or owned by descriptors.                                       *)
(***************************************************************************)
QueuedOnce ==
    \A l, m \in Listeners : \A i \in DOMAIN backlog[l], j \in DOMAIN backlog[m] :
        backlog[l][i] = backlog[m][j] => l = m /\ i = j

QueuedNotOpen ==
    \A l \in Listeners : \A i \in DOMAIN backlog[l] : \A fd \in Descriptors :
        owner[fd] # backlog[l][i]

NewIsNowhere ==
    \A c \in Conns : peer[c] = "none" =>
        /\ \A fd \in Descriptors : owner[fd] # c
        /\ \A l \in Listeners : \A i \in DOMAIN backlog[l] : backlog[l][i] # c

TablesInv == TablesAgree /\ QueuedOnce /\ QueuedNotOpen /\ NewIsNowhere

\* Closing descriptors takes them out of every table.
LEMMA CleanupKeepsTables ==
    ASSUME TypeOK, TablesInv, NEW fds, CleanupClients(fds), UNCHANGED backlog
    PROVE  TablesInv'
<1>1. \A fd \in Descriptors :
        /\ interests[fd] = epoll[fd]
        /\ owner[fd] = clients[fd].conn
        /\ IF owner[fd] = None THEN epoll[fd] = {} ELSE ClientEvents \subseteq epoll[fd]
  BY DEF TablesInv, TablesAgree
<1>2. \A fd \in Descriptors :
        /\ owner'[fd] = IF fd \in fds THEN None ELSE owner[fd]
        /\ epoll'[fd] = IF fd \in fds THEN {} ELSE epoll[fd]
        /\ clients'[fd] = IF fd \in fds THEN NoClient ELSE clients[fd]
        /\ interests'[fd] = IF fd \in fds /\ epoll[fd] # {} THEN {} ELSE interests[fd]
  BY DEF CleanupClients, Removed
<1>3. interests' = epoll'
  BY <1>1 DEF CleanupClients, Removed
<1>4. \A fd \in Descriptors :
        /\ owner'[fd] = clients'[fd].conn
        /\ IF owner'[fd] = None THEN epoll'[fd] = {} ELSE ClientEvents \subseteq epoll'[fd]
  BY <1>1, <1>2 DEF NoClient
<1>5. \A f, g \in Open' : owner'[f] = owner'[g] => f = g
  BY <1>2 DEF Open, TablesInv, TablesAgree
<1>6. TablesAgree'
  BY <1>3, <1>4, <1>5 DEF TablesAgree
<1>7. \A c \in Conns : peer'[c] = "none" => peer[c] = "none"
  BY DEF CleanupClients
<1>8. QueuedOnce' /\ QueuedNotOpen' /\ NewIsNowhere'
  <2>1. \A c \in Conns : c # None
    BY DescriptorsAssumption
  <2>2. \A l \in Listeners : \A i \in DOMAIN backlog[l] : backlog[l][i] \in Conns
    BY DEF TypeOK
  <2> QED
    BY <1>2, <1>7, <2>1, <2>2 DEF TablesInv, QueuedOnce, QueuedNotOpen, NewIsNowhere
<1> QED
  BY <1>6, <1>8 DEF TablesInv

\* A step that registers and unregisters nothing, except for EPOLLOUT.
SameEvents ==
    \A f \in Descriptors :
        /\ \A e \in ClientEvents : e \in epoll'[f] <=> e \in epoll[f]
        /\ epoll[f] = {} => epoll'[f] = {}

\* setWritable changes neither who is open nor the events a client started with.
LEMMA SetWritableKeepsTables ==
    ASSUME TypeOK, TablesAgree, NEW fd \in Descriptors, NEW enable \in BOOLEAN,
           SetWritable(fd, enable)
    PROVE  /\ interests' = epoll'
           /\ SameEvents
           /\ \A f \in Descriptors \ {fd} : epoll'[f] = epoll[f]
           /\ epoll[fd] # {} => epoll'[fd] = WritableEvents(epoll[fd], enable)
<1>1. interests = epoll
  BY DEF TablesAgree
<1> DEFINE new == WritableEvents(interests[fd], enable)
<1>2. \A e \in ClientEvents : e \in new <=> e \in epoll[fd]
  BY <1>1 DEF WritableEvents, ClientEvents
<1>3. new = WritableEvents(epoll[fd], enable)
  BY <1>1
<1>4. CASE epoll[fd] # {}
  <2>1. epoll' = [epoll EXCEPT ![fd] = new] /\ interests' = [interests EXCEPT ![fd] = new]
    BY <1>1, <1>4 DEF SetWritable
  <2> HIDE DEF new
  <2> QED
    BY <1>1, <1>2, <1>3, <1>4, <2>1 DEF TypeOK, SameEvents
<1>5. CASE epoll[fd] = {}
  BY <1>1, <1>5 DEF SetWritable, SameEvents
<1> QED
  BY <1>4, <1>5

\* A step that leaves owners and backlogs alone, and EPOLLIN and EPOLLRDHUP.
LEMMA SameOwnersKeepTables ==
    ASSUME TypeOK, TablesInv, UNCHANGED <<owner, backlog>>,
           interests' = epoll',
           SameEvents,
           \A f \in Descriptors : clients'[f].conn = clients[f].conn,
           \A c \in Conns : peer'[c] = "none" => peer[c] = "none"
    PROVE  TablesInv'
<1>1. TablesAgree'
  <2>1. /\ \A f \in Descriptors : owner'[f] = clients'[f].conn
        /\ \A f, g \in Open' : owner'[f] = owner'[g] => f = g
    BY DEF TablesInv, TablesAgree, Open
  <2>2. \A f \in Descriptors :
          IF owner'[f] = None THEN epoll'[f] = {} ELSE ClientEvents \subseteq epoll'[f]
    BY DEF TablesInv, TablesAgree, SameEvents, ClientEvents
  <2> QED
    BY <2>1, <2>2 DEF TablesAgree
<1>2. QueuedOnce' /\ QueuedNotOpen' /\ NewIsNowhere'
  BY DEF TablesInv, QueuedOnce, QueuedNotOpen, NewIsNowhere
<1> QED
  BY <1>1, <1>2 DEF TablesInv

\* The backlog without its first connection.
LEMMA TailOfBacklog ==
    ASSUME NEW s \in Seq(Conns), s # <<>>
    PROVE  /\ Tail(s) \in Seq(Conns) /\ 1 \in DOMAIN s /\ Head(s) = s[1] /\ Head(s) \in Conns
           /\ \A i \in DOMAIN Tail(s) : i \in Nat \ {0} /\ i + 1 \in DOMAIN s /\ Tail(s)[i] = s[i + 1]
OBVIOUS

\* accept: the connection leaves its backlog for one descriptor, or is closed.
LEMMA AcceptKeepsTables == ASSUME TypeOK, TablesInv, OnAccept PROVE TablesInv'
<1> DEFINE l == Head(batch).fd
           c == Head(backlog[l])
           fd == CHOOSE f \in Free : \A g \in Free : f <= g
<1>1. l \in Listeners
  BY DEF OnAccept
<1>2. CASE UNCHANGED <<peer, unread, backlog, kernelVars, tableVars>>
  BY <1>2 DEF kernelVars, tableVars, TablesInv, TablesAgree, Open,
              QueuedOnce, QueuedNotOpen, NewIsNowhere
<1>3. ASSUME Free # {}, backlog[l] # <<>>, backlog' = [backlog EXCEPT ![l] = Tail(@)]
      PROVE  /\ c \in Conns /\ c # None /\ peer[c] # "none"
             /\ fd \in Descriptors /\ owner[fd] = None
             /\ \A f \in Descriptors : owner[f] # c
             /\ \A m \in Listeners : \A i \in DOMAIN backlog'[m] : backlog'[m][i] # c
             /\ QueuedOnce'
             /\ \A m \in Listeners : \A i \in DOMAIN backlog'[m] :
                  \E j \in DOMAIN backlog[m] : backlog'[m][i] = backlog[m][j]
  <2> DEFINE s == backlog[l]
  <2>1. s \in Seq(Conns) /\ s # <<>>
    BY <1>1, <1>3 DEF TypeOK
  <2>2. backlog'[l] = Tail(s) /\ \A m \in Listeners \ {l} : backlog'[m] = backlog[m]
    BY <1>1, <1>3 DEF TypeOK
  <2>3. /\ 1 \in DOMAIN s /\ c = s[1] /\ c \in Conns
        /\ \A i \in DOMAIN Tail(s) :
             i \in Nat \ {0} /\ i + 1 \in DOMAIN s /\ Tail(s)[i] = s[i + 1]
    BY <2>1, TailOfBacklog
  <2> HIDE DEF s
  <2>4. fd \in Descriptors /\ owner[fd] = None
    BY <1>3, LowestIsFree DEF Free, Open
  <2>5. \A f \in Descriptors : owner[f] # c
    BY <1>1, <2>3 DEF TablesInv, QueuedNotOpen, s
  <2>6. peer[c] # "none" /\ c # None
    <3>1. backlog[l][1] = c /\ 1 \in DOMAIN backlog[l]
      BY <2>3 DEF s
    <3> HIDE DEF l, c
    <3>2. peer[c] # "none"
      BY <1>1, <2>3, <3>1 DEF TablesInv, NewIsNowhere
    <3> QED
      BY <2>3, <3>2, DescriptorsAssumption
  <2>7. \A m \in Listeners : \A i \in DOMAIN backlog'[m] :
          \E j \in DOMAIN backlog[m] :
            /\ backlog'[m][i] = backlog[m][j]
            /\ IF m = l THEN i \in Nat \ {0} /\ j = i + 1 ELSE j = i
    BY <2>2, <2>3 DEF s
  <2>8. \A m \in Listeners : \A i \in DOMAIN backlog'[m] : backlog'[m][i] # c
    <3> SUFFICES ASSUME NEW m \in Listeners, NEW i \in DOMAIN backlog'[m], backlog'[m][i] = c
                 PROVE  FALSE
      OBVIOUS
    <3>1. PICK j \in DOMAIN backlog[m] :
            /\ backlog'[m][i] = backlog[m][j]
            /\ IF m = l THEN i \in Nat \ {0} /\ j = i + 1 ELSE j = i
      BY <2>7
    <3>2. backlog[m][j] = backlog[l][1] /\ 1 \in DOMAIN backlog[l]
      BY <2>3, <3>1 DEF s
    <3>3. m = l /\ j = 1
      BY <1>1, <3>2 DEF TablesInv, QueuedOnce
    <3> QED
      BY <3>1, <3>3
  <2>9. QueuedOnce'
    <3> SUFFICES ASSUME NEW m \in Listeners, NEW n \in Listeners,
                        NEW i \in DOMAIN backlog'[m], NEW j \in DOMAIN backlog'[n],
                        backlog'[m][i] = backlog'[n][j]
                 PROVE  m = n /\ i = j
      BY DEF QueuedOnce
    <3>1. PICK i2 \in DOMAIN backlog[m] :
            /\ backlog'[m][i] = backlog[m][i2]
            /\ IF m = l THEN i \in Nat \ {0} /\ i2 = i + 1 ELSE i2 = i
      BY <2>7
    <3>2. PICK j2 \in DOMAIN backlog[n] :
            /\ backlog'[n][j] = backlog[n][j2]
            /\ IF n = l THEN j \in Nat \ {0} /\ j2 = j + 1 ELSE j2 = j
      BY <2>7
    <3>3. backlog[m][i2] = backlog[n][j2]
      BY <3>1, <3>2
    <3>4. m = n /\ i2 = j2
      BY <3>3 DEF TablesInv, QueuedOnce
    <3> QED
      BY <3>1, <3>2, <3>4
  <2> QED
    BY <2>3, <2>4, <2>5, <2>6, <2>7, <2>8, <2>9
<1> HIDE DEF l, c, fd
<1>4. CASE /\ Free # {} /\ backlog[l] # <<>>
           /\ backlog' = [backlog EXCEPT ![l] = Tail(@)]
           /\ owner' = OwnerWhenRefused(fd, c)
           /\ peer' = [peer EXCEPT ![c] = "closed"]
           /\ UNCHANGED <<epoll, tableVars>>
  <2>1. owner' = owner /\ UNCHANGED <<epoll, interests, clients>>
    BY <1>4 DEF OwnerWhenRefused, tableVars
  <2>2. TablesAgree'
    <3>1. Open' = Open
      BY <2>1 DEF Open
    <3> QED
      BY <2>1, <3>1 DEF TablesInv, TablesAgree
  <2>3. QueuedNotOpen'
    BY <1>3, <1>4, <2>1 DEF TablesInv, QueuedNotOpen
  <2>4. NewIsNowhere'
    <3>1. \A d \in Conns : peer'[d] = "none" => peer[d] = "none"
      BY <1>4 DEF TypeOK
    <3> QED
      BY <1>3, <1>4, <2>1, <3>1 DEF TablesInv, NewIsNowhere
  <2> QED
    BY <1>3, <1>4, <2>2, <2>3, <2>4 DEF TablesInv
<1>5. CASE /\ Free # {} /\ backlog[l] # <<>>
           /\ backlog' = [backlog EXCEPT ![l] = Tail(@)]
           /\ owner' = [owner EXCEPT ![fd] = c]
           /\ epoll' = [epoll EXCEPT ![fd] = ClientEvents]
           /\ interests' = [interests EXCEPT ![fd] = ClientEvents]
           /\ clients' = [clients EXCEPT ![fd] = [NoClient EXCEPT !.conn = c]]
           /\ UNCHANGED <<peer, unread>>
  <2>1. /\ owner'[fd] = c /\ epoll'[fd] = {"IN", "RDHUP"} /\ clients'[fd].conn = c
        /\ \A f \in Descriptors \ {fd} :
             owner'[f] = owner[f] /\ epoll'[f] = epoll[f] /\ clients'[f] = clients[f]
    BY <1>3, <1>5 DEF TypeOK, NoClient, ClientEvents
  <2>2. interests' = epoll'
    BY <1>5 DEF TablesInv, TablesAgree
  <2>3. \A f \in Descriptors :
          /\ owner'[f] = clients'[f].conn
          /\ IF owner'[f] = None THEN epoll'[f] = {} ELSE ClientEvents \subseteq epoll'[f]
    BY <1>3, <1>5, <2>1 DEF TablesInv, TablesAgree
  <2>4. \A f, g \in Open' : owner'[f] = owner'[g] => f = g
    BY <1>3, <1>5, <2>1 DEF TablesInv, TablesAgree, Open
  <2>5. TablesAgree'
    BY <2>2, <2>3, <2>4 DEF TablesAgree
  <2>6. QueuedNotOpen'
    BY <1>3, <1>5, <2>1 DEF TablesInv, QueuedNotOpen
  <2>7. NewIsNowhere'
    BY <1>3, <1>5, <2>1 DEF TablesInv, NewIsNowhere
  <2> QED
    BY <1>3, <1>5, <2>5, <2>6, <2>7 DEF TablesInv
<1> QED
  BY <1>2, <1>4, <1>5 DEF OnAccept, l, c, fd

\* A handler changes the phase and the idle time of its own client only.
LEMMA UpdatedClient ==
    ASSUME NEW fd \in Descriptors, NEW p, clients \in [Descriptors -> ClientEntry]
    PROVE  /\ clients' = [clients EXCEPT ![fd].phase = p, ![fd].idle = 0]
              \/ clients' = [clients EXCEPT ![fd].idle = 0, ![fd].phase = p]
                => /\ clients'[fd].phase = p
                   /\ \A f \in Descriptors : clients'[f].conn = clients[f].conn
                   /\ \A f \in Descriptors \ {fd} : clients'[f].phase = clients[f].phase
           /\ clients' = [clients EXCEPT ![fd].idle = 0]
                => \A f \in Descriptors : /\ clients'[f].conn = clients[f].conn
                                          /\ clients'[f].phase = clients[f].phase
<1>1. ASSUME NEW e \in ClientEntry
      PROVE  /\ [e EXCEPT !.phase = p, !.idle = 0].conn = e.conn
             /\ [e EXCEPT !.phase = p, !.idle = 0].phase = p
             /\ [e EXCEPT !.idle = 0, !.phase = p].conn = e.conn
             /\ [e EXCEPT !.idle = 0, !.phase = p].phase = p
             /\ [e EXCEPT !.idle = 0].conn = e.conn
             /\ [e EXCEPT !.idle = 0].phase = e.phase
  BY DEF ClientEntry
<1>2. clients[fd] \in ClientEntry
  OBVIOUS
<1>3. CASE clients' = [clients EXCEPT ![fd].phase = p, ![fd].idle = 0]
  <2>1. clients' = [clients EXCEPT ![fd] = [clients[fd] EXCEPT !.phase = p, !.idle = 0]]
    BY <1>3
  <2>2. /\ clients'[fd] = [clients[fd] EXCEPT !.phase = p, !.idle = 0]
        /\ \A f \in Descriptors \ {fd} : clients'[f] = clients[f]
    BY <2>1
  <2>3. /\ clients'[fd].phase = p
        /\ \A f \in Descriptors : clients'[f].conn = clients[f].conn
        /\ \A f \in Descriptors \ {fd} : clients'[f].phase = clients[f].phase
    <3>1. clients'[fd].phase = p /\ clients'[fd].conn = clients[fd].conn
      BY <1>1, <1>2, <2>2
    <3> QED
      BY <2>2, <3>1
  <2>4. clients' = [clients EXCEPT ![fd].idle = 0] =>
          clients'[fd].phase = clients[fd].phase
    BY <1>1, <1>2
  <2> QED
    BY <2>3, <2>4
<1>4. CASE clients' = [clients EXCEPT ![fd].idle = 0, ![fd].phase = p]
  <2>1. clients' = [clients EXCEPT ![fd] = [clients[fd] EXCEPT !.idle = 0, !.phase = p]]
    BY <1>4
  <2>2. /\ clients'[fd] = [clients[fd] EXCEPT !.idle = 0, !.phase = p]
        /\ \A f \in Descriptors \ {fd} : clients'[f] = clients[f]
    BY <2>1
  <2>3. /\ clients'[fd].phase = p
        /\ \A f \in Descriptors : clients'[f].conn = clients[f].conn
        /\ \A f \in Descriptors \ {fd} : clients'[f].phase = clients[f].phase
    <3>1. clients'[fd].phase = p /\ clients'[fd].conn = clients[fd].conn
      BY <1>1, <1>2, <2>2
    <3> QED
      BY <2>2, <3>1
  <2>4. clients' = [clients EXCEPT ![fd].idle = 0] =>
          clients'[fd].phase = clients[fd].phase
    BY <1>1, <1>2
  <2> QED
    BY <2>3, <2>4
<1>5. ASSUME clients' = [clients EXCEPT ![fd].idle = 0]
      PROVE  \A f \in Descriptors : /\ clients'[f].conn = clients[f].conn
                                     /\ clients'[f].phase = clients[f].phase
  BY <1>1, <1>2, <1>5
<1> QED
  BY <1>3, <1>4, <1>5

\* recv and handleWrite: close, or change the phase and the write interest.
LEMMA HandlersKeepTables ==
    ASSUME TypeOK, TablesInv, OnData \/ OnWritable PROVE TablesInv'
<1> DEFINE fd == Head(batch).fd
           Quiet == UNCHANGED <<owner, backlog>> /\ interests' = epoll' /\ SameEvents
<1>1. BatchType /\ interests = epoll /\ TablesAgree
  BY DEF TypeOK, BatchType, TablesInv, TablesAgree
<1>2. fd \in Descriptors
  <2>1. (Dispatching("IN") /\ fd \notin Listeners) \/ Dispatching("OUT")
    BY DEF OnData, OnWritable
  <2> QED
    BY <1>1, <2>1, DispatchedDescriptor
<1>3. UNCHANGED backlog
  BY DEF OnData, OnWritable
<1>4. CASE CleanupClients({fd})
  BY <1>3, <1>4, CleanupKeepsTables
<1>5. ASSUME UNCHANGED <<owner, peer>>,
             \/ UNCHANGED <<epoll, interests>>
             \/ \E enable \in BOOLEAN : SetWritable(fd, enable),
             \/ UNCHANGED clients
             \/ \E p : clients' = [clients EXCEPT ![fd].phase = p, ![fd].idle = 0]
             \/ clients' = [clients EXCEPT ![fd].idle = 0]
             \/ \E p : clients' = [clients EXCEPT ![fd].idle = 0, ![fd].phase = p]
      PROVE  TablesInv'
  <2> HIDE DEF fd
  <2>1. \A f \in Descriptors : clients'[f].conn = clients[f].conn
    <3>1. clients \in [Descriptors -> ClientEntry]
      BY DEF TypeOK
    <3> QED
      BY <1>2, <1>5, <3>1, UpdatedClient
  <2>2. Quiet
    BY <1>1, <1>2, <1>3, <1>5, SetWritableKeepsTables DEF SameEvents
  <2> QED
    BY <1>3, <1>5, <2>1, <2>2, SameOwnersKeepTables
<1> HIDE DEF fd
<1>6. CASE OnData
  BY <1>4, <1>5, <1>6 DEF OnData, fd, kernelVars, tableVars
<1>7. CASE OnWritable
  BY <1>4, <1>5, <1>7 DEF OnWritable, fd, kernelVars, tableVars
<1> QED
  BY <1>6, <1>7

\* A new connection waits in one backlog.
LEMMA ConnectKeepsTables ==
    ASSUME TypeOK, TablesInv, NEW c \in Conns, NEW l \in Listeners, Connect(c, l)
    PROVE  TablesInv'
<1>1. /\ peer[c] = "none" /\ peer' = [peer EXCEPT ![c] = "open"]
      /\ backlog' = [backlog EXCEPT ![l] = Append(@, c)]
      /\ UNCHANGED <<owner, epoll, interests, clients>>
  BY DEF Connect, kernelVars, tableVars
<1>2. TablesAgree'
  <2>1. Open' = Open
    BY <1>1 DEF Open
  <2> QED
    BY <1>1, <2>1 DEF TablesInv, TablesAgree
<1> DEFINE s == backlog[l]
<1>3. s \in Seq(Conns)
  BY DEF TypeOK
<1>4. backlog'[l] = Append(s, c) /\ \A m \in Listeners \ {l} : backlog'[m] = backlog[m]
  BY <1>1 DEF TypeOK
<1> HIDE DEF s
<1>5. \A i \in DOMAIN Append(s, c) :
         \/ i \in DOMAIN s /\ Append(s, c)[i] = s[i]
         \/ i = Len(s) + 1 /\ Append(s, c)[i] = c
  BY <1>3
<1>6. \A m \in Listeners : \A i \in DOMAIN backlog'[m] :
         \/ i \in DOMAIN backlog[m] /\ backlog'[m][i] = backlog[m][i]
         \/ m = l /\ i = Len(s) + 1 /\ backlog'[m][i] = c
  BY <1>4, <1>5 DEF s
<1>7. /\ \A fd \in Descriptors : owner[fd] # c
      /\ \A m \in Listeners : \A i \in DOMAIN backlog[m] : backlog[m][i] # c
  BY <1>1 DEF TablesInv, NewIsNowhere
<1>8. QueuedOnce'
  <2> SUFFICES ASSUME NEW m \in Listeners, NEW n \in Listeners,
                      NEW i \in DOMAIN backlog'[m], NEW j \in DOMAIN backlog'[n],
                      backlog'[m][i] = backlog'[n][j]
               PROVE  m = n /\ i = j
    BY DEF QueuedOnce
  <2>1. CASE i \in DOMAIN backlog[m] /\ backlog'[m][i] = backlog[m][i]
    <3>1. j \in DOMAIN backlog[n] /\ backlog'[n][j] = backlog[n][j]
      BY <1>6, <1>7, <2>1
    <3>2. backlog[m][i] = backlog[n][j]
      BY <2>1, <3>1
    <3> QED
      BY <2>1, <3>1, <3>2 DEF TablesInv, QueuedOnce
  <2>2. CASE m = l /\ i = Len(s) + 1 /\ backlog'[m][i] = c
    BY <1>6, <1>7, <2>2
  <2> QED
    BY <1>6, <2>1, <2>2
<1>9. QueuedNotOpen'
  <2> SUFFICES ASSUME NEW m \in Listeners, NEW i \in DOMAIN backlog'[m], NEW fd \in Descriptors
               PROVE  owner[fd] # backlog'[m][i]
    BY <1>1 DEF QueuedNotOpen
  <2> QED
    BY <1>6, <1>7 DEF TablesInv, QueuedNotOpen
<1>10. NewIsNowhere'
  <2> SUFFICES ASSUME NEW d \in Conns, peer'[d] = "none"
               PROVE  /\ \A fd \in Descriptors : owner[fd] # d
                      /\ \A m \in Listeners : \A i \in DOMAIN backlog'[m] : backlog'[m][i] # d
    BY <1>1 DEF NewIsNowhere
  <2>1. d # c /\ peer[d] = "none"
    BY <1>1 DEF TypeOK
  <2>2. /\ \A fd \in Descriptors : owner[fd] # d
        /\ \A m \in Listeners : \A i \in DOMAIN backlog[m] : backlog[m][i] # d
    BY <2>1 DEF TablesInv, NewIsNowhere
  <2> QED
    BY <1>6, <2>1, <2>2
<1> QED
  BY <1>2, <1>8, <1>9, <1>10 DEF TablesInv

\* The invariant that makes TablesAgree inductive.
LEMMA TablesInvariant == Spec => []TablesInv
<1>1. Init => TablesInv
  <2> SUFFICES ASSUME Init PROVE TablesInv
    OBVIOUS
  <2>1. /\ \A fd \in Descriptors : owner[fd] = None /\ epoll[fd] = {} /\ clients[fd].conn = None
        /\ interests = epoll /\ \A l \in Listeners : backlog[l] = <<>>
    BY DEF Init, NoClient
  <2>2. TablesAgree
    BY <2>1 DEF TablesAgree, Open
  <2>3. QueuedOnce /\ QueuedNotOpen
    BY <2>1 DEF QueuedOnce, QueuedNotOpen
  <2>4. NewIsNowhere
    BY <2>1, DescriptorsAssumption DEF NewIsNowhere
  <2> QED
    BY <2>2, <2>3, <2>4 DEF TablesInv
<1>2. TypeOK /\ TablesInv /\ [Next]_vars => TablesInv'
  <2> SUFFICES ASSUME TypeOK, TablesInv, [Next]_vars PROVE TablesInv'
    OBVIOUS
  <2>1. interests = epoll
    BY DEF TablesInv, TablesAgree
  <2>2. ASSUME NEW c \in Conns, NEW l \in Listeners, Connect(c, l) PROVE TablesInv'
    BY <2>2, ConnectKeepsTables
  <2>3. ASSUME UNCHANGED <<owner, epoll, interests, clients, backlog>>,
               \A c \in Conns : peer'[c] = "none" => peer[c] = "none"
        PROVE  TablesInv'
    BY <2>1, <2>3, SameOwnersKeepTables DEF SameEvents
  <2>4. ASSUME NEW c \in Conns, Send(c) PROVE TablesInv'
    BY <2>3, <2>4 DEF Send, kernelVars, tableVars
  <2>5. ASSUME NEW c \in Conns, HangUp(c) PROVE TablesInv'
    <3>1. \A d \in Conns : peer'[d] = "none" => peer[d] = "none"
      BY <2>5 DEF HangUp, TypeOK
    <3> QED
      BY <2>3, <2>5, <3>1 DEF HangUp, kernelVars, tableVars
  <2>6. CASE Elapse
    <3>1. \A fd \in Descriptors : clients[fd] \in ClientEntry
      BY DEF TypeOK
    <3>2. \A fd \in Descriptors : clients'[fd].conn = clients[fd].conn
      BY <2>6, <3>1 DEF Elapse, ClientEntry
    <3> QED
      BY <2>1, <2>6, <3>2, SameOwnersKeepTables DEF Elapse, kernelVars, SameEvents
  <2>7. ASSUME NEW canWrite, Poll(canWrite) PROVE TablesInv'
    BY <2>3, <2>7 DEF Poll, kernelVars, tableVars
  <2>8. CASE OnAccept
    BY <2>8, AcceptKeepsTables
  <2>9. CASE OnData \/ OnWritable
    BY <2>9, HandlersKeepTables
  <2>10. CASE OnHangup
    BY <2>10, CleanupKeepsTables DEF OnHangup
  <2>11. CASE OnTick
    BY <2>11, CleanupKeepsTables DEF OnTick
  <2>12. CASE UNCHANGED vars
    BY <2>3, <2>12 DEF vars, kernelVars, tableVars
  <2> QED
    BY <2>2, <2>4, <2>5, <2>6, <2>7, <2>8, <2>9, <2>10, <2>11, <2>12 DEF Next, Peers, Loop
<1> QED
  BY <1>1, <1>2, TypeCorrect, PTL DEF Spec

\* A descriptor is open exactly while it is registered, known to _interests
\* and has a client, its own: whatever fails in handleNewConnection and
\* whichever handler closes it.
THEOREM TablesCorrect == Spec => []TablesAgree
<1>1. TablesInv => TablesAgree
  BY DEF TablesInv
<1> QED
  BY <1>1, TablesInvariant, PTL

-----------------------------------------------------------------------------
(***************************************************************************)
(* Write interest follows the phases.                                      *)
(***************************************************************************)
\* A client that waits to write keeps waiting when more is received.
LEMMA WaitingStays ==
    ASSUME NEW q \in Phase!Phases, NEW p \in Phase!AfterRead[q], Phase!Waiting(q)
    PROVE  Phase!Waiting(p)
BY DEF Phase!Phases, Phase!AfterRead, Phase!Waiting

\* Steps that leave phases and epoll alone.
LEMMA SamePhasesKeepInterest ==
    ASSUME WriteInterest, UNCHANGED epoll,
           \A f \in Descriptors : /\ clients'[f].conn = clients[f].conn
                                  /\ clients'[f].phase = clients[f].phase
    PROVE  WriteInterest'
BY DEF WriteInterest, Has

\* A closed descriptor is not registered.
LEMMA CleanupKeepsInterest ==
    ASSUME TypeOK, WriteInterest, NEW fds, CleanupClients(fds)
    PROVE  WriteInterest'
<1>1. \A fd \in Descriptors :
        /\ epoll'[fd] = IF fd \in fds THEN {} ELSE epoll[fd]
        /\ clients'[fd] = IF fd \in fds THEN NoClient ELSE clients[fd]
  BY DEF CleanupClients
<1>2. NoClient.conn = None
  BY DEF NoClient
<1> QED
  BY <1>1, <1>2 DEF WriteInterest, Has

\* recv: the interest is set when there is something to write.
LEMMA DataKeepsInterest ==
    ASSUME TypeOK, TablesAgree, WriteInterest, OnData PROVE WriteInterest'
<1> DEFINE fd == Head(batch).fd
<1>1. fd \in Descriptors
  BY DispatchedDescriptor DEF OnData, TypeOK, BatchType
<1>2. CASE UNCHANGED <<peer, unread, kernelVars, tableVars>>
  BY <1>2, SamePhasesKeepInterest DEF kernelVars, tableVars
<1>3. CASE CleanupClients({fd})
  BY <1>3, CleanupKeepsInterest
<1> HIDE DEF fd
<1>4. ASSUME Has(fd), NEW p \in Phase!AfterRead[clients[fd].phase],
             clients' = [clients EXCEPT ![fd].phase = p, ![fd].idle = 0],
             IF Phase!Waiting(p) THEN SetWritable(fd, TRUE) ELSE UNCHANGED <<epoll, interests>>
      PROVE  WriteInterest'
  <2>1. clients \in [Descriptors -> ClientEntry] /\ clients[fd].phase \in Phase!Phases
    BY <1>1, EntryFields DEF TypeOK
  <2>2. /\ clients'[fd].phase = p
        /\ \A f \in Descriptors : clients'[f].conn = clients[f].conn
        /\ \A f \in Descriptors \ {fd} : clients'[f].phase = clients[f].phase
    BY <1>1, <1>4, <2>1, UpdatedClient
  <2>3. epoll[fd] # {}
    BY <1>1, <1>4 DEF TablesAgree, Has, ClientEvents
  <2>4. CASE Phase!Waiting(p)
    <3>1. "OUT" \in epoll'[fd] /\ \A f \in Descriptors \ {fd} : epoll'[f] = epoll[f]
      BY <1>1, <1>4, <2>3, <2>4, SetWritableKeepsTables DEF WritableEvents
    <3> QED
      BY <1>4, <2>2, <2>4, <3>1 DEF WriteInterest, Has
  <2>5. CASE ~Phase!Waiting(p)
    <3>1. ~Phase!Waiting(clients[fd].phase)
      BY <2>1, <2>5, WaitingStays
    <3>2. UNCHANGED epoll
      BY <1>4, <2>5
    <3> QED
      BY <1>1, <2>2, <2>5, <3>1, <3>2 DEF WriteInterest, Has
  <2> QED
    BY <2>4, <2>5
<1> QED
  BY <1>2, <1>3, <1>4 DEF OnData, fd

\* handleWrite: the interest is dropped when nothing is left.
LEMMA WritableKeepsInterest ==
    ASSUME TypeOK, TablesAgree, WriteInterest, OnWritable PROVE WriteInterest'
<1> DEFINE fd == Head(batch).fd
<1>1. fd \in Descriptors /\ clients \in [Descriptors -> ClientEntry]
  BY DispatchedDescriptor DEF OnWritable, TypeOK, BatchType
<1>2. CASE UNCHANGED <<kernelVars, tableVars>>
  BY <1>2, SamePhasesKeepInterest DEF kernelVars, tableVars
<1>3. CASE CleanupClients({fd})
  BY <1>3, CleanupKeepsInterest
<1> HIDE DEF fd
<1>4. ASSUME Has(fd), SetWritable(fd, FALSE)
      PROVE  "OUT" \notin epoll'[fd] /\ \A f \in Descriptors \ {fd} : epoll'[f] = epoll[f]
  <2>1. epoll[fd] # {}
    BY <1>1, <1>4 DEF TablesAgree, Has, ClientEvents
  <2> QED
    BY <1>1, <1>4, <2>1, SetWritableKeepsTables DEF WritableEvents
<1>5. CASE /\ Has(fd) /\ ~Phase!Waiting(clients[fd].phase)
           /\ SetWritable(fd, FALSE) /\ UNCHANGED clients
  BY <1>4, <1>5 DEF WriteInterest, Has
<1>6. CASE clients' = [clients EXCEPT ![fd].idle = 0] /\ UNCHANGED kernelVars
  BY <1>1, <1>6, UpdatedClient, SamePhasesKeepInterest DEF kernelVars
<1>7. CASE /\ Has(fd) /\ SetWritable(fd, FALSE)
           /\ clients' = [clients EXCEPT ![fd].idle = 0, ![fd].phase = "reading"]
  <2>1. /\ clients'[fd].phase = "reading"
        /\ \A f \in Descriptors : clients'[f].conn = clients[f].conn
        /\ \A f \in Descriptors \ {fd} : clients'[f].phase = clients[f].phase
    BY <1>1, <1>7, UpdatedClient
  <2>2. ~Phase!Waiting(clients'[fd].phase)
    BY <2>1 DEF Phase!Waiting
  <2> QED
    BY <1>4, <1>7, <2>1, <2>2 DEF WriteInterest, Has
<1> QED
  BY <1>2, <1>3, <1>5, <1>6, <1>7 DEF OnWritable, fd

\* For every number of connections and descriptors: EPOLLOUT is registered for
\* exactly the clients that have something to write.
THEOREM InterestCorrect == Spec => []WriteInterest
<1>1. Init => WriteInterest
  BY DEF Init, WriteInterest, Has, NoClient
<1>2. TypeOK /\ TablesAgree /\ WriteInterest /\ [Next]_vars => WriteInterest'
  <2> SUFFICES ASSUME TypeOK, TablesAgree, WriteInterest, [Next]_vars PROVE WriteInterest'
    OBVIOUS
  <2>1. ASSUME UNCHANGED <<epoll, clients>> PROVE WriteInterest'
    BY <2>1, SamePhasesKeepInterest
  <2>2. ASSUME NEW c, NEW l, Connect(c, l) PROVE WriteInterest'
    BY <2>1, <2>2 DEF Connect, kernelVars, tableVars
  <2>3. ASSUME NEW c, Send(c) \/ HangUp(c) PROVE WriteInterest'
    BY <2>1, <2>3 DEF Send, HangUp, kernelVars, tableVars
  <2>4. CASE Elapse
    <3>1. \A fd \in Descriptors : clients[fd] \in ClientEntry
      BY DEF TypeOK
    <3>2. \A fd \in Descriptors : /\ clients'[fd].conn = clients[fd].conn
                                  /\ clients'[fd].phase = clients[fd].phase
      BY <2>4, <3>1 DEF Elapse, ClientEntry
    <3> QED
      BY <2>4, <3>2, SamePhasesKeepInterest DEF Elapse, kernelVars
  <2>5. ASSUME NEW canWrite, Poll(canWrite) PROVE WriteInterest'
    BY <2>1, <2>5 DEF Poll, kernelVars, tableVars
  <2>6. CASE OnAccept
    <3>1. CASE UNCHANGED <<epoll, clients>>
      BY <2>1, <3>1
    <3>2. ASSUME NEW c, NEW fd,
                 epoll' = [epoll EXCEPT ![fd] = ClientEvents],
                 clients' = [clients EXCEPT ![fd] = [NoClient EXCEPT !.conn = c]]
          PROVE  WriteInterest'
      <4>1. [NoClient EXCEPT !.conn = c].phase = "reading" /\ ~Phase!Waiting("reading")
        BY DEF NoClient, Phase!Waiting
      <4>2. \A f \in Descriptors \ {fd} : clients'[f] = clients[f] /\ epoll'[f] = epoll[f]
        BY <3>2 DEF TypeOK
      <4>3. fd \in Descriptors => "OUT" \notin epoll'[fd] /\ clients'[fd].phase = "reading"
        BY <3>2, <4>1 DEF TypeOK, ClientEvents
      <4> QED
        BY <4>1, <4>2, <4>3 DEF WriteInterest, Has
    <3> QED
      BY <2>6, <3>1, <3>2 DEF OnAccept, kernelVars, tableVars
  <2>7. CASE OnData
    BY <2>7, DataKeepsInterest
  <2>8. CASE OnWritable
    BY <2>8, WritableKeepsInterest
  <2>9. CASE OnHangup
    BY <2>9, CleanupKeepsInterest DEF OnHangup
  <2>10. CASE OnTick
    BY <2>10, CleanupKeepsInterest DEF OnTick
  <2>11. CASE UNCHANGED vars
    BY <2>1, <2>11 DEF vars, kernelVars, tableVars
  <2> QED
    BY <2>2, <2>3, <2>4, <2>5, <2>6, <2>7, <2>8, <2>9, <2>10, <2>11 DEF Next, Peers, Loop
<1> QED
  BY <1>1, <1>2, TypeCorrect, TablesCorrect, PTL DEF Spec

-----------------------------------------------------------------------------
(***************************************************************************)
(* Events are about the connection they were reported for.  What makes it  *)
(* inductive: a batch names a descriptor once, an entry has an owner, and  *)
(* only the first entry, the one being dispatched, can have lost it.       *)
(***************************************************************************)
NamedOnce == \A i, j \in DOMAIN batch : batch[i].fd = batch[j].fd => i = j

EntryOwned(i) ==
    batch[i].fd \in Descriptors =>
        /\ batch[i].of # None
        /\ \/ owner[batch[i].fd] = batch[i].of
           \/ i = 1 /\ owner[batch[i].fd] = None

Heard(c) == unread[c] \/ Gone(c)

EntryReadable(i) ==
    /\ batch[i].fd \in Descriptors /\ "IN" \in batch[i].ev
    /\ owner[batch[i].fd] = batch[i].of
    => Heard(batch[i].of)

EventsInv == NamedOnce /\ \A i \in DOMAIN batch : EntryOwned(i) /\ EntryReadable(i)

\* Entry j of the batch that is left is entry j + shift of the batch before.
ComesFrom(left, before, j, shift, done) ==
    /\ j \in Nat \ {0} /\ j + shift \in DOMAIN before
    /\ IF j + shift = 1
       THEN left[j] = [before[1] EXCEPT !.ev = @ \ done]
       ELSE left[j] = before[j + shift]

\* What is left of a batch: the first entry with fewer events, or the others.
LEMMA LeftParts ==
    ASSUME BatchType, batch # <<>>, NEW done, batch' = Left(done) \/ batch' = Tail(batch)
    PROVE  \E shift \in {0, 1} : \A j \in DOMAIN batch' : ComesFrom(batch', batch, j, shift, done)
<1>1. CASE batch' = Tail(batch)
  <2>1. \A j \in DOMAIN batch' : j \in Nat \ {0} /\ j + 1 \in DOMAIN batch /\ batch'[j] = batch[j + 1]
    BY <1>1 DEF BatchType
  <2>2. \A j \in Nat \ {0} : j + 1 # 1
    OBVIOUS
  <2> QED
    BY <2>1, <2>2 DEF ComesFrom
<1>2. CASE batch' = [batch EXCEPT ![1] = [batch[1] EXCEPT !.ev = @ \ done]]
  <2>1. 1 \in DOMAIN batch /\ DOMAIN batch' = DOMAIN batch
    BY <1>2, BatchFields
  <2>2. \A j \in DOMAIN batch : j \in Nat \ {0} /\ j + 0 = j
    BY DEF BatchType
  <2>3. \A j \in DOMAIN batch : batch'[j] = IF j = 1 THEN [batch[1] EXCEPT !.ev = @ \ done] ELSE batch[j]
    BY <1>2, <2>1
  <2> QED
    BY <2>1, <2>2, <2>3 DEF ComesFrom
<1>3. batch' = Tail(batch) \/ batch' = [batch EXCEPT ![1] = [batch[1] EXCEPT !.ev = @ \ done]]
  BY DEF Left
<1> QED
  BY <1>1, <1>2, <1>3

\* A handler that leaves the other connections alone, opens free descriptors at
\* most, and is done with EPOLLIN when it leaves its entry in the batch.
LEMMA HandlerKeepsEvents ==
    ASSUME TypeOK, EventsInv, batch # <<>>,
           NEW done, batch' = Left(done) \/ batch' = Tail(batch), "IN" \notin Head(batch).ev \ done,
           Head(batch).fd \in Descriptors
             => owner'[Head(batch).fd] \in {None, owner[Head(batch).fd]},
           \A fd \in Descriptors \ {Head(batch).fd}, c \in Conns :
               owner[fd] = c => owner'[fd] = c /\ (Heard(c) => Heard(c)')
    PROVE  EventsInv'
<1>1. BatchType
  BY DEF TypeOK, BatchType
<1>2. PICK shift \in {0, 1} : \A j \in DOMAIN batch' : ComesFrom(batch', batch, j, shift, done)
  BY <1>1, LeftParts
<1>3. \A i \in DOMAIN batch : batch[i] \in BatchEntry
  BY <1>1 DEF BatchType
<1>4. Head(batch) = batch[1] /\ 1 \in DOMAIN batch
  BY <1>1, BatchFields
<1>5. ASSUME NEW j \in DOMAIN batch'
      PROVE  /\ batch'[j].fd = batch[j + shift].fd /\ batch'[j].of = batch[j + shift].of
             /\ batch'[j].ev \subseteq batch[j + shift].ev
             /\ j + shift = 1 => "IN" \notin batch'[j].ev
  <2>1. CASE j + shift = 1
    <3>1. batch'[j] = [batch[1] EXCEPT !.ev = @ \ done]
      BY <1>2, <2>1 DEF ComesFrom
    <3>2. /\ batch'[j].fd = batch[1].fd /\ batch'[j].of = batch[1].of
          /\ batch'[j].ev = batch[1].ev \ done
      BY <1>3, <1>4, <3>1 DEF BatchEntry
    <3> QED
      BY <1>4, <2>1, <3>2
  <2>2. CASE j + shift # 1
    BY <1>2, <2>2 DEF ComesFrom
  <2> QED
    BY <2>1, <2>2
<1>6. NamedOnce'
  <2> SUFFICES ASSUME NEW i \in DOMAIN batch', NEW j \in DOMAIN batch', batch'[i].fd = batch'[j].fd
               PROVE  i = j
    BY DEF NamedOnce
  <2>1. i + shift \in DOMAIN batch /\ j + shift \in DOMAIN batch /\ i \in Nat /\ j \in Nat
    BY <1>2 DEF ComesFrom
  <2>2. batch[i + shift].fd = batch[j + shift].fd
    BY <1>5
  <2>3. i + shift = j + shift
    BY <2>1, <2>2 DEF EventsInv, NamedOnce
  <2> QED
    BY <2>1, <2>3
<1>7. ASSUME NEW j \in DOMAIN batch', batch'[j].fd \in Descriptors
      PROVE  EntryOwned(j)' /\ EntryReadable(j)'
  <2> DEFINE i == j + shift
             fd == batch[i].fd
  <2>1. i \in DOMAIN batch /\ fd \in Descriptors /\ batch'[j].fd = fd /\ batch'[j].of = batch[i].of
    BY <1>2, <1>5, <1>7 DEF ComesFrom
  <2>2. EntryOwned(i) /\ EntryReadable(i)
    BY <2>1 DEF EventsInv
  <2>3. CASE i = 1
    <3>1. owner'[fd] \in {None, owner[fd]} /\ "IN" \notin batch'[j].ev
      BY <1>4, <1>5, <2>1, <2>3
    <3>2. j = 1
      BY <1>2, <2>3 DEF ComesFrom
    <3> QED
      BY <2>1, <2>2, <2>3, <3>1, <3>2 DEF EntryOwned, EntryReadable
  <2>4. CASE i # 1
    <3>1. owner[fd] = batch[i].of /\ owner[fd] \in Conns
      BY <2>1, <2>2, <2>4 DEF EntryOwned, TypeOK
    <3> PICK c \in Conns : c = batch[i].of
      BY <3>1
    <3>2. fd # Head(batch).fd
      BY <1>4, <2>1, <2>4 DEF EventsInv, NamedOnce
    <3>3. owner'[fd] = c /\ (Heard(c) => Heard(c)')
      BY <2>1, <3>1, <3>2
    <3>4. batch'[j].ev \subseteq batch[i].ev
      BY <1>5
    <3>5. EntryOwned(j)'
      BY <2>1, <2>2, <3>1, <3>3 DEF EntryOwned
    <3>6. EntryReadable(j)'
      <4>1. "IN" \in batch'[j].ev => Heard(c)
        BY <2>1, <2>2, <3>1, <3>4 DEF EntryReadable
      <4> QED
        BY <2>1, <3>3, <4>1 DEF EntryReadable, Heard, Gone
    <3> QED
      BY <3>5, <3>6
  <2> QED
    BY <2>3, <2>4
<1>8. \A j \in DOMAIN batch' : EntryOwned(j)' /\ EntryReadable(j)'
  <2>1. ASSUME NEW j \in DOMAIN batch', batch'[j].fd \notin Descriptors
        PROVE  EntryOwned(j)' /\ EntryReadable(j)'
    BY <2>1 DEF EntryOwned, EntryReadable
  <2> QED
    BY <1>7, <2>1
<1> QED
  BY <1>6, <1>8 DEF EventsInv

\* While nothing is dispatched the batch stays, and owners do.
LEMMA IdleKeepsEvents ==
    ASSUME EventsInv, UNCHANGED <<batch, owner>>,
           \A i \in DOMAIN batch, c \in Conns :
              batch[i].fd \in Descriptors /\ owner[batch[i].fd] = c /\ Heard(c) => Heard(c)',
           \A i \in DOMAIN batch : batch[i].fd \in Descriptors => owner[batch[i].fd] \in Conns \cup {None}
    PROVE  EventsInv'
<1>1. NamedOnce'
  BY DEF EventsInv, NamedOnce
<1>2. ASSUME NEW i \in DOMAIN batch
      PROVE  EntryOwned(i)' /\ EntryReadable(i)'
  <2>1. EntryOwned(i)'
    BY DEF EventsInv, EntryOwned
  <2>2. EntryReadable(i)'
    <3> SUFFICES ASSUME batch[i].fd \in Descriptors, "IN" \in batch[i].ev,
                        owner[batch[i].fd] = batch[i].of
                 PROVE  unread'[batch[i].of] \/ peer'[batch[i].of] \in {"shutdown", "reset", "broken"}
      BY DEF EntryReadable, Heard, Gone
    <3>1. batch[i].of \in Conns
      BY DEF EventsInv, EntryOwned
    <3> PICK c \in Conns : c = batch[i].of
      BY <3>1
    <3>2. Heard(c)
      BY DEF EventsInv, EntryReadable
    <3>3. Heard(c)'
      BY <3>2
    <3> QED
      BY <3>3 DEF Heard, Gone
  <2> QED
    BY <2>1, <2>2
<1> QED
  BY <1>1, <1>2 DEF EventsInv

\* Closing the descriptor of the entry being dispatched.
LEMMA ClosingKeepsEvents ==
    ASSUME TypeOK, TablesAgree, EventsInv, batch # <<>>,
           NEW done, batch' = Left(done) \/ batch' = Tail(batch), "IN" \notin Head(batch).ev \ done,
           Head(batch).fd \in Descriptors, CleanupClients({Head(batch).fd})
    PROVE  EventsInv'
<1> DEFINE fd == Head(batch).fd
<1>1. \A f \in Descriptors : owner'[f] = IF f = fd THEN None ELSE owner[f]
  BY DEF CleanupClients
<1>2. ASSUME NEW f \in Descriptors \ {fd}, NEW c \in Conns, owner[f] = c
      PROVE  owner'[f] = c /\ (Heard(c) => Heard(c)')
  <2>1. owner[fd] # c
    BY <1>2, DescriptorsAssumption DEF TablesAgree, Open
  <2>2. peer'[c] = peer[c] /\ unread'[c] = unread[c]
    BY <2>1 DEF CleanupClients, TypeOK
  <2> QED
    BY <1>1, <1>2, <2>2 DEF Heard, Gone
<1> QED
  BY <1>1, <1>2, HandlerKeepsEvents

\* epoll_wait reports each descriptor once, to its owner.
LEMMA PollEvents ==
    ASSUME TypeOK, TablesAgree, WriteInterest, NEW canWrite, Poll(canWrite)
    PROVE  EventsInv'
<1> DEFINE listening == {l \in Listeners : backlog[l] # <<>>}
           ready == listening \cup {fd \in Descriptors : Ready(fd, canWrite) # {}}
<1>1. UNCHANGED <<owner, unread, peer>>
  BY DEF Poll, kernelVars
<1>2. PICK reported \in SUBSET ready : \E order \in SetToSeqs(reported) :
        batch' = [i \in DOMAIN order |->
                    LET fd == order[i]
                    IN  IF fd \in Listeners
                        THEN [fd |-> fd, ev |-> {"IN"}, of |-> None]
                        ELSE [fd |-> fd, ev |-> Ready(fd, canWrite), of |-> owner[fd]]]
  BY DEF Poll
<1>3. PICK order \in SetToSeqs(reported) :
        batch' = [i \in DOMAIN order |->
                    LET fd == order[i]
                    IN  IF fd \in Listeners
                        THEN [fd |-> fd, ev |-> {"IN"}, of |-> None]
                        ELSE [fd |-> fd, ev |-> Ready(fd, canWrite), of |-> owner[fd]]]
  BY <1>2
<1>4. /\ \A i \in DOMAIN order : order[i] \in ready
      /\ \A i, j \in DOMAIN order : order[i] = order[j] => i = j
  BY DEF SetToSeqs
<1>5. DOMAIN batch' = DOMAIN order
  BY <1>3
<1>6. ASSUME NEW i \in DOMAIN order
      PROVE  /\ batch'[i].fd = order[i]
             /\ order[i] \notin Listeners =>
                  batch'[i].ev = Ready(order[i], canWrite) /\ batch'[i].of = owner[order[i]]
  <2>1. batch'[i] = IF order[i] \in Listeners
                    THEN [fd |-> order[i], ev |-> {"IN"}, of |-> None]
                    ELSE [fd |-> order[i], ev |-> Ready(order[i], canWrite), of |-> owner[order[i]]]
    BY <1>3
  <2> HIDE DEF ready
  <2> QED
    BY <2>1
<1>7. NamedOnce'
  BY <1>4, <1>5, <1>6 DEF NamedOnce
<1>8. ASSUME NEW i \in DOMAIN batch', batch'[i].fd \in Descriptors
      PROVE  EntryOwned(i)' /\ EntryReadable(i)'
  <2> DEFINE fd == order[i]
  <2>1. fd \in Descriptors /\ fd \notin Listeners
    BY <1>5, <1>6, <1>8, DescriptorsAssumption
  <2>2. /\ batch'[i].fd = fd /\ batch'[i].ev = Ready(fd, canWrite) /\ batch'[i].of = owner[fd]
        /\ Ready(fd, canWrite) # {}
    BY <1>4, <1>5, <1>6, <2>1
  <2>3. owner[fd] # None
    BY <2>1, <2>2 DEF Ready, TablesAgree
  <2>4. "IN" \in Ready(fd, canWrite) => Heard(owner[fd])
    BY DEF Ready, Heard
  <2>5. owner'[batch'[i].fd] = batch'[i].of /\ batch'[i].of # None
    BY <1>1, <2>2, <2>3
  <2>6. EntryOwned(i)'
    BY <2>5 DEF EntryOwned
  <2> HIDE DEF fd
  <2>7. EntryReadable(i)'
    BY <1>1, <2>2, <2>4 DEF EntryReadable, Heard, Gone
  <2> QED
    BY <2>6, <2>7
<1>9. ASSUME NEW i \in DOMAIN batch', batch'[i].fd \notin Descriptors
      PROVE  EntryOwned(i)' /\ EntryReadable(i)'
  BY <1>9 DEF EntryOwned, EntryReadable
<1> QED
  BY <1>7, <1>8, <1>9 DEF EventsInv

\* accept gives out a free descriptor, which no entry of the batch names.
LEMMA AcceptKeepsEvents ==
    ASSUME TypeOK, TablesInv, EventsInv, OnAccept PROVE EventsInv'
<1> DEFINE l == Head(batch).fd
           c == Head(backlog[l])
           fd == CHOOSE f \in Free : \A g \in Free : f <= g
<1>1. /\ Dispatching("IN") /\ l \in Listeners /\ l \notin Descriptors
      /\ batch' = Left({"IN"}) /\ batch # <<>>
  BY DescriptorsAssumption DEF OnAccept, Dispatching
<1>2. "IN" \notin Head(batch).ev \ {"IN"}
  OBVIOUS
<1>3. ASSUME \A f \in Descriptors, d \in Conns :
                owner[f] = d => owner'[f] = d /\ (Heard(d) => Heard(d)')
      PROVE  EventsInv'
  BY <1>1, <1>2, <1>3, HandlerKeepsEvents
<1>4. CASE UNCHANGED <<peer, unread, backlog, kernelVars, tableVars>>
  BY <1>3, <1>4 DEF kernelVars, Heard, Gone
<1>5. ASSUME Free # {}, backlog[l] # <<>>
      PROVE  /\ fd \in Descriptors /\ owner[fd] = None
             /\ \A f \in Descriptors : owner[f] # c
  <2>1. backlog[l] \in Seq(Conns) /\ c = backlog[l][1] /\ 1 \in DOMAIN backlog[l]
    BY <1>1, <1>5, TailOfBacklog DEF TypeOK
  <2> HIDE DEF c, l
  <2>2. \A f \in Descriptors : owner[f] # c
    BY <1>1, <2>1 DEF TablesInv, QueuedNotOpen
  <2> QED
    BY <1>5, <2>2, LowestIsFree DEF Free, Open
<1> HIDE DEF l, c, fd
<1>6. CASE /\ Free # {} /\ backlog[l] # <<>>
           /\ owner' = OwnerWhenRefused(fd, c)
           /\ peer' = [peer EXCEPT ![c] = "closed"]
           /\ unread' = [unread EXCEPT ![c] = FALSE]
  <2>1. ASSUME NEW f \in Descriptors, NEW d \in Conns, owner[f] = d
        PROVE  owner'[f] = d /\ (Heard(d) => Heard(d)')
    <3>1. owner'[f] = d /\ d # c
      BY <1>5, <1>6, <2>1 DEF OwnerWhenRefused
    <3>2. peer'[d] = peer[d] /\ unread'[d] = unread[d]
      BY <1>6, <3>1 DEF TypeOK
    <3> QED
      BY <3>1, <3>2 DEF Heard, Gone
  <2> QED
    BY <1>3, <2>1
<1>7. CASE /\ Free # {} /\ backlog[l] # <<>>
           /\ owner' = [owner EXCEPT ![fd] = c]
           /\ UNCHANGED <<peer, unread>>
  <2>1. ASSUME NEW f \in Descriptors, NEW d \in Conns, owner[f] = d
        PROVE  owner'[f] = d /\ (Heard(d) => Heard(d)')
    <3>1. f # fd
      BY <1>5, <1>7, <2>1, DescriptorsAssumption
    <3>2. owner'[f] = d
      BY <1>7, <2>1, <3>1 DEF TypeOK
    <3> QED
      BY <1>7, <3>2 DEF Heard, Gone
  <2> QED
    BY <1>3, <2>1
<1> QED
  BY <1>4, <1>6, <1>7 DEF OnAccept, l, c, fd

\* recv and send act on the connection of their own entry.
LEMMA HandlersKeepEvents ==
    ASSUME TypeOK, TablesAgree, EventsInv, OnData \/ OnWritable PROVE EventsInv'
<1> DEFINE fd == Head(batch).fd
<1>1. BatchType
  BY DEF TypeOK, BatchType
<1>2. /\ batch # <<>> /\ fd \in Descriptors
      /\ \E done : batch' = Left(done) /\ "IN" \notin Head(batch).ev \ done
  <2>1. CASE OnData
    <3>1. Dispatching("IN") /\ fd \notin Listeners /\ batch' = Left({"IN"})
      BY <2>1 DEF OnData
    <3> QED
      BY <1>1, <3>1, DispatchedDescriptor
  <2>2. CASE OnWritable
    <3>1. Dispatching("OUT") /\ batch' = Left({"OUT"})
      BY <2>2 DEF OnWritable
    <3>2. "IN" \notin Head(batch).ev
      BY <3>1 DEF Dispatching
    <3> QED
      BY <1>1, <3>1, <3>2, DispatchedDescriptor
  <2> QED
    BY <2>1, <2>2
<1>3. PICK done : batch' = Left(done) /\ "IN" \notin Head(batch).ev \ done
  BY <1>2
<1>4. CASE CleanupClients({fd})
  BY <1>2, <1>3, <1>4, ClosingKeepsEvents
<1>5. ASSUME owner' = owner, peer' = peer,
             unread' = unread \/ \E rest : unread' = [unread EXCEPT ![owner[fd]] = rest]
      PROVE  EventsInv'
  <2>1. ASSUME NEW f \in Descriptors \ {fd}, NEW c \in Conns, owner[f] = c
        PROVE  owner'[f] = c /\ (Heard(c) => Heard(c)')
    <3>1. owner[fd] # c
      BY <1>2, <2>1, DescriptorsAssumption DEF TablesAgree, Open
    <3>2. unread'[c] = unread[c]
      BY <1>5, <3>1 DEF TypeOK
    <3> QED
      BY <1>5, <2>1, <3>2 DEF Heard, Gone
  <2> QED
    BY <1>2, <1>3, <1>5, <2>1, HandlerKeepsEvents
<1> HIDE DEF fd
<1>6. CASE OnData
  BY <1>4, <1>5, <1>6 DEF OnData, fd, kernelVars
<1>7. CASE OnWritable
  BY <1>4, <1>5, <1>7 DEF OnWritable, fd, kernelVars
<1> QED
  BY <1>6, <1>7

\* The invariant behind EventsAreOwn and ReadsFindSomething.
LEMMA EventsInvariant == Spec => []EventsInv
<1>1. Init => EventsInv
  BY DEF Init, EventsInv, NamedOnce
<1>2. TypeOK /\ TablesInv /\ WriteInterest /\ EventsInv /\ [Next]_vars => EventsInv'
  <2> SUFFICES ASSUME TypeOK, TablesInv, WriteInterest, EventsInv, [Next]_vars PROVE EventsInv'
    OBVIOUS
  <2>1. TablesAgree /\ BatchType
    BY DEF TablesInv, TypeOK, BatchType
  <2>2. \A fd \in Descriptors : owner[fd] \in Conns \cup {None}
    BY DEF TypeOK
  <2>3. ASSUME UNCHANGED <<batch, owner>>,
               \A fd \in Descriptors, c \in Conns : owner[fd] = c /\ Heard(c) => Heard(c)'
        PROVE  EventsInv'
    BY <2>2, <2>3, IdleKeepsEvents
  <2>4. ASSUME NEW c \in Conns, NEW l \in Listeners, Connect(c, l) PROVE EventsInv'
    <3>1. \A fd \in Descriptors : owner[fd] # c
      BY <2>4 DEF Connect, TablesInv, NewIsNowhere
    <3>2. ASSUME NEW d \in Conns, d # c, Heard(d) PROVE Heard(d)'
      BY <2>4, <3>2 DEF Connect, Heard, Gone, TypeOK
    <3> QED
      BY <2>3, <2>4, <3>1, <3>2 DEF Connect, kernelVars
  <2>5. ASSUME NEW c \in Conns, Send(c) PROVE EventsInv'
    <3>1. ASSUME NEW d \in Conns, Heard(d) PROVE Heard(d)'
      BY <2>5, <3>1 DEF Send, Heard, Gone, TypeOK
    <3> QED
      BY <2>3, <2>5, <3>1 DEF Send, kernelVars
  <2>6. ASSUME NEW c \in Conns, HangUp(c) PROVE EventsInv'
    <3>1. ASSUME NEW d \in Conns, Heard(d) PROVE Heard(d)'
      <4>1. CASE d = c
        BY <2>6, <4>1 DEF HangUp, Heard, Gone, TypeOK
      <4>2. CASE d # c
        BY <2>6, <3>1, <4>2 DEF HangUp, Heard, Gone, TypeOK
      <4> QED
        BY <4>1, <4>2
    <3> QED
      BY <2>3, <2>6, <3>1 DEF HangUp, kernelVars
  <2>7. ASSUME UNCHANGED <<batch, owner, peer, unread>> PROVE EventsInv'
    BY <2>3, <2>7 DEF Heard, Gone
  <2>8. CASE Elapse
    BY <2>7, <2>8 DEF Elapse, kernelVars
  <2>9. ASSUME NEW canWrite, Poll(canWrite) PROVE EventsInv'
    BY <2>1, <2>9, PollEvents
  <2>10. CASE OnAccept
    BY <2>10, AcceptKeepsEvents
  <2>11. CASE OnData \/ OnWritable
    BY <2>1, <2>11, HandlersKeepEvents
  <2>12. CASE OnHangup
    <3>1. batch # <<>> /\ Head(batch).fd \in Descriptors
      BY <2>1, <2>12, DispatchedDescriptor DEF OnHangup
    <3>2. "IN" \notin Head(batch).ev \ {"IN"}
      OBVIOUS
    <3> QED
      BY <2>1, <2>12, <3>1, <3>2, ClosingKeepsEvents DEF OnHangup
  <2>13. CASE OnTick
    <3>1. batch' = batch /\ DOMAIN batch = {}
      BY <2>13 DEF OnTick, BatchDone
    <3> QED
      BY <3>1 DEF EventsInv, NamedOnce
  <2>14. CASE UNCHANGED vars
    BY <2>7, <2>14 DEF vars, kernelVars
  <2> QED
    BY <2>4, <2>5, <2>6, <2>8, <2>9, <2>10, <2>11, <2>12, <2>13, <2>14 DEF Next, Peers, Loop
<1> QED
  BY <1>1, <1>2, TypeCorrect, TablesInvariant, InterestCorrect, PTL DEF Spec

\* However descriptors are closed and given out again while a batch is
\* dispatched, an event reaches the connection it was reported for or a
\* descriptor nobody has.
THEOREM EventsCorrect == Spec => []EventsAreOwn
<1>1. TypeOK /\ TablesAgree /\ EventsInv => EventsAreOwn
  BY DEF EventsInv, EntryOwned, EventsAreOwn, Free, Open
<1> QED
  BY <1>1, TypeCorrect, TablesCorrect, EventsInvariant, PTL

\* recv is never called without something to read: the code's reading of
\* EAGAIN as the end of the connection never drops a live client.
THEOREM ReadsCorrect == Spec => []ReadsFindSomething
<1>1. TablesAgree /\ EventsInv => ReadsFindSomething
  BY DEF TablesAgree, EventsInv, EntryOwned, EntryReadable, Heard, ReadsFindSomething, Has
<1> QED
  BY <1>1, TablesCorrect, EventsInvariant, PTL
=============================================================================
