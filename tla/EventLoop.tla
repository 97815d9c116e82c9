----------------------------- MODULE EventLoop -----------------------------
(***************************************************************************)
(* The event loop over all connections: EventLoop::run with the descriptor *)
(* tables of class Server, the kernel's descriptor table and epoll set,    *)
(* the backlogs of the listening sockets and the peers.  A client is       *)
(* reduced to the phases of module ClientPhase.                            *)
(*                                                                         *)
(* A batch is a snapshot: while it is dispatched, peers send, hang up and  *)
(* connect, time passes (a CGI program may run for seconds inside one      *)
(* handler) and descriptors are closed and given out again.                *)
(***************************************************************************)
EXTENDS Naturals, Sequences, FiniteSets, SequencesExt

CONSTANTS
    Conns,          \* the connections peers make
    Listeners,      \* descriptors of the listening sockets, _server_fds
    Descriptors,    \* bound: the other descriptors the process may have
    MAX_EVENTS,     \* Common.hpp:5
    CLIENT_TIMEOUT, \* Common.hpp:7, in ticks
    None            \* no connection

ASSUME DescriptorsAssumption ==
    /\ Descriptors \subseteq Nat /\ IsFiniteSet(Descriptors)
    /\ Listeners \subseteq Nat /\ IsFiniteSet(Listeners)
    /\ Descriptors \cap Listeners = {}
    /\ None \notin Conns
    /\ MAX_EVENTS \in Nat \ {0} /\ CLIENT_TIMEOUT \in Nat

Phase == INSTANCE ClientPhase WITH present <- TRUE, phase <- "reading", asks <- FALSE

VARIABLES
    peer,       \* peer[c]: what c's socket knows of its peer
    unread,     \* unread[c]: bytes are waiting in the socket
    backlog,    \* backlog[l]: connections waiting in accept's queue
    owner,      \* kernel: owner[fd] is the open connection, or None
    epoll,      \* kernel: epoll[fd], the events registered, {} when it is not
    interests,  \* _interests[fd], {} when absent
    clients,    \* _clients[fd]
    batch,      \* the events still to dispatch; "of" says whose they are
    pc, alive   \* where the loop is; the process exists

kernelVars == <<owner, epoll>>
tableVars == <<interests, clients>>
vars == <<peer, unread, backlog, kernelVars, tableVars, batch, pc, alive>>

\* "broken": a reset after the peer had shut down, when send raises SIGPIPE.
PeerStates == {"none", "open", "shutdown", "reset", "broken", "closed"}
EventNames == {"IN", "OUT", "RDHUP", "ERR"}
NoClient == [conn |-> None, phase |-> "reading", idle |-> 0]
ClientEntry == [conn : Conns \cup {None}, phase : Phase!Phases, idle : Nat]

\* What is left of one entry of the array epoll_wait fills.
BatchEntry ==
    [fd : Listeners, ev : {{"IN"}}, of : {None}]
    \cup [fd : Descriptors, ev : (SUBSET EventNames) \ {{}}, of : Conns \cup {None}]

Has(fd) == clients[fd].conn # None
Open == {fd \in Descriptors : owner[fd] # None}
Free == Descriptors \ Open
Gone(c) == peer[c] \in {"shutdown", "reset", "broken"}

Init ==
    /\ peer = [c \in Conns |-> "none"]
    /\ unread = [c \in Conns |-> FALSE]
    /\ backlog = [l \in Listeners |-> <<>>]
    /\ owner = [fd \in Descriptors |-> None]
    /\ epoll = [fd \in Descriptors |-> {}]
    /\ interests = [fd \in Descriptors |-> {}]
    /\ clients = [fd \in Descriptors |-> NoClient]
    /\ batch = <<>> /\ pc = "poll" /\ alive = TRUE

-----------------------------------------------------------------------------
(***************************************************************************)
(* Peers and the clock.                                                    *)
(***************************************************************************)
Connect(c, l) ==
    /\ alive /\ peer[c] = "none"
    /\ peer' = [peer EXCEPT ![c] = "open"]
    /\ backlog' = [backlog EXCEPT ![l] = Append(@, c)]
    /\ UNCHANGED <<unread, kernelVars, tableVars, batch, pc, alive>>

Send(c) ==
    /\ alive /\ peer[c] = "open" /\ ~unread[c]
    /\ unread' = [unread EXCEPT ![c] = TRUE]
    /\ UNCHANGED <<peer, backlog, kernelVars, tableVars, batch, pc, alive>>

\* What had not been read may be lost with a reset.
HangUp(c) ==
    /\ alive
    /\ \/ /\ peer[c] = "open"
          /\ \E how \in {"shutdown", "reset"} : peer' = [peer EXCEPT ![c] = how]
       \/ /\ peer[c] = "shutdown"
          /\ peer' = [peer EXCEPT ![c] = "broken"]
    /\ \/ UNCHANGED unread
       \/ peer'[c] # "shutdown" /\ unread' = [unread EXCEPT ![c] = FALSE]
    /\ UNCHANGED <<backlog, kernelVars, tableVars, batch, pc, alive>>

\* A second passes for every client, beyond the timeout it makes no difference.
Elapse ==
    /\ alive
    /\ \E fd \in Descriptors : Has(fd) /\ clients[fd].idle <= CLIENT_TIMEOUT
    /\ clients' = [fd \in Descriptors |->
                     IF Has(fd) /\ clients[fd].idle <= CLIENT_TIMEOUT
                     THEN [clients[fd] EXCEPT !.idle = @ + 1] ELSE clients[fd]]
    /\ UNCHANGED <<peer, unread, backlog, kernelVars, interests, batch, pc, alive>>

-----------------------------------------------------------------------------
(***************************************************************************)
(* EventLoop::ctl and its callers.  epoll_ctl refuses to add what is there *)
(* and to change or delete what is not; _interests follows its success.    *)
(***************************************************************************)
\* Mutant: EPOLLOUT is never taken back.
WritableEventsKept(old, enable) == old \cup {"OUT"}

WritableEvents(old, enable) == IF enable THEN old \cup {"OUT"} ELSE old \ {"OUT"}

SetWritable(fd, enable) ==
    LET new == WritableEvents(interests[fd], enable)
    IN  IF interests[fd] # {} /\ epoll[fd] # {}
        THEN /\ epoll' = [epoll EXCEPT ![fd] = new]
             /\ interests' = [interests EXCEPT ![fd] = new]
        ELSE UNCHANGED <<epoll, interests>>

\* EventLoop::remove for a set of descriptors: absent ones are no error.
Removed(fds) ==
    [fd \in Descriptors |-> IF fd \in fds /\ epoll[fd] # {} THEN {} ELSE interests[fd]]

(***************************************************************************)
(* Server::cleanupClient for each of a set of descriptors, whatever they   *)
(* are by now: the client is deleted if there is one, the descriptor is    *)
(* closed in any case, and the kernel forgets it in epoll.                 *)
(***************************************************************************)
CleanupClients(fds) ==
    /\ clients' = [fd \in Descriptors |-> IF fd \in fds THEN NoClient ELSE clients[fd]]
    /\ interests' = Removed(fds)
    /\ epoll' = [fd \in Descriptors |-> IF fd \in fds THEN {} ELSE epoll[fd]]
    /\ owner' = [fd \in Descriptors |-> IF fd \in fds THEN None ELSE owner[fd]]
    /\ LET closing == {c \in Conns : \E fd \in fds : owner[fd] = c}
       IN  /\ peer' = [c \in Conns |-> IF c \in closing THEN "closed" ELSE peer[c]]
           /\ unread' = [c \in Conns |-> unread[c] /\ c \notin closing]

-----------------------------------------------------------------------------
(***************************************************************************)
(* epoll_wait.  Whether a socket can take data is the environment's choice.*)
(***************************************************************************)
Ready(fd, canWrite) ==
    LET c == owner[fd]
    IN  IF epoll[fd] = {} THEN {}
        ELSE {e \in EventNames :
                \/ e = "IN" /\ (unread[c] \/ Gone(c))
                \/ e = "OUT" /\ "OUT" \in epoll[fd] /\ (fd \in canWrite \/ peer[c] \in {"reset", "broken"})
                \/ e = "RDHUP" /\ Gone(c)
                \/ e = "ERR" /\ peer[c] \in {"reset", "broken"}}

\* Mutant: as many as there are.
BatchSizeUnbounded(ready) == Cardinality(ready)

\* The array run has on its stack takes MAX_EVENTS.
BatchSize(ready) == IF Cardinality(ready) <= MAX_EVENTS THEN Cardinality(ready) ELSE MAX_EVENTS

Poll(canWrite) ==
    LET listening == {l \in Listeners : backlog[l] # <<>>}
        ready == listening \cup {fd \in Descriptors : Ready(fd, canWrite) # {}}
    IN  /\ alive /\ pc = "poll"
        /\ canWrite \subseteq {fd \in Descriptors : "OUT" \in epoll[fd]}
        /\ \E reported \in SUBSET ready :
             /\ Cardinality(reported) = BatchSize(ready)
             /\ \E order \in SetToSeqs(reported) :
                  batch' = [i \in DOMAIN order |->
                              LET fd == order[i]
                              IN  IF fd \in Listeners
                                  THEN [fd |-> fd, ev |-> {"IN"}, of |-> None]
                                  ELSE [fd |-> fd, ev |-> Ready(fd, canWrite), of |-> owner[fd]]]
        /\ pc' = "dispatch"
        /\ UNCHANGED <<peer, unread, backlog, kernelVars, tableVars, alive>>

\* The handlers of one event run in the order ERR, IN, OUT, RDHUP.
Dispatching(e) ==
    /\ alive /\ pc = "dispatch" /\ batch # <<>>
    /\ e \in Head(batch).ev
    /\ e = "ERR" \/ "ERR" \notin Head(batch).ev
    /\ e = "OUT" => "IN" \notin Head(batch).ev
    /\ e = "RDHUP" => Head(batch).ev = {"RDHUP"}

\* What is left when these events of the first entry have been handled.
Left(done) ==
    IF Head(batch).ev \subseteq done THEN Tail(batch)
    ELSE [batch EXCEPT ![1].ev = @ \ done]

-----------------------------------------------------------------------------
(***************************************************************************)
(* Server::handleNewConnection.  accept takes the lowest free descriptor;  *)
(* fcntl or epoll_ctl may fail after it, and the descriptor is closed.     *)
(***************************************************************************)
\* Mutant: the descriptor stays open when it cannot be registered.
LeakedWhenRefused(fd, c) == [owner EXCEPT ![fd] = c]

OwnerWhenRefused(fd, c) == owner

ClientEvents == {"IN", "RDHUP"}

OnAccept ==
    LET l == Head(batch).fd
        c == Head(backlog[l])
        fd == CHOOSE f \in Free : \A g \in Free : f <= g
    IN  /\ Dispatching("IN") /\ l \in Listeners
        /\ batch' = Left({"IN"})
        /\ \/ /\ Free = {} \/ backlog[l] = <<>>
              /\ UNCHANGED <<peer, unread, backlog, kernelVars, tableVars>>
           \/ /\ Free # {} /\ backlog[l] # <<>>
              /\ backlog' = [backlog EXCEPT ![l] = Tail(@)]
              /\ owner' = OwnerWhenRefused(fd, c)
              /\ peer' = [peer EXCEPT ![c] = "closed"]
              /\ unread' = [unread EXCEPT ![c] = FALSE]
              /\ UNCHANGED <<epoll, tableVars>>
           \/ /\ Free # {} /\ backlog[l] # <<>>
              /\ backlog' = [backlog EXCEPT ![l] = Tail(@)]
              /\ owner' = [owner EXCEPT ![fd] = c]
              /\ epoll' = [epoll EXCEPT ![fd] = ClientEvents]
              /\ interests' = [interests EXCEPT ![fd] = ClientEvents]
              /\ clients' = [clients EXCEPT ![fd] = [NoClient EXCEPT !.conn = c]]
              /\ UNCHANGED <<peer, unread>>
        /\ UNCHANGED <<pc, alive>>

(***************************************************************************)
(* Server::handleClientData.  recv says what the socket says now, not what *)
(* the event said; a result of 0 or -1, EAGAIN included, ends the          *)
(* connection.                                                             *)
(***************************************************************************)
OnData ==
    LET fd == Head(batch).fd
        c == owner[fd]
    IN  /\ Dispatching("IN") /\ fd \notin Listeners
        /\ batch' = Left({"IN"})
        /\ \/ /\ ~Has(fd)
              /\ UNCHANGED <<peer, unread, kernelVars, tableVars>>
           \/ /\ Has(fd) /\ ~unread[c]
              /\ CleanupClients({fd})
           \/ /\ Has(fd) /\ unread[c]
              /\ \E rest \in BOOLEAN : unread' = [unread EXCEPT ![c] = rest]
              /\ \E p \in Phase!AfterRead[clients[fd].phase] :
                   /\ clients' = [clients EXCEPT ![fd].phase = p, ![fd].idle = 0]
                   /\ IF Phase!Waiting(p) THEN SetWritable(fd, TRUE)
                                          ELSE UNCHANGED <<epoll, interests>>
              /\ UNCHANGED <<peer, owner>>
        /\ UNCHANGED <<backlog, pc, alive>>

(***************************************************************************)
(* Server::onWritable.  Part of the response goes out, or the rest of it,  *)
(* after which the connection is kept or closed.  Without MSG_NOSIGNAL and *)
(* with the default action of SIGPIPE, writing to a socket that has been   *)
(* reset after a FIN ends the process.                                     *)
(***************************************************************************)
OnWritable ==
    LET fd == Head(batch).fd
        c == owner[fd]
        client == clients[fd]
        writes == Has(fd) /\ Phase!Waiting(client.phase)
    IN  /\ Dispatching("OUT")
        /\ batch' = Left({"OUT"})
        /\ \/ /\ ~Has(fd)
              /\ UNCHANGED <<peer, unread, kernelVars, tableVars, alive>>
           \/ /\ Has(fd) /\ ~writes
              /\ SetWritable(fd, FALSE)
              /\ UNCHANGED <<peer, unread, owner, clients, alive>>
           \/ /\ writes /\ peer[c] = "broken"
              /\ alive' = FALSE
              /\ UNCHANGED <<peer, unread, kernelVars, tableVars>>
           \/ /\ writes /\ peer[c] \notin {"reset", "broken"}
              /\ clients' = [clients EXCEPT ![fd].idle = 0]
              /\ UNCHANGED <<peer, unread, kernelVars, interests, alive>>
           \/ /\ writes /\ peer[c] \notin {"reset", "broken"}
              /\ clients' = [clients EXCEPT ![fd].idle = 0, ![fd].phase = "reading"]
              /\ SetWritable(fd, FALSE)
              /\ UNCHANGED <<peer, unread, owner, alive>>
           \/ /\ writes /\ peer[c] # "broken"
              /\ CleanupClients({fd})
              /\ UNCHANGED alive
        /\ UNCHANGED <<backlog, pc>>

\* Server::onHangup, for an error at once, for a hangup after the others.
OnHangup ==
    /\ Dispatching("ERR") \/ Dispatching("RDHUP")
    /\ batch' = Tail(batch)
    /\ CleanupClients({Head(batch).fd})
    /\ UNCHANGED <<backlog, pc, alive>>

\* Mutant: expired clients are dropped after every event.
AnyEventDone == TRUE

BatchDone == batch = <<>>

\* Mutant: only a client between requests expires.
ExpiredReaders(client) == client.phase = "reading" /\ client.idle > CLIENT_TIMEOUT

Expired(client) == ~Phase!Exempt(client.phase) /\ client.idle > CLIENT_TIMEOUT

\* Server::onTick.
OnTick ==
    /\ alive /\ pc = "dispatch" /\ BatchDone
    /\ pc' = IF batch = <<>> THEN "poll" ELSE pc
    /\ CleanupClients({fd \in Descriptors : Has(fd) /\ Expired(clients[fd])})
    /\ UNCHANGED <<backlog, batch, alive>>

-----------------------------------------------------------------------------
Peers == \E c \in Conns : Send(c) \/ HangUp(c) \/ \E l \in Listeners : Connect(c, l)

Loop ==
    \/ \E canWrite \in SUBSET Descriptors : Poll(canWrite)
    \/ OnAccept \/ OnData \/ OnWritable \/ OnHangup \/ OnTick

Next == Peers \/ Elapse \/ Loop

Spec == Init /\ [][Next]_vars

-----------------------------------------------------------------------------
(***************************************************************************)
(* Properties                                                              *)
(***************************************************************************)
\* Every table has its shape, a batch fits the array of EventLoop::run, and it
\* only has entries that are about a connection or a listening socket and have
\* an event left.
TypeOK ==
    /\ peer \in [Conns -> PeerStates] /\ unread \in [Conns -> BOOLEAN]
    /\ backlog \in [Listeners -> Seq(Conns)]
    /\ owner \in [Descriptors -> Conns \cup {None}]
    /\ epoll \in [Descriptors -> SUBSET EventNames]
    /\ interests \in [Descriptors -> SUBSET EventNames]
    /\ clients \in [Descriptors -> ClientEntry]
    /\ batch \in Seq(BatchEntry) /\ Len(batch) <= MAX_EVENTS
    /\ pc \in {"poll", "dispatch"} /\ alive \in BOOLEAN

\* The four tables agree between any two handler calls: a descriptor is open
\* exactly while it is registered, known to _interests and has a client, the
\* client is the one made for its connection, and no connection has two.
TablesAgree ==
    /\ interests = epoll
    /\ \A fd \in Descriptors : owner[fd] = clients[fd].conn
    /\ \A fd \in Descriptors :
         IF owner[fd] = None THEN epoll[fd] = {} ELSE ClientEvents \subseteq epoll[fd]
    /\ \A f, g \in Open : owner[f] = owner[g] => f = g

\* The write interest a client has is the one its phase asks for.
WriteInterest ==
    \A fd \in Descriptors : "OUT" \in epoll[fd] <=> Has(fd) /\ Phase!Waiting(clients[fd].phase)

\* An event still to be dispatched is about the connection that owns its
\* descriptor: a descriptor closed and given out again within one batch never
\* has an old event.  Only the entry being dispatched may find itself closed,
\* by its own earlier handler, and then its descriptor is still free: the
\* second close of cleanupClient closes nothing.
EventsAreOwn ==
    \A i \in DOMAIN batch :
        batch[i].fd \in Descriptors =>
            \/ owner[batch[i].fd] = batch[i].of
            \/ i = 1 /\ batch[i].fd \in Free

\* recv never has to return EAGAIN, which the code treats as the end of the
\* connection: a client whose IN event is still to come has something to read.
ReadsFindSomething ==
    \A i \in DOMAIN batch :
        /\ batch[i].fd \in Descriptors /\ "IN" \in batch[i].ev /\ Has(batch[i].fd)
        => unread[batch[i].of] \/ Gone(batch[i].of)

\* What Client.cpp:136 says: every error of send ends that connection, so none
\* of them ends the server.
SendErrorsAreHandled == alive

-----------------------------------------------------------------------------
(***************************************************************************)
(* Liveness: the loop never stops and every event of a batch is handled.   *)
(* Time passes.                                                            *)
(***************************************************************************)
FairSpec == Spec /\ WF_vars(Loop) /\ WF_vars(Elapse)

\* A write that is not followed by another of the same response.
LastWrite == OnWritable /\ ~Phase!Waiting(clients'[Head(batch).fd].phase)

Queued(c) == \E l \in Listeners : \E i \in DOMAIN backlog[l] : backlog[l][i] = c

\* A connection in a backlog is taken in the end, however many descriptors are
\* in use: silent clients expire, those whose peers do not read included.  The
\* premises: the process lives, accepted peers fall silent, none of them in the
\* middle of a body, which isExpired exempts, and responses are finite.
QueuedIsTaken ==
    /\ []alive
    /\ <>[](\A fd \in Open : ~unread[owner[fd]] /\ ~Phase!Exempt(clients[fd].phase))
    /\ SF_vars(LastWrite)
    => \A c \in Conns : Queued(c) ~> ~Queued(c)
=============================================================================
