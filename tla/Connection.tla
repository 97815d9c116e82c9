----------------------------- MODULE Connection -----------------------------
(***************************************************************************)
(* One accepted connection: the peer, the kernel's socket, the epoll loop  *)
(* of EventLoop::run as this connection sees it, and the handlers of class *)
(* Server, which drive the Client object of module Client.                 *)
(*                                                                         *)
(* The loop polls, then runs for the events it was given, in this order,   *)
(* onReadable, onWritable and onHangup, and closes the batch with onTick.  *)
(* Between any two of those calls the peer may send more, shut down its    *)
(* side or reset the connection, and time may pass (other connections of   *)
(* the same batch are served, a CGI program runs): the events are stale.   *)
(***************************************************************************)
EXTENDS Client

CONSTANTS
    Shapes,             \* the requests a peer may send (their "at" is 0)
    MaxRequests,        \* bound: requests one peer sends
    Pipelining,         \* a peer may send a request before the last was answered
    BUFFER_SIZE,        \* bytes one recv takes, Common.hpp
    CLIENT_TIMEOUT,     \* Common.hpp:7, in ticks
    Results,            \* statuses processRequest may return, a CGI program's included
    ProgramHeaders      \* Connection headers that CGI programs may write

ASSUME LoopAssumption ==
    /\ Shapes \subseteq Request
    /\ \A q \in Shapes : q.at = 0 /\ q.hdr > 0 /\ (q.chunked => q.body > 0)
    /\ {MaxRequests, CLIENT_TIMEOUT} \subseteq Nat
    /\ BUFFER_SIZE \in Nat \ {0}
    /\ Pipelining \in BOOLEAN
    /\ Results \subseteq Nat \ {0} /\ ProgramHeaders \subseteq ConnectionHeaders

VARIABLES
    input,      \* the requests the peer has decided to send, in order
    sent,       \* how many of their bytes the kernel has delivered
    peer,       \* "open", "shutdown" (FIN) or "reset" (RST)
    client,     \* the Client object
    open,       \* the descriptor and its Client exist
    writable,   \* EPOLLOUT is in _interests[fd]
    pc, ev,     \* where EventLoop::run is, and the events left to dispatch
    idle,       \* time(NULL) - _last_activity
    wire,       \* history: the response bytes the peer has been sent
    handled,    \* history: the requests given to processRequest
    lapses      \* history: the ways framing or a response has been given up

peerVars == <<input, sent, peer>>
loopVars == <<pc, ev>>
historyVars == <<wire, handled, lapses>>
vars == <<peerVars, client, open, writable, loopVars, idle, historyVars>>

Events == {"ERR", "IN", "OUT", "RDHUP"}
Lapses == {"early413", "outOfWindow", "replaced"}

StreamEnd == IF input = <<>> THEN 0 ELSE EndOf(input[Len(input)])

\* The response to the request at position a has been sent to its last byte.
Answered(a) ==
    \E i \in DOMAIN wire : wire[i].response.to = a /\ wire[i].part = RESPONSE_LENGTH

Init ==
    /\ input = <<>> /\ sent = 0 /\ peer = "open"
    /\ client = NewClient /\ open = TRUE /\ writable = FALSE
    /\ pc = "poll" /\ ev = {} /\ idle = 0
    /\ wire = <<>> /\ handled = <<>> /\ lapses = {}

-----------------------------------------------------------------------------
(***************************************************************************)
(* The environment: the peer, the network and the clock.                   *)
(***************************************************************************)
Compose(q) ==
    /\ peer = "open" /\ open /\ Len(input) < MaxRequests
    /\ Pipelining \/ \A i \in DOMAIN input : Answered(input[i].at)
    /\ input' = Append(input, [q EXCEPT !.at = StreamEnd])
    /\ UNCHANGED <<sent, peer, client, open, writable, loopVars, idle, historyVars>>

Deliver(n) ==
    /\ peer = "open" /\ open
    /\ n > sent /\ n <= StreamEnd
    /\ sent' = n
    /\ UNCHANGED <<input, peer, client, open, writable, loopVars, idle, historyVars>>

HangUp(how) ==
    /\ open
    /\ \/ peer = "open" /\ how \in {"shutdown", "reset"}
       \/ peer = "shutdown" /\ how = "reset"
    /\ peer' = how
    /\ UNCHANGED <<input, sent, client, open, writable, loopVars, idle, historyVars>>

Elapse ==
    /\ open /\ idle <= CLIENT_TIMEOUT
    /\ idle' = idle + 1
    /\ UNCHANGED <<peerVars, client, open, writable, loopVars, historyVars>>

-----------------------------------------------------------------------------
(***************************************************************************)
(* Server::onHangup, which is cleanupClient.  On a descriptor that is      *)
(* already gone it finds no client and changes nothing here.               *)
(***************************************************************************)
Cleanup ==
    /\ open' = FALSE /\ writable' = FALSE /\ client' = NewClient

\* epoll_wait: what is ready now, of what the connection is interested in.
Readable == client.got < sent \/ peer # "open"

Poll(canWrite) ==
    /\ pc = "poll" /\ open
    /\ pc' = "dispatch"
    /\ ev' = {e \in Events :
                \/ e = "IN" /\ Readable
                \/ e = "OUT" /\ writable /\ (canWrite \/ peer = "reset")
                \/ e = "RDHUP" /\ peer # "open"
                \/ e = "ERR" /\ peer = "reset"}
    /\ UNCHANGED <<peerVars, client, open, writable, idle, historyVars>>

OnError ==
    /\ pc = "dispatch" /\ "ERR" \in ev
    /\ ev' = {}
    /\ Cleanup
    /\ UNCHANGED <<peerVars, pc, idle, historyVars>>

(***************************************************************************)
(* Server::handleClientData after a successful recv, step by step.         *)
(***************************************************************************)
\* Step 1.  Returns at once when the headers are incomplete or refused.
Step1(c) == IF c.headerState = "HEADER_INCOMPLETE" THEN TryParseHeaders(input, c) ELSE c

ReturnsAfterStep1(before, after) ==
    /\ before.headerState = "HEADER_INCOMPLETE"
    /\ \/ after.headerState = "HEADER_INCOMPLETE"
       \/ after.state = "WRITING_RESPONSE"

\* Step 2.  Runs while no configuration is set, whatever state the client is in.
NotAllowed(c) == ~c.conf /\ ~c.request.allowed

Step2(c) ==
    IF NotAllowed(c) THEN [SetResponse(c, 405) EXCEPT !.conf = TRUE]
                     ELSE [c EXCEPT !.conf = TRUE]

\* Step 3.
Step3(c) ==
    IF c.state \in {"PROCESSING_REQUEST", "WRITING_RESPONSE"} THEN c ELSE TryParseBody(input, c)

\* The object when Step 4 is reached, or when the handler returned before.
Parsed(c) ==
    LET one == Step1(c)
    IN  IF ReturnsAfterStep1(c, one) THEN one
        ELSE IF NotAllowed(one) THEN Step2(one) ELSE Step3(Step2(one))

\* The bytes of the body the handler is shown, as positions in the stream.
BodyGiven(c) ==
    [request |-> c.request, from |-> c.base + c.headerEnd,
     raw |-> c.lastBodyLength, got |-> c.got]

\* Mutant: EPOLLOUT is asked for only where a request was processed.
AsksToWriteWhenComplete(c) == writable \/ c.headerState = "REQUEST_COMPLETE"

AsksToWrite(c) == writable \/ NeedsWriteEvent(c)

HandleClientData(n) ==
    \E parsed \in {Parsed(AppendRawBuffer(client, n))} :
        /\ idle' = 0
        /\ lapses' = lapses
             \cup (IF parsed.response.status = 405 /\ client.state = "WRITING_RESPONSE"
                        /\ client.responseSent > 0 /\ ~client.conf
                   THEN {"replaced"} ELSE {})
             \cup (IF /\ parsed.request.chunked
                        /\ client.lastBodyLength = 0 /\ parsed.lastBodyLength > 0
                        /\ parsed.got >= EndOf(parsed.request) + SEARCH_WINDOW
                   THEN {"outOfWindow"} ELSE {})
        /\ \/ /\ parsed.state # "PROCESSING_REQUEST"
              /\ client' = parsed
              /\ UNCHANGED handled
           \/ /\ parsed.state = "PROCESSING_REQUEST"
              /\ \E status \in Results, own \in ProgramHeaders \cup {"none"} :
                    client' = WithConnection(SetResponse(parsed, status), own)
              /\ handled' = Append(handled, BodyGiven(parsed))
        /\ writable' = AsksToWrite(client')
        /\ UNCHANGED open

\* recv, then one pass of the handler over everything received so far.
OnReadable ==
    /\ pc = "dispatch" /\ "ERR" \notin ev /\ "IN" \in ev
    /\ ev' = ev \ {"IN"}
    /\ \/ /\ client.got < sent
          /\ HandleClientData(IF sent - client.got > BUFFER_SIZE
                              THEN BUFFER_SIZE ELSE sent - client.got)
       \/ /\ client.got = sent \/ peer = "reset"
          /\ Cleanup
          /\ UNCHANGED <<idle, handled, lapses>>
    /\ UNCHANGED <<peerVars, pc, wire>>

(***************************************************************************)
(* Server::onWritable: n bytes go out, none when the connection is gone.   *)
(***************************************************************************)
OnWritable(n) ==
    LET after == HandleWrite(client, n)
    IN  /\ pc = "dispatch" /\ ev \cap {"ERR", "IN"} = {} /\ "OUT" \in ev
        /\ ev' = ev \ {"OUT"}
        /\ (n = 0) = (peer = "reset" \/ ~NeedsWriteEvent(client))
        /\ n <= RESPONSE_LENGTH - client.responseSent
        /\ wire' = wire \o [i \in 1..n |-> [response |-> Buffered(client),
                                            part |-> client.responseSent + i]]
        /\ lapses' = lapses
             \cup (IF client.response.status = 413 /\ after.state = "READING_REQUEST"
                        /\ client.got < EndOf(client.request)
                   THEN {"early413"} ELSE {})
        /\ IF after.state = "DISCONNECTED"
           THEN Cleanup
           ELSE /\ client' = after
                /\ writable' = (writable /\ NeedsWriteEvent(after))
                /\ UNCHANGED open
        /\ idle' = IF NeedsWriteEvent(client) THEN 0 ELSE idle
        /\ UNCHANGED <<peerVars, pc, handled>>

OnHangup ==
    /\ pc = "dispatch" /\ ev = {"RDHUP"}
    /\ ev' = {}
    /\ Cleanup
    /\ UNCHANGED <<peerVars, pc, idle, historyVars>>

\* Mutant: a client that has not sent a request yet is exempt as well.
ExpiredAfterHeader ==
    client.headerState \notin {"BODY_RECEIVING", "HEADER_INCOMPLETE"} /\ idle > CLIENT_TIMEOUT

\* Server::onTick: cleanupExpiredClients, after every batch.
Expired == client.headerState # "BODY_RECEIVING" /\ idle > CLIENT_TIMEOUT

OnTick ==
    /\ pc = "dispatch" /\ ev = {}
    /\ pc' = "poll"
    /\ \/ open /\ Expired /\ Cleanup
       \/ ~(open /\ Expired) /\ UNCHANGED <<open, writable, client>>
    /\ UNCHANGED <<peerVars, ev, idle, historyVars>>

-----------------------------------------------------------------------------
Peer ==
    \/ \E q \in Shapes : Compose(q)
    \/ \E n \in 1..StreamEnd : Deliver(n)
    \/ \E how \in {"shutdown", "reset"} : HangUp(how)

Loop ==
    \/ \E canWrite \in BOOLEAN : Poll(canWrite)
    \/ OnError \/ OnReadable \/ OnHangup \/ OnTick
    \/ \E n \in 0..RESPONSE_LENGTH : OnWritable(n)

Next == Peer \/ Elapse \/ Loop

Spec == Init /\ [][Next]_vars

-----------------------------------------------------------------------------
(***************************************************************************)
(* Properties                                                              *)
(***************************************************************************)
\* Every variable keeps its shape, and size_t never holds a negative number.
TypeOK ==
    /\ input \in Seq(Request) /\ sent \in Nat
    /\ peer \in {"open", "shutdown", "reset"}
    /\ client \in ClientType /\ client.base <= client.got /\ client.got <= sent
    /\ open \in BOOLEAN /\ writable \in BOOLEAN
    /\ pc \in {"poll", "dispatch"} /\ ev \subseteq Events /\ idle \in Nat
    /\ wire \in Seq([response : Response, part : Nat])
    /\ handled \in Seq([request : Request, from : Nat, raw : Nat, got : Nat])
    /\ lapses \subseteq Lapses

\* EPOLLOUT is asked for exactly while a response is waiting to be written:
\* without it the response is never sent, with it too long the loop spins.
InterestMatches == open => (writable = NeedsWriteEvent(client))

\* The parser always stands at the first byte of a request, unless a 413 was
\* answered before its body had arrived or a chunked body's terminator had
\* left the search window: these are the only two ways framing is lost.
Framing ==
    open /\ lapses \cap {"early413", "outOfWindow"} = {}
        => ReadPosition(client) \in {0} \cup {EndOf(input[i]) : i \in DOMAIN input}

\* The parser only answers 431 to a header block that really is too long:
\* nothing that belongs to earlier requests counts, unless a 413 left the read
\* offset past the end of the buffer and the length wrapped.  (A program that
\* was handed the whole request may answer what it likes.)
HeaderRefusal ==
    open /\ client.response.status = 431 /\ client.headerState # "REQUEST_COMPLETE"
         /\ "early413" \notin lapses
        => client.got > ReadPosition(client) + MAX_HEADER_SIZE

\* processRequest is given a request the peer sent, with its own body, all of
\* which has been received (setBodyReference points into the raw buffer).
BodyWhole ==
    \A i \in DOMAIN handled :
        LET h == handled[i]
        IN  /\ \E j \in DOMAIN input : input[j] = h.request
            /\ h.from = BodyStart(h.request) /\ h.raw >= h.request.body
            /\ EndOf(h.request) <= h.got

\* No request is handled twice, and pipelined ones are handled in order.
HandledInOrder ==
    \A i, j \in DOMAIN handled :
        i < j => EndOf(handled[i].request) <= handled[j].request.at

\* What the peer reads is a sequence of whole responses to ever later requests,
\* the last one perhaps cut short, unless Step 2 replaced a response that was
\* already partly sent.
WireFramed ==
    "replaced" \notin lapses =>
        \A i \in DOMAIN wire :
            IF i = 1 \/ wire[i-1].part = RESPONSE_LENGTH
            THEN /\ wire[i].part = 1
                 /\ i > 1 => wire[i-1].response.to < wire[i].response.to
            ELSE wire[i] = [wire[i-1] EXCEPT !.part = @ + 1]

\* The last response on a connection: its status closes the connection, or its
\* request did not ask to keep it, or the server itself announced the end.
Final(response) ==
    \/ Fatal(response.status)
    \/ ~response.asked
    \/ response.own = "none" /\ ~response.keep

\* HttpResponse::serialize announces before the first byte of a response is sent
\* whether the connection is kept, Client::handleWrite decides it after the last:
\* nothing is sent after a response that is the last by its status, by its request
\* or by the Connection header that serialize gave it. A "Connection: close" that a
\* CGI program wrote itself is not heeded: serialize leaves it in, handleWrite does
\* not look at it, and other responses may follow.
CloseHonoured ==
    \A i, j \in DOMAIN wire :
        i < j /\ Final(wire[i].response) => wire[j].response = wire[i].response

\* What the event loop, and module EventLoop, assume of a client: it goes
\* through the phases of ClientPhase and asks for EPOLLOUT in two of them.
PhaseOf(c) ==
    IF NeedsWriteEvent(c)
    THEN IF c.headerState = "BODY_RECEIVING" THEN "refusing" ELSE "writing"
    ELSE IF c.headerState = "BODY_RECEIVING" THEN "body" ELSE "reading"

Abstract == INSTANCE ClientPhase
            WITH present <- open, phase <- PhaseOf(client), asks <- writable

ImplementsClientPhase == Abstract!Spec

-----------------------------------------------------------------------------
(***************************************************************************)
(* What a comment of the code says and the code does not do.               *)
(***************************************************************************)
\* Client.cpp:349: the 413 path records the body's length "to empty the
\* buffer": the bytes of a refused body are never read as a request.
RefusedBodyDiscarded ==
    open /\ "outOfWindow" \notin lapses
        => ReadPosition(client) \in {0} \cup {EndOf(input[i]) : i \in DOMAIN input}

-----------------------------------------------------------------------------
(***************************************************************************)
(* Liveness.  The loop never stops.  That time passes, that the peer reads *)
(* what it is sent (the socket is writable again and again) and that it    *)
(* stays are premises of the properties that need them.                    *)
(***************************************************************************)
FairSpec == Spec /\ WF_vars(Loop)

PeerReads == SF_vars(Poll(TRUE))

\* A peer that waits for each answer, reads, stays and is served before its
\* timeout gets the answer to every request it has sent whole, or is closed.
WholeRequestIsAnswered ==
    PeerReads /\ [](peer = "open" /\ idle <= CLIENT_TIMEOUT) =>
        \A i \in 1..MaxRequests :
            (i \in DOMAIN input /\ sent >= EndOf(input[i]))
                ~> (~open \/ (i \in DOMAIN input /\ Answered(input[i].at)))

\* A connection on which nothing more happens is closed as time passes, unless
\* the server is in the middle of a body, which isExpired exempts.
SilentIsDropped ==
    WF_vars(Elapse) => <>(~open \/ [](client.headerState = "BODY_RECEIVING"))
=============================================================================
