------------------------------- MODULE Client -------------------------------
(***************************************************************************)
(* One client connection's parser and writer: the class Client             *)
(* (src/src/server/Client.cpp).  Each method that changes the object is an *)
(* operator from client records to client records; module Connection calls *)
(* them in the order Server::handleClientData and Server::onWritable do.   *)
(*                                                                         *)
(* What the peer sends is a sequence of requests, each at its absolute     *)
(* position in the byte stream.  A "byte" of the model is a run of bytes   *)
(* that is never split by the properties: the last byte of a header holds  *)
(* its blank line, the last byte of a chunked body holds "0 CRLF CRLF".    *)
(* _raw_buffer is always the slice (base, got] of that stream, because it  *)
(* is only ever appended to at the end and erased at the front.            *)
(***************************************************************************)
EXTENDS Naturals, Sequences, FiniteSets, FiniteSetsExt

CONSTANTS
    MAX_HEADER_SIZE,            \* Client.cpp:17
    BUFFER_COMPACT_THRESHOLD,   \* Client.cpp:18
    MAX_BODY_SIZE,              \* client_max_body_size of the location
    SEARCH_WINDOW,              \* the last 200 bytes, Client.cpp:290
    SIZE_MAX,                   \* 2^64: size_t arithmetic wraps here
    RESPONSE_LENGTH,            \* bytes of a serialized response
    RootAllowed                 \* the location "/" has no limit_except

ASSUME SizesAssumption ==
    /\ {MAX_HEADER_SIZE, BUFFER_COMPACT_THRESHOLD, MAX_BODY_SIZE} \subseteq Nat
    /\ {SEARCH_WINDOW, SIZE_MAX, RESPONSE_LENGTH} \subseteq Nat \ {0}
    /\ RootAllowed \in BOOLEAN

(***************************************************************************)
(* A request on the wire: header and raw body lengths, what parseHeaders   *)
(* makes of it (error = 0 when it parses), whether its location allows the *)
(* method, and whether its header text contains "0 CRLF".                  *)
(***************************************************************************)
Verdicts == {0, 400, 505}

Request ==
    [at : Nat, hdr : Nat, body : Nat, chunked : BOOLEAN, error : Verdicts,
     allowed : BOOLEAN, keep : BOOLEAN, zero : BOOLEAN]

BodyStart(q) == q.at + q.hdr
EndOf(q) == q.at + q.hdr + q.body

\* The HttpRequest object before anything has been parsed into it.
Fresh == [at |-> 0, hdr |-> 0, body |-> 0, chunked |-> FALSE, error |-> 0,
          allowed |-> RootAllowed, keep |-> FALSE, zero |-> FALSE]

\* Text that starts in the middle of a request is no request line.
Stray(pos) == [Fresh EXCEPT !.at = pos, !.error = 400]

RequestAt(input, pos) ==
    IF \E i \in DOMAIN input : input[i].at = pos
    THEN input[CHOOSE i \in DOMAIN input : input[i].at = pos]
    ELSE Stray(pos)

\* The byte that completes a blank line, and the one that holds "0 CRLF".
BlankLines(input) ==
    {BodyStart(input[i]) : i \in DOMAIN input}
        \cup {EndOf(input[i]) : i \in {j \in DOMAIN input : input[j].chunked}}

Zeros(input) ==
    {BodyStart(input[i]) : i \in {j \in DOMAIN input : input[j].zero}}
        \cup {EndOf(input[i]) : i \in {j \in DOMAIN input : input[j].chunked}}

\* std::string::find: the first mark after from, within what has been received.
Found(marks, from, got) == \E e \in marks : from < e /\ e <= got
First(marks, from) == Min({e \in marks : from < e})

-----------------------------------------------------------------------------
(***************************************************************************)
(* The object.  A response is its status, the position of the request it   *)
(* answers, the Connection header that a CGI program put into it (own) and *)
(* the one it announces once it is serialized: keep is TRUE for keep-alive.*)
(* asked is history: whether the request asked to keep the connection.     *)
(* Status 0 stands for a null pointer (response) or an empty string        *)
(* (buffer).                                                               *)
(***************************************************************************)
ClientStates == {"READING_REQUEST", "PROCESSING_REQUEST", "WRITING_RESPONSE", "DISCONNECTED"}
HeaderStates == {"HEADER_INCOMPLETE", "HEADER_COMPLETE", "BODY_RECEIVING", "REQUEST_COMPLETE"}
ConnectionHeaders == {"none", "keep-alive", "close"}
Response == [status : Nat, to : Nat, own : ConnectionHeaders, keep : BOOLEAN, asked : BOOLEAN]
NewResponse(status, to) ==
    [status |-> status, to |-> to, own |-> "none", keep |-> FALSE, asked |-> FALSE]
NoResponse == NewResponse(0, 0)

ClientType ==
    [state : ClientStates, headerState : HeaderStates, request : Request,
     response : Response, responseBuffer : Response, responseSent : Nat,
     headerEnd : Nat, lastBodyLength : Nat, conf : BOOLEAN,
     base : Nat, got : Nat, readOffset : Nat]

NewClient ==
    [state |-> "READING_REQUEST", headerState |-> "HEADER_INCOMPLETE", request |-> Fresh,
     response |-> NoResponse, responseBuffer |-> NoResponse, responseSent |-> 0,
     headerEnd |-> 0, lastBodyLength |-> 0, conf |-> FALSE,
     base |-> 0, got |-> 0, readOffset |-> 0]

RawLength(c) == c.got - c.base
ReadPosition(c) == c.base + c.readOffset

\* Mutant: what earlier requests left in front of the offset counts as well.
BufferLengthOfAll(c) == RawLength(c)

\* size_t subtraction: past the end of the buffer it wraps.
BufferLength(c) ==
    IF c.readOffset <= RawLength(c) THEN RawLength(c) - c.readOffset
                                    ELSE SIZE_MAX + RawLength(c) - c.readOffset

\* Mutant: erasing more than there is.
CompactBufferBeyond(c) == [c EXCEPT !.base = @ + c.readOffset, !.readOffset = 0]

\* std::string::erase takes what there is when asked for more.
CompactBuffer(c) ==
    [c EXCEPT !.base = IF c.readOffset <= RawLength(c) THEN @ + c.readOffset ELSE c.got,
              !.readOffset = 0]

ConsumeBuffer(c, n) ==
    LET moved == [c EXCEPT !.readOffset = @ + n]
    IN  IF moved.readOffset > BUFFER_COMPACT_THRESHOLD THEN CompactBuffer(moved) ELSE moved

AppendRawBuffer(c, n) == [c EXCEPT !.got = @ + n]

NeedsWriteEvent(c) == c.state = "WRITING_RESPONSE" /\ c.response.status # 0

\* A response assigned to _response directly, as the parsers do.
Answer(c, status) ==
    [c EXCEPT !.response = NewResponse(status, ReadPosition(c)), !.state = "WRITING_RESPONSE"]

SetResponse(c, status) == [Answer(c, status) EXCEPT !.responseSent = 0]

\* The same of a response that has a Connection header already.
WithConnection(c, own) == [c EXCEPT !.response = [@ EXCEPT !.own = own]]

-----------------------------------------------------------------------------
(***************************************************************************)
(* Parsing.  Each operator returns the object after the call; the callers  *)
(* read the call's Boolean result off headerState and state.               *)
(***************************************************************************)
TryParseHeaders(input, c) ==
    LET pos == ReadPosition(c)
        q == RequestAt(input, pos)
    IN  IF ~Found(BlankLines(input), pos, c.got)
        THEN IF BufferLength(c) > MAX_HEADER_SIZE
             THEN [Answer(c, 431) EXCEPT !.headerState = "HEADER_COMPLETE"]
             ELSE c
        ELSE IF q.error # 0
             THEN [Answer(c, q.error) EXCEPT !.request = q,
                                             !.headerState = "HEADER_COMPLETE"]
             ELSE [c EXCEPT !.request = q, !.headerState = "HEADER_COMPLETE",
                            !.headerEnd = First(BlankLines(input), pos) - c.base]

RequestComplete(c, length) ==
    [c EXCEPT !.lastBodyLength = length, !.headerState = "REQUEST_COMPLETE",
              !.state = "PROCESSING_REQUEST"]

BodyReceiving(c) == [c EXCEPT !.headerState = "BODY_RECEIVING"]

\* Mutant: the header is counted as body.
BodyArrivedWithHeader(c) == RawLength(c) >= c.request.body

BodyArrived(c) == RawLength(c) - c.headerEnd >= c.request.body

TryParseContentLengthBody(c) ==
    LET expected == c.request.body
    IN  IF expected > MAX_BODY_SIZE
        THEN [Answer(c, 413) EXCEPT !.lastBodyLength = expected]
        ELSE IF BodyArrived(c) THEN RequestComplete(c, expected)
             ELSE BodyReceiving(c)

\* Mutant: a window one byte short.
SearchStartLate(c) ==
    LET start == c.base + c.headerEnd
    IN  IF c.got - start > SEARCH_WINDOW THEN c.got - SEARCH_WINDOW + 1 ELSE start

\* Where the search for the last chunk starts, and where it ends the body.
SearchStart(c) ==
    LET start == c.base + c.headerEnd
    IN  IF c.got - start > SEARCH_WINDOW THEN c.got - SEARCH_WINDOW ELSE start

ChunkedEnd(input, c) ==
    Min({e \in BlankLines(input) : First(Zeros(input), SearchStart(c)) <= e})

\* A decoded body is the raw one without its terminator.
DecodedLength(q) == q.body - 1

TryParseChunkedBody(input, c) ==
    LET start == c.base + c.headerEnd
        end == ChunkedEnd(input, c)
        length == end - start
        decoded == DecodedLength(c.request)
    IN  IF \/ ~Found(Zeros(input), SearchStart(c), c.got)
           \/ end > c.got
        THEN BodyReceiving(c)
        ELSE CASE decoded = 0 /\ length > 1 -> [Answer(c, 400) EXCEPT !.lastBodyLength = length]
               [] decoded > MAX_BODY_SIZE   -> [Answer(c, 413) EXCEPT !.lastBodyLength = length]
               [] OTHER                     -> RequestComplete(c, length)

TryParseBody(input, c) ==
    IF c.request.body = 0 /\ ~c.request.chunked THEN RequestComplete(c, 0)
    ELSE IF RawLength(c) = c.headerEnd THEN BodyReceiving(c)
    ELSE IF c.request.chunked THEN TryParseChunkedBody(input, c)
    ELSE TryParseContentLengthBody(c)

-----------------------------------------------------------------------------
(***************************************************************************)
(* Writing, and what happens once a response is out.                       *)
(***************************************************************************)
\* A Connection header is added only where there is none.
Announces(response, asked) == IF response.own = "none" THEN asked ELSE response.own = "keep-alive"

Serialize(c) ==
    [c.response EXCEPT !.keep = Announces(c.response, c.request.keep), !.asked = c.request.keep]

Buffered(c) == IF c.responseBuffer.status = 0 THEN Serialize(c) ELSE c.responseBuffer

Send(c, n) == [c EXCEPT !.responseBuffer = Buffered(c), !.responseSent = @ + n]

\* Mutant: done one byte early.
UnfinishedEarly(c) == c.responseSent + 1 < RESPONSE_LENGTH

Unfinished(c) == c.responseSent < RESPONSE_LENGTH

\* Statuses after which the connection is closed whatever was announced.
Fatal(status) == status \in {400, 405} \/ status >= 500

\* Mutant: a 405 keeps the connection.
DisconnectsUnless405(c) == (c.response.status # 405 /\ Fatal(c.response.status)) \/ ~c.request.keep

Disconnects(c) == Fatal(c.response.status) \/ ~c.request.keep

\* Mutant: the request stays in the buffer.
ConsumedNothing(c) == 0

ConsumedLength(c) == c.headerEnd - c.readOffset + c.lastBodyLength

ResetForNextRequest(c) ==
    LET consumed == IF c.headerEnd > c.readOffset
                    THEN ConsumeBuffer(c, ConsumedLength(c))
                    ELSE c
        trimmed == IF BufferLength(consumed) = 0
                   THEN [consumed EXCEPT !.base = c.got, !.readOffset = 0]
                   ELSE IF consumed.readOffset > BUFFER_COMPACT_THRESHOLD
                        THEN CompactBuffer(consumed) ELSE consumed
    IN  [NewClient EXCEPT !.base = trimmed.base, !.got = trimmed.got,
                          !.readOffset = trimmed.readOffset]

\* handleWrite once send() has taken n > 0 bytes; n = 0 stands for its failure.
HandleWrite(c, n) ==
    LET d == Send(c, n)
    IN  IF ~NeedsWriteEvent(c) THEN c
        ELSE IF n = 0 THEN [d EXCEPT !.state = "DISCONNECTED"]
        ELSE IF Unfinished(d) THEN d
        ELSE IF Disconnects(d) THEN [d EXCEPT !.state = "DISCONNECTED"]
        ELSE ResetForNextRequest(d)
=============================================================================
