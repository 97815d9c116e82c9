-------------------------- MODULE ConnectionProofs --------------------------
(***************************************************************************)
(* Theorems about module Connection, for every value of its constants: the *)
(* offsets and what epoll is asked for; then what the server makes of the  *)
(* byte stream, that it frames requests where the peer framed them, hands  *)
(* each over whole and once, and writes whole responses in order.          *)
(*                                                                         *)
(* The second half follows from one inductive invariant, Inv below:        *)
(* between two handler calls a Client object is in one of four stages, and *)
(* in each the offsets, the response and the histories fit together.       *)
(***************************************************************************)
EXTENDS Connection, LeastNaturals, TLAPS

-----------------------------------------------------------------------------
(***************************************************************************)
(* Minimum of a set of naturals.                                           *)
(***************************************************************************)
\* Min returns that element.
LEMMA MinIsLeast ==
    ASSUME NEW T, T \subseteq Nat, T # {}
    PROVE  Min(T) \in T /\ \A y \in T : Min(T) <= y
BY LeastNatural DEF Min

-----------------------------------------------------------------------------
(***************************************************************************)
(* The stream: positions of marks are naturals, parsed requests are        *)
(* requests.                                                               *)
(***************************************************************************)
\* Every request of the stream has its fields.
LEMMA RequestFields ==
    ASSUME NEW q \in Request
    PROVE  /\ q.at \in Nat /\ q.hdr \in Nat /\ q.body \in Nat
           /\ q.error \in Nat /\ q.keep \in BOOLEAN
BY DEF Request, Verdicts

\* The positions the parsers search for are naturals, and every place that
\* holds "0 CRLF" also ends a blank line.
LEMMA MarksAreNaturals ==
    ASSUME input \in Seq(Request)
    PROVE  BlankLines(input) \subseteq Nat /\ Zeros(input) \subseteq BlankLines(input)
<1>1. ASSUME NEW i \in DOMAIN input
      PROVE  BodyStart(input[i]) \in Nat /\ EndOf(input[i]) \in Nat
  <2>1. input[i] \in Request
    OBVIOUS
  <2> QED
    BY <2>1, RequestFields DEF BodyStart, EndOf
<1> QED
  BY <1>1 DEF BlankLines, Zeros

\* find returns a mark beyond where the search began.
LEMMA FirstIsFound ==
    ASSUME NEW marks, marks \subseteq Nat, NEW from \in Nat, NEW got \in Nat,
           Found(marks, from, got)
    PROVE  First(marks, from) \in marks /\ First(marks, from) > from
<1>1. {e \in marks : from < e} # {}
  BY DEF Found
<1>2. {e \in marks : from < e} \subseteq Nat
  OBVIOUS
<1> QED
  BY <1>1, <1>2, MinIsLeast DEF First

\* Whatever position it is asked for, the parser reads a request.
LEMMA ParsedRequestType ==
    ASSUME input \in Seq(Request), NEW pos \in Nat
    PROVE  RequestAt(input, pos) \in Request
<1>1. Stray(pos) \in Request
  <2>1. Fresh \in Request
    BY SizesAssumption DEF Fresh, Request, Verdicts
  <2>2. ASSUME NEW q \in Request, NEW error \in Verdicts
        PROVE  [q EXCEPT !.at = pos, !.error = error] \in Request
    BY DEF Request
  <2>3. 400 \in Verdicts
    BY DEF Verdicts
  <2> QED
    BY <2>1, <2>2, <2>3 DEF Stray
<1>2. CASE \E i \in DOMAIN input : input[i].at = pos
  <2>1. PICK i \in DOMAIN input : i = CHOOSE j \in DOMAIN input : input[j].at = pos
    BY <1>2
  <2> QED
    BY <1>2, <2>1 DEF RequestAt
<1> QED
  BY <1>1, <1>2 DEF RequestAt

-----------------------------------------------------------------------------
(***************************************************************************)
(* The methods of Client keep the object well formed: it has its type, the *)
(* buffer does not start beyond its end, and nothing but recv moves that   *)
(* end.                                                                    *)
(***************************************************************************)
WellFormed(c) == c \in ClientType /\ c.base <= c.got

Keeps(c, d) == WellFormed(d) /\ d.got = c.got

\* A Client object's fields have their types.
LEMMA ClientFields ==
    ASSUME NEW c \in ClientType
    PROVE  /\ c.base \in Nat /\ c.got \in Nat /\ c.readOffset \in Nat
           /\ c.headerEnd \in Nat /\ c.lastBodyLength \in Nat /\ c.responseSent \in Nat
           /\ c.request \in Request /\ c.response \in Response
           /\ c.responseBuffer \in Response /\ c.conf \in BOOLEAN
           /\ c.state \in ClientStates /\ c.headerState \in HeaderStates
BY DEF ClientType

\* Assignments to the buffer's offsets.
LEMMA MoveKeeps ==
    ASSUME NEW c, WellFormed(c), NEW base \in Nat, NEW offset \in Nat, base <= c.got
    PROVE  /\ Keeps(c, [c EXCEPT !.readOffset = offset])
           /\ Keeps(c, [c EXCEPT !.base = base, !.readOffset = offset])
<1> DEFINE d == [c EXCEPT !.base = base, !.readOffset = offset]
<1>1. Keeps(c, [c EXCEPT !.readOffset = offset])
  BY DEF Keeps, WellFormed, ClientType
<1>2. d \in ClientType
  BY DEF WellFormed, ClientType
<1>3. d.base = base /\ d.got = c.got
  BY DEF WellFormed, ClientType
<1> HIDE DEF d
<1>4. Keeps(c, d)
  BY <1>2, <1>3 DEF Keeps, WellFormed
<1> QED
  BY <1>1, <1>4 DEF d

\* The constructor makes a well-formed object with an empty buffer.
LEMMA NewClientWellFormed == WellFormed(NewClient)
<1>1. Fresh \in Request /\ NoResponse \in Response
  BY SizesAssumption DEF Fresh, Request, Verdicts, NewResponse, NoResponse, Response, ConnectionHeaders
<1> QED
  BY <1>1 DEF WellFormed, ClientType, NewClient, ClientStates, HeaderStates

\* Assigning a response (an error of the parsers', or setResponse) leaves the
\* buffer alone and the object well formed.
LEMMA AnswerKeeps ==
    ASSUME NEW c, WellFormed(c), NEW status \in Nat
    PROVE  Keeps(c, Answer(c, status)) /\ Keeps(c, SetResponse(c, status))
<1> DEFINE r == [status |-> status, to |-> ReadPosition(c), own |-> "none", keep |-> FALSE, asked |-> FALSE]
<1>1. r \in Response
  BY ClientFields DEF Response, ConnectionHeaders, ReadPosition, WellFormed
<1> HIDE DEF r
<1>2. Keeps(c, Answer(c, status))
  BY <1>1 DEF NewResponse, Answer, r, Keeps, WellFormed, ClientType, ClientStates
<1> DEFINE a == Answer(c, status)
<1> HIDE DEF a
<1>3. Keeps(a, [a EXCEPT !.responseSent = 0])
  BY <1>2 DEF a, Keeps, WellFormed, ClientType
<1> QED
  BY <1>2, <1>3 DEF SetResponse, Keeps, a

\* So does putting a Connection header into it.
LEMMA ConnectionKeeps ==
    ASSUME NEW c, WellFormed(c), NEW own \in ProgramHeaders \cup {"none"}
    PROVE  /\ Keeps(c, WithConnection(c, own))
           /\ NeedsWriteEvent(WithConnection(c, own)) = NeedsWriteEvent(c)
<1> DEFINE r == [c.response EXCEPT !.own = own]
           d == [c EXCEPT !.response = r]
<1>1. own \in ConnectionHeaders
  BY LoopAssumption DEF ConnectionHeaders
<1>2. r \in Response /\ r.status = c.response.status
  BY <1>1, ClientFields DEF Response, WellFormed
<1> HIDE DEF r
<1>3. Keeps(c, d) /\ d.state = c.state /\ d.response = r
  BY <1>2 DEF Keeps, WellFormed, ClientType
<1>4. WithConnection(c, own) = d
  BY DEF WithConnection, r
<1> QED
  BY <1>2, <1>3, <1>4 DEF NeedsWriteEvent

\* compactBuffer erases no more than there is, even past the end.
LEMMA CompactKeeps ==
    ASSUME NEW c, WellFormed(c)
    PROVE  Keeps(c, CompactBuffer(c))
<1> DEFINE base == IF c.readOffset <= RawLength(c) THEN c.base + c.readOffset ELSE c.got
<1>1. base \in Nat /\ base <= c.got
  BY ClientFields DEF WellFormed, RawLength
<1>2. CompactBuffer(c) = [c EXCEPT !.base = base, !.readOffset = 0]
  BY DEF CompactBuffer
<1> HIDE DEF base
<1>3. Keeps(c, [c EXCEPT !.base = base, !.readOffset = 0])
  <2>1. 0 \in Nat
    OBVIOUS
  <2> QED
    BY <1>1, <2>1, MoveKeeps
<1> QED
  BY <1>2, <1>3

\* consumeBuffer: so does advancing the read offset by any amount.
LEMMA ConsumeKeeps ==
    ASSUME NEW c, WellFormed(c), NEW n \in Nat
    PROVE  Keeps(c, ConsumeBuffer(c, n))
<1> DEFINE moved == [c EXCEPT !.readOffset = c.readOffset + n]
<1>1. Keeps(c, moved)
  <2>1. c.readOffset + n \in Nat /\ c.base \in Nat /\ c.base <= c.got
    BY ClientFields DEF WellFormed
  <2> QED
    BY <2>1, MoveKeeps
<1> HIDE DEF moved
<1>2. Keeps(moved, CompactBuffer(moved))
  BY <1>1, CompactKeeps DEF Keeps
<1>3. ConsumeBuffer(c, n) = moved \/ ConsumeBuffer(c, n) = CompactBuffer(moved)
  BY DEF ConsumeBuffer, moved
<1> QED
  BY <1>1, <1>2, <1>3 DEF Keeps

-----------------------------------------------------------------------------
(***************************************************************************)
(* Parsing.                                                                *)
(***************************************************************************)
\* tryParseHeaders: headerEnd, a difference of positions, is never negative.
LEMMA TryParseHeadersKeeps ==
    ASSUME input \in Seq(Request), NEW c, WellFormed(c)
    PROVE  Keeps(c, TryParseHeaders(input, c))
<1> DEFINE pos == ReadPosition(c)
           q == RequestAt(input, pos)
<1>1. pos \in Nat /\ pos >= c.base /\ c.got \in Nat /\ c.base \in Nat
  BY ClientFields DEF WellFormed, ReadPosition
<1>2. q \in Request /\ q.error \in Nat
  BY <1>1, ParsedRequestType, RequestFields
<1>3. Keeps(c, c)
  BY DEF Keeps
<1>4. \A status \in Nat : Keeps(c, Answer(c, status))
  BY AnswerKeeps
<1> HIDE DEF pos, q
<1>5. CASE ~Found(BlankLines(input), pos, c.got)
  <2> DEFINE a == Answer(c, 431)
  <2>1. Keeps(c, a)
    BY <1>4
  <2> HIDE DEF a
  <2>2. Keeps(c, [a EXCEPT !.headerState = "HEADER_COMPLETE"])
    BY <2>1 DEF Keeps, WellFormed, ClientType, HeaderStates
  <2> QED
    BY <1>3, <1>5, <2>2 DEF TryParseHeaders, pos, a
<1>6. CASE Found(BlankLines(input), pos, c.got) /\ q.error # 0
  <2> DEFINE a == Answer(c, q.error)
  <2>1. Keeps(c, a)
    BY <1>2, <1>4
  <2> HIDE DEF a
  <2>2. Keeps(c, [a EXCEPT !.request = q, !.headerState = "HEADER_COMPLETE"])
    BY <1>2, <2>1 DEF Keeps, WellFormed, ClientType, HeaderStates
  <2> QED
    BY <1>6, <2>2 DEF TryParseHeaders, pos, q, a
<1>7. CASE Found(BlankLines(input), pos, c.got) /\ q.error = 0
  <2> DEFINE end == First(BlankLines(input), pos)
  <2>1. end \in Nat /\ end > pos
    BY <1>1, <1>7, MarksAreNaturals, FirstIsFound
  <2>2. end - c.base \in Nat
    BY <1>1, <2>1
  <2> HIDE DEF end
  <2>3. Keeps(c, [c EXCEPT !.request = q, !.headerState = "HEADER_COMPLETE",
                          !.headerEnd = end - c.base])
    BY <1>2, <2>2 DEF Keeps, WellFormed, ClientType, HeaderStates
  <2> QED
    BY <1>7, <2>3 DEF TryParseHeaders, pos, q, end
<1> QED
  BY <1>5, <1>6, <1>7

\* What the body parsers assign, whichever way they return.
LEMMA ParseStepsKeep ==
    ASSUME NEW c, WellFormed(c), NEW length \in Nat, NEW status \in Nat
    PROVE  /\ Keeps(c, RequestComplete(c, length))
           /\ Keeps(c, BodyReceiving(c))
           /\ Keeps(c, [Answer(c, status) EXCEPT !.lastBodyLength = length])
<1> DEFINE a == Answer(c, status)
<1>1. Keeps(c, a)
  BY AnswerKeeps
<1> HIDE DEF a
<1>2. Keeps(a, [a EXCEPT !.lastBodyLength = length])
  BY <1>1 DEF Keeps, WellFormed, ClientType
<1>3. Keeps(c, [a EXCEPT !.lastBodyLength = length])
  BY <1>1, <1>2 DEF Keeps
<1>4. Keeps(c, RequestComplete(c, length)) /\ Keeps(c, BodyReceiving(c))
  BY DEF RequestComplete, BodyReceiving, HeaderStates, ClientStates, Keeps, WellFormed, ClientType
<1> QED
  BY <1>3, <1>4 DEF a

\* tryParseChunkedBody: the end it finds is not before where it started, so
\* that the body's length does not wrap.
LEMMA TryParseChunkedBodyKeeps ==
    ASSUME input \in Seq(Request), NEW c, WellFormed(c)
    PROVE  Keeps(c, TryParseChunkedBody(input, c))
<1> DEFINE start == c.base + c.headerEnd
           zeros == Zeros(input)
           end == ChunkedEnd(input, c)
           zero == First(zeros, SearchStart(c))
<1>1. CASE ~Found(zeros, SearchStart(c), c.got) \/ end > c.got
  BY <1>1, ParseStepsKeep DEF TryParseChunkedBody
<1>2. CASE Found(zeros, SearchStart(c), c.got) /\ ~(end > c.got)
  <2>1. start \in Nat /\ c.got \in Nat /\ SearchStart(c) \in Nat /\ SearchStart(c) >= start
    <3>1. c.base \in Nat /\ c.headerEnd \in Nat /\ c.got \in Nat
      BY ClientFields DEF WellFormed
    <3>2. SEARCH_WINDOW \in Nat
      BY SizesAssumption
    <3>3. start \in Nat
      BY <3>1
    <3>4. SearchStart(c) = IF c.got - start > SEARCH_WINDOW THEN c.got - SEARCH_WINDOW ELSE start
      BY DEF SearchStart
    <3> HIDE DEF start
    <3> QED
      BY <3>1, <3>2, <3>3, <3>4
  <2>2. zeros \subseteq Nat
    BY MarksAreNaturals
  <2>3. zero \in zeros /\ zero > SearchStart(c)
    BY <1>2, <2>1, <2>2, FirstIsFound
  <2> DEFINE ends == {e \in BlankLines(input) : zero <= e}
  <2>4. zero \in Nat /\ zero >= start
    BY <2>1, <2>2, <2>3
  <2> HIDE DEF zero, zeros
  <2>5. ends \subseteq Nat /\ zero \in ends
    BY <2>3, <2>4, MarksAreNaturals DEF zeros
  <2>6. end \in ends
    BY <2>5, MinIsLeast DEF ChunkedEnd, zero, zeros
  <2>7. end - start \in Nat
    BY <2>1, <2>4, <2>5, <2>6
  <2> HIDE DEF start, end
  <2> DEFINE length == end - start
  <2> HIDE DEF length
  <2>8. /\ Keeps(c, RequestComplete(c, length))
        /\ Keeps(c, [Answer(c, 400) EXCEPT !.lastBodyLength = length])
        /\ Keeps(c, [Answer(c, 413) EXCEPT !.lastBodyLength = length])
    BY <2>7, ParseStepsKeep DEF length
  <2> QED
    BY <1>2, <2>8 DEF TryParseChunkedBody, start, end, zeros, length
<1> QED
  BY <1>1, <1>2

\* tryParseBody, over its three ways of delimiting a body.
LEMMA TryParseBodyKeeps ==
    ASSUME input \in Seq(Request), NEW c, WellFormed(c)
    PROVE  Keeps(c, TryParseBody(input, c))
<1> DEFINE expected == c.request.body
<1>1. expected \in Nat
  BY ClientFields, RequestFields DEF WellFormed
<1> HIDE DEF expected
<1>2. /\ Keeps(c, RequestComplete(c, expected)) /\ Keeps(c, RequestComplete(c, 0))
      /\ Keeps(c, BodyReceiving(c))
      /\ Keeps(c, [Answer(c, 413) EXCEPT !.lastBodyLength = expected])
  <2>1. 0 \in Nat /\ 413 \in Nat
    OBVIOUS
  <2> QED
    BY <1>1, <2>1, ParseStepsKeep
<1>3. Keeps(c, TryParseContentLengthBody(c))
  BY <1>2 DEF TryParseContentLengthBody, expected
<1> QED
  BY <1>2, <1>3, TryParseChunkedBodyKeeps DEF TryParseBody

\* Steps 1 to 3 of Server::handleClientData.
LEMMA ParsedKeeps ==
    ASSUME input \in Seq(Request), NEW c, WellFormed(c)
    PROVE  Keeps(c, Parsed(c))
<1> DEFINE one == Step1(c)
           two == Step2(one)
           three == Step3(two)
<1>1. Keeps(c, one)
  BY TryParseHeadersKeeps DEF Step1, Keeps
<1> HIDE DEF one
<1>2. Keeps(one, two)
  <2> DEFINE refused == SetResponse(one, 405)
  <2>1. Keeps(one, refused)
    <3>1. WellFormed(one) /\ 405 \in Nat
      BY <1>1 DEF Keeps
    <3> QED
      BY <3>1, AnswerKeeps
  <2> HIDE DEF refused
  <2>2. Keeps(refused, [refused EXCEPT !.conf = TRUE]) /\ Keeps(one, [one EXCEPT !.conf = TRUE])
    BY <1>1, <2>1 DEF Keeps, WellFormed, ClientType
  <2> QED
    BY <2>1, <2>2 DEF Step2, Keeps, refused
<1> HIDE DEF two
<1>3. Keeps(two, three)
  BY <1>1, <1>2, TryParseBodyKeeps DEF Step3, Keeps
<1> HIDE DEF three
<1>4. Parsed(c) \in {one, two, three}
  BY DEF Parsed, one, two, three
<1> QED
  BY <1>1, <1>2, <1>3, <1>4 DEF Keeps

-----------------------------------------------------------------------------
(***************************************************************************)
(* Writing.                                                                *)
(***************************************************************************)
\* What handleWrite sends is a response.
LEMMA BufferedType ==
    ASSUME NEW c \in ClientType
    PROVE  Buffered(c) \in Response
<1>1. c.response \in Response /\ c.responseBuffer \in Response /\ c.request.keep \in BOOLEAN
  BY ClientFields, RequestFields
<1> QED
  BY <1>1 DEF Buffered, Serialize, Announces, Response

\* Sending some bytes of it moves only responseSent.
LEMMA SendKeeps ==
    ASSUME NEW c, WellFormed(c), NEW n \in Nat
    PROVE  Keeps(c, Send(c, n))
<1>1. Buffered(c) \in Response /\ c.responseSent + n \in Nat
  BY BufferedType, ClientFields DEF WellFormed
<1>2. Send(c, n) = [c EXCEPT !.responseBuffer = Buffered(c), !.responseSent = c.responseSent + n]
  BY DEF Send
<1> DEFINE b == Buffered(c)
           m == c.responseSent + n
<1> HIDE DEF b, m
<1>3. Keeps(c, [c EXCEPT !.responseBuffer = b, !.responseSent = m])
  BY <1>1 DEF b, m, Keeps, WellFormed, ClientType
<1> QED
  BY <1>2, <1>3 DEF b, m

\* resetForNextRequest: consuming, trimming and starting afresh never move the
\* front of the buffer beyond its end.
LEMMA ResetKeeps ==
    ASSUME NEW c, WellFormed(c)
    PROVE  Keeps(c, ResetForNextRequest(c))
<1> DEFINE consumed == IF c.headerEnd > c.readOffset THEN ConsumeBuffer(c, ConsumedLength(c)) ELSE c
           emptied == [consumed EXCEPT !.base = c.got, !.readOffset = 0]
           trimmed == IF BufferLength(consumed) = 0 THEN emptied
                      ELSE IF consumed.readOffset > BUFFER_COMPACT_THRESHOLD
                           THEN CompactBuffer(consumed) ELSE consumed
           next == [NewClient EXCEPT !.base = trimmed.base, !.got = trimmed.got,
                                     !.readOffset = trimmed.readOffset]
<1>1. Keeps(c, consumed)
  <2>1. c.headerEnd > c.readOffset => ConsumedLength(c) \in Nat
    BY ClientFields DEF WellFormed, ConsumedLength
  <2> QED
    BY <2>1, ConsumeKeeps DEF Keeps
<1> HIDE DEF consumed
<1>2. Keeps(consumed, emptied) /\ Keeps(consumed, CompactBuffer(consumed))
  <2>1. consumed.got = c.got /\ c.got \in Nat /\ c.got <= c.got
    BY <1>1, ClientFields DEF Keeps, WellFormed
  <2> QED
    BY <1>1, <2>1, MoveKeeps, CompactKeeps DEF Keeps
<1> HIDE DEF emptied
<1>3. trimmed \in {consumed, emptied, CompactBuffer(consumed)}
  OBVIOUS
<1> HIDE DEF trimmed
<1>4. Keeps(c, trimmed)
  BY <1>1, <1>2, <1>3 DEF Keeps
<1>5. /\ trimmed.base \in Nat /\ trimmed.got \in Nat /\ trimmed.readOffset \in Nat
      /\ trimmed.base <= trimmed.got /\ trimmed.got = c.got
  BY <1>4, ClientFields DEF Keeps, WellFormed
<1>6. next \in ClientType /\ next.base = trimmed.base /\ next.got = trimmed.got
  BY <1>5, NewClientWellFormed DEF WellFormed, ClientType
<1>7. ResetForNextRequest(c) = next
  BY DEF ResetForNextRequest, next, trimmed, emptied, consumed
<1> HIDE DEF next
<1> QED
  BY <1>5, <1>6, <1>7 DEF Keeps, WellFormed

\* handleWrite, over all its outcomes.
LEMMA HandleWriteKeeps ==
    ASSUME NEW c, WellFormed(c), NEW n \in Nat
    PROVE  Keeps(c, HandleWrite(c, n))
<1> DEFINE d == Send(c, n)
           gone == [d EXCEPT !.state = "DISCONNECTED"]
<1>1. Keeps(c, d)
  BY SendKeeps
<1> HIDE DEF d
<1>2. Keeps(d, gone)
  BY <1>1 DEF Keeps, WellFormed, ClientType, ClientStates
<1> HIDE DEF gone
<1>3. Keeps(d, ResetForNextRequest(d))
  BY <1>1, ResetKeeps DEF Keeps
<1>4. HandleWrite(c, n) \in {c, d, gone, ResetForNextRequest(d)}
  BY DEF HandleWrite, d, gone
<1> QED
  BY <1>1, <1>2, <1>3, <1>4 DEF Keeps

-----------------------------------------------------------------------------
(***************************************************************************)
(* Type correctness: one lemma per action that touches the object, then    *)
(* the theorem.                                                            *)
(***************************************************************************)
\* The stream's length is a natural number, so that a delivery stays in it.
LEMMA StreamEndType ==
    ASSUME input \in Seq(Request)
    PROVE  StreamEnd \in Nat
<1>1. CASE input = <<>>
  BY <1>1 DEF StreamEnd
<1>2. CASE input # <<>>
  <2>1. input[Len(input)] \in Request
    BY <1>2
  <2>2. EndOf(input[Len(input)]) \in Nat
    BY <2>1, RequestFields DEF EndOf
  <2> QED
    BY <1>2, <2>2 DEF StreamEnd
<1> QED
  BY <1>1, <1>2

\* Server::cleanupClient leaves a well-formed (absent) client.
LEMMA CleanupType ==
    ASSUME sent \in Nat, Cleanup
    PROVE  /\ client' \in ClientType /\ client'.base <= client'.got /\ client'.got <= sent
           /\ open' \in BOOLEAN /\ writable' \in BOOLEAN
<1>1. client' = NewClient
  BY DEF Cleanup
<1>2. client'.got = 0
  BY <1>1 DEF NewClient
<1>3. client' \in ClientType /\ client'.base <= client'.got
  BY <1>1, NewClientWellFormed DEF WellFormed
<1>4. client'.got <= sent
  BY <1>2
<1>5. open' \in BOOLEAN /\ writable' \in BOOLEAN
  BY DEF Cleanup
<1> QED
  BY <1>3, <1>4, <1>5

\* Server::handleClientData keeps the types when recv returned n bytes that
\* the kernel really had.
LEMMA HandleClientDataType ==
    ASSUME TypeOK, NEW n \in Nat, client.got + n <= sent, HandleClientData(n)
    PROVE  /\ client' \in ClientType /\ client'.base <= client'.got /\ client'.got <= sent
           /\ open' \in BOOLEAN /\ writable' \in BOOLEAN /\ idle' \in Nat
           /\ handled' \in Seq([request : Request, from : Nat, raw : Nat, got : Nat])
           /\ lapses' \subseteq Lapses
<1> DEFINE received == AppendRawBuffer(client, n)
           parsed == Parsed(received)
<1>1. WellFormed(received) /\ received.got = client.got + n
  <2>1. client.got + n \in Nat /\ client.base <= client.got + n
    BY ClientFields DEF TypeOK
  <2> QED
    BY <2>1 DEF TypeOK, AppendRawBuffer, WellFormed, ClientType
<1> HIDE DEF received
<1>2. Keeps(received, parsed)
  BY <1>1, ParsedKeeps DEF TypeOK
<1>3. WellFormed(parsed) /\ parsed.got <= sent
  BY <1>1, <1>2 DEF Keeps
<1>4. lapses' \subseteq Lapses /\ idle' \in Nat /\ open' \in BOOLEAN
  BY DEF HandleClientData, TypeOK, Lapses
<1>5. /\ \/ parsed.state # "PROCESSING_REQUEST" /\ client' = parsed /\ UNCHANGED handled
         \/ /\ \E status \in Results, own \in ProgramHeaders \cup {"none"} :
               client' = WithConnection(SetResponse(parsed, status), own)
            /\ handled' = Append(handled, BodyGiven(parsed))
      /\ writable' = AsksToWrite(client')
  BY DEF HandleClientData, received, parsed
<1> HIDE DEF parsed
<1>6. client' \in ClientType /\ client'.base <= client'.got /\ client'.got <= sent
  <2>1. CASE client' = parsed
    BY <1>3, <2>1 DEF WellFormed
  <2>2. ASSUME NEW status \in Results, NEW own \in ProgramHeaders \cup {"none"},
               client' = WithConnection(SetResponse(parsed, status), own)
        PROVE  client' \in ClientType /\ client'.base <= client'.got /\ client'.got <= sent
    <3>1. status \in Nat
      BY LoopAssumption
    <3>2. Keeps(parsed, SetResponse(parsed, status))
      BY <1>3, <3>1, AnswerKeeps
    <3>3. Keeps(SetResponse(parsed, status), client')
      BY <2>2, <3>2, ConnectionKeeps DEF Keeps
    <3> QED
      BY <1>3, <3>2, <3>3 DEF Keeps, WellFormed
  <2> QED
    BY <1>5, <2>1, <2>2
<1>7. BodyGiven(parsed) \in [request : Request, from : Nat, raw : Nat, got : Nat]
  <2>1. /\ parsed.request \in Request /\ parsed.base + parsed.headerEnd \in Nat
        /\ parsed.lastBodyLength \in Nat /\ parsed.got \in Nat
    BY <1>3, ClientFields DEF WellFormed
  <2> QED
    BY <2>1 DEF BodyGiven
<1>8. handled' \in Seq([request : Request, from : Nat, raw : Nat, got : Nat])
  <2> DEFINE b == BodyGiven(parsed)
             T == [request : Request, from : Nat, raw : Nat, got : Nat]
  <2>1. b \in T /\ handled \in Seq(T)
    BY <1>7 DEF TypeOK
  <2>2. handled' = handled \/ handled' = Append(handled, b)
    BY <1>5
  <2> HIDE DEF b, T
  <2>3. handled' \in Seq(T)
    BY <2>1, <2>2
  <2> QED
    BY <2>3 DEF T
<1>9. writable' \in BOOLEAN
  BY <1>5 DEF AsksToWrite, NeedsWriteEvent, TypeOK
<1> QED
  BY <1>4, <1>6, <1>8, <1>9

\* Server::handleClientData, with the branches where recv returns 0 or fails.
LEMMA OnReadableType ==
    ASSUME TypeOK, OnReadable
    PROVE  TypeOK'
<1>1. /\ UNCHANGED <<input, sent, peer, pc, wire>> /\ ev' \subseteq Events
  BY DEF OnReadable, peerVars, TypeOK
<1>2. CASE Cleanup /\ UNCHANGED <<idle, handled, lapses>>
  BY <1>1, <1>2, CleanupType DEF TypeOK
<1>3. ASSUME client.got < sent,
             HandleClientData(IF sent - client.got > BUFFER_SIZE
                              THEN BUFFER_SIZE ELSE sent - client.got)
      PROVE  TypeOK'
  <2> DEFINE n == IF sent - client.got > BUFFER_SIZE THEN BUFFER_SIZE ELSE sent - client.got
  <2>1. n \in Nat /\ client.got + n <= sent
    BY <1>3, LoopAssumption, ClientFields DEF TypeOK
  <2>2. HandleClientData(n)
    BY <1>3
  <2> HIDE DEF n
  <2> QED
    BY <1>1, <2>1, <2>2, HandleClientDataType DEF TypeOK
<1> QED
  BY <1>2, <1>3 DEF OnReadable

\* Server::onWritable, whether send takes some bytes or fails.
LEMMA OnWritableType ==
    ASSUME TypeOK, NEW n \in 0..RESPONSE_LENGTH, OnWritable(n)
    PROVE  TypeOK'
<1> DEFINE after == HandleWrite(client, n)
           part(i) == [response |-> Buffered(client), part |-> client.responseSent + i]
<1>1. n \in Nat /\ client \in ClientType /\ WellFormed(client)
  BY SizesAssumption DEF TypeOK, WellFormed
<1>2. Keeps(client, after)
  BY <1>1, HandleWriteKeeps
<1>3. /\ UNCHANGED <<input, sent, peer, pc, handled>> /\ ev' \subseteq Events
      /\ lapses' \subseteq Lapses /\ idle' \in Nat
  BY DEF OnWritable, peerVars, TypeOK, Lapses
<1>4. wire' \in Seq([response : Response, part : Nat])
  <2>1. client.responseSent \in Nat /\ Buffered(client) \in Response
    BY <1>1, ClientFields, BufferedType
  <2>2. \A i \in 1..n : part(i) \in [response : Response, part : Nat]
    BY <1>1, <2>1
  <2>3. [i \in 1..n |-> part(i)] \in Seq([response : Response, part : Nat])
    BY <1>1, <2>2
  <2>4. wire' = wire \o [i \in 1..n |-> part(i)]
    BY DEF OnWritable
  <2> QED
    BY <2>3, <2>4 DEF TypeOK
<1>5. \/ Cleanup
      \/ /\ client' = after /\ open' = open
         /\ writable' = (writable /\ NeedsWriteEvent(after))
  BY DEF OnWritable
<1> HIDE DEF after
<1>6. /\ client' \in ClientType /\ client'.base <= client'.got /\ client'.got <= sent
      /\ open' \in BOOLEAN /\ writable' \in BOOLEAN
  <2>1. CASE Cleanup
    BY <2>1, CleanupType DEF TypeOK
  <2>2. CASE client' = after /\ open' = open /\ writable' = (writable /\ NeedsWriteEvent(after))
    BY <1>2, <2>2 DEF TypeOK, Keeps, WellFormed, NeedsWriteEvent
  <2> QED
    BY <1>5, <2>1, <2>2
<1> QED
  BY <1>3, <1>4, <1>6 DEF TypeOK

\* The object, the stream, the loop and the histories always have their
\* types: in particular the buffer never starts beyond its end and the server
\* never holds a byte the kernel did not deliver.
THEOREM TypeCorrect == Spec => []TypeOK
<1>1. Init => TypeOK
  <2>1. NewClient \in ClientType /\ NewClient.base <= NewClient.got /\ NewClient.got = 0
    BY NewClientWellFormed DEF WellFormed, NewClient
  <2>2. ASSUME NEW T PROVE <<>> \in Seq(T)
    OBVIOUS
  <2> SUFFICES ASSUME Init PROVE TypeOK
    OBVIOUS
  <2>3. input \in Seq(Request) /\ handled = <<>> /\ wire = <<>>
    BY <2>2 DEF Init
  <2>4. /\ handled \in Seq([request : Request, from : Nat, raw : Nat, got : Nat])
        /\ wire \in Seq([response : Response, part : Nat])
    BY <2>2, <2>3
  <2>5. /\ client \in ClientType /\ client.base <= client.got /\ client.got <= sent
        /\ sent \in Nat /\ idle \in Nat
    BY <2>1 DEF Init
  <2> QED
    BY <2>3, <2>4, <2>5 DEF Init, TypeOK
<1>2. TypeOK /\ [Next]_vars => TypeOK'
  <2> SUFFICES ASSUME TypeOK, [Next]_vars PROVE TypeOK'
    OBVIOUS
  <2>1. ASSUME NEW q \in Shapes, Compose(q) PROVE TypeOK'
    <3>1. StreamEnd \in Nat /\ q \in Request
      BY StreamEndType, LoopAssumption DEF TypeOK
    <3>2. [q EXCEPT !.at = StreamEnd] \in Request
      BY <3>1 DEF Request
    <3>3. input' \in Seq(Request)
      BY <2>1, <3>2 DEF Compose, TypeOK
    <3> QED
      BY <2>1, <3>3 DEF Compose, TypeOK, loopVars, historyVars
  <2>2. ASSUME NEW n \in 1..StreamEnd, Deliver(n) PROVE TypeOK'
    <3>1. n \in Nat /\ sent < n /\ client.got \in Nat /\ sent' = n /\ client' = client
      BY <2>2, StreamEndType, ClientFields DEF Deliver, TypeOK
    <3>2. client.got <= n
      BY <3>1 DEF TypeOK
    <3> QED
      BY <2>2, <3>1, <3>2 DEF Deliver, TypeOK, loopVars, historyVars
  <2>3. ASSUME NEW how \in {"shutdown", "reset"}, HangUp(how) PROVE TypeOK'
    BY <2>3 DEF HangUp, TypeOK, loopVars, historyVars
  <2>4. CASE Elapse
    BY <2>4 DEF Elapse, TypeOK, peerVars, loopVars, historyVars
  <2>5. ASSUME NEW canWrite \in BOOLEAN, Poll(canWrite) PROVE TypeOK'
    BY <2>5 DEF Poll, TypeOK, peerVars, historyVars
  <2>6. CASE OnError
    BY <2>6, CleanupType DEF OnError, TypeOK, peerVars, historyVars
  <2>7. CASE OnReadable
    BY <2>7, OnReadableType
  <2>8. ASSUME NEW n \in 0..RESPONSE_LENGTH, OnWritable(n) PROVE TypeOK'
    BY <2>8, OnWritableType
  <2>9. CASE OnHangup
    BY <2>9, CleanupType DEF OnHangup, TypeOK, peerVars, historyVars
  <2>10. CASE OnTick
    BY <2>10, CleanupType DEF OnTick, TypeOK, peerVars, historyVars
  <2>11. CASE UNCHANGED vars
    BY <2>11 DEF vars, TypeOK, peerVars, loopVars, historyVars
  <2> QED
    BY <2>1, <2>2, <2>3, <2>4, <2>5, <2>6, <2>7, <2>8, <2>9, <2>10, <2>11
       DEF Next, Peer, Loop
<1> QED
  BY <1>1, <1>2, PTL DEF Spec

-----------------------------------------------------------------------------
(***************************************************************************)
(* The epoll interest follows the object.  InterestMatches is inductive:   *)
(* what has to be shown is that no step of the parser forgets a response   *)
(* that is waiting to be written.                                          *)
(***************************************************************************)
\* A response assigned by a parser or a handler waits to be written.
LEMMA AnswerWaits ==
    ASSUME NEW c, WellFormed(c), NEW status \in Nat \ {0}
    PROVE  /\ Answer(c, status) \in ClientType /\ SetResponse(c, status) \in ClientType
           /\ NeedsWriteEvent(Answer(c, status)) /\ NeedsWriteEvent(SetResponse(c, status))
<1> DEFINE r == [status |-> status, to |-> ReadPosition(c), own |-> "none", keep |-> FALSE, asked |-> FALSE]
           a == [c EXCEPT !.response = r, !.state = "WRITING_RESPONSE"]
           b == [a EXCEPT !.responseSent = 0]
<1>1. a \in ClientType /\ b \in ClientType
  <2>1. status \in Nat
    OBVIOUS
  <2>2. Answer(c, status) = a /\ SetResponse(c, status) = b
    BY DEF NewResponse, Answer, SetResponse
  <2> QED
    BY <2>1, <2>2, AnswerKeeps DEF Keeps, WellFormed
<1>2. r.status # 0
  OBVIOUS
<1> HIDE DEF r
<1>3. a.state = "WRITING_RESPONSE" /\ a.response = r
  BY DEF WellFormed, ClientType
<1> HIDE DEF a
<1>4. b.state = "WRITING_RESPONSE" /\ b.response = r
  BY <1>1, <1>3 DEF ClientType
<1> QED
  BY <1>1, <1>2, <1>3, <1>4 DEF NewResponse, Answer, SetResponse, NeedsWriteEvent, a, b, r

\* Assignments elsewhere in the object do not make it forget.
LEMMA WaitsOn ==
    ASSUME NEW c \in ClientType, NeedsWriteEvent(c), NEW q, NEW h, NEW n
    PROVE  /\ NeedsWriteEvent([c EXCEPT !.headerState = h])
           /\ NeedsWriteEvent([c EXCEPT !.conf = TRUE])
           /\ NeedsWriteEvent([c EXCEPT !.request = q, !.headerState = h])
           /\ NeedsWriteEvent([c EXCEPT !.request = q, !.headerState = h, !.headerEnd = n])
BY DEF NeedsWriteEvent, ClientType

\* A client that waits to write still does after bytes arrive and are parsed,
\* whichever of the early returns of handleClientData is taken.
LEMMA ParsedKeepsWaiting ==
    ASSUME input \in Seq(Request), NEW c, WellFormed(c), NeedsWriteEvent(c)
    PROVE  NeedsWriteEvent(Parsed(c))
<1> DEFINE one == Step1(c)
           q == RequestAt(input, ReadPosition(c))
           a == Answer(c, 431)
           b == Answer(c, q.error)
           done == "HEADER_COMPLETE"
<1>1. c \in ClientType
  BY DEF WellFormed
<1>2. NeedsWriteEvent(one)
  <2>1. q.error # 0 => q.error \in Nat \ {0}
    <3>1. ReadPosition(c) \in Nat
      BY <1>1, ClientFields DEF ReadPosition
    <3> QED
      BY <3>1, ParsedRequestType, RequestFields
  <2>2. \/ one = c
        \/ one = [a EXCEPT !.headerState = done]
        \/ q.error # 0 /\ one = [b EXCEPT !.request = q, !.headerState = done]
        \/ one = [c EXCEPT !.request = q, !.headerState = done,
                           !.headerEnd = First(BlankLines(input), ReadPosition(c)) - c.base]
    BY DEF Step1, TryParseHeaders
  <2>3. a \in ClientType /\ NeedsWriteEvent(a)
    <3>1. 431 \in Nat \ {0}
      OBVIOUS
    <3> QED
      BY <3>1, AnswerWaits
  <2> HIDE DEF q, a, one, done
  <2>4. q.error # 0 => b \in ClientType /\ NeedsWriteEvent(b)
    BY <2>1, AnswerWaits
  <2> HIDE DEF b
  <2>5. NeedsWriteEvent([a EXCEPT !.headerState = done])
    BY <2>3, WaitsOn
  <2>6. q.error # 0 => NeedsWriteEvent([b EXCEPT !.request = q, !.headerState = done])
    BY <2>4, WaitsOn
  <2> DEFINE end == First(BlankLines(input), ReadPosition(c)) - c.base
  <2>7. NeedsWriteEvent([c EXCEPT !.request = q, !.headerState = done, !.headerEnd = end])
    BY <1>1, WaitsOn
  <2> QED
    BY <2>2, <2>5, <2>6, <2>7
<1>3. Keeps(c, one)
  BY TryParseHeadersKeeps DEF Step1, Keeps
<1> HIDE DEF one
<1> DEFINE refused == SetResponse(one, 405)
<1>4. one \in ClientType /\ refused \in ClientType /\ NeedsWriteEvent(refused)
  <2>1. 405 \in Nat \ {0} /\ WellFormed(one)
    BY <1>3 DEF Keeps
  <2> QED
    BY <2>1, AnswerWaits DEF WellFormed
<1> HIDE DEF refused
<1>5. NeedsWriteEvent(Step2(one))
  BY <1>2, <1>4, WaitsOn DEF Step2, refused
<1>6. Step3(Step2(one)) = Step2(one)
  BY <1>5 DEF Step3, NeedsWriteEvent
<1> QED
  BY <1>2, <1>5, <1>6 DEF Parsed, one

\* EPOLLOUT is asked for exactly while a response waits to be written.
THEOREM InterestCorrect == Spec => []InterestMatches
<1>1. Init => InterestMatches
  <2>1. NewClient.state = "READING_REQUEST"
    BY DEF NewClient
  <2> QED
    BY <2>1 DEF Init, InterestMatches, NeedsWriteEvent
<1>2. TypeOK /\ InterestMatches /\ [Next]_vars => InterestMatches'
  <2> SUFFICES ASSUME TypeOK, InterestMatches, [Next]_vars PROVE InterestMatches'
    OBVIOUS
  <2>1. CASE UNCHANGED <<client, open, writable>>
    BY <2>1 DEF InterestMatches, NeedsWriteEvent
  <2>2. CASE Cleanup
    BY <2>2 DEF Cleanup, InterestMatches
  <2>3. ASSUME NEW n \in Nat, HandleClientData(n) PROVE InterestMatches'
    <3> DEFINE received == AppendRawBuffer(client, n)
               parsed == Parsed(received)
    <3>1. WellFormed(received) /\ (NeedsWriteEvent(client) => NeedsWriteEvent(received))
      <4>1. client.got + n \in Nat /\ client.base <= client.got + n
        BY ClientFields DEF TypeOK
      <4>2. WellFormed(received)
        BY <4>1 DEF TypeOK, AppendRawBuffer, WellFormed, ClientType
      <4>3. received.state = client.state /\ received.response = client.response
        BY DEF TypeOK, AppendRawBuffer, ClientType
      <4> QED
        BY <4>2, <4>3 DEF NeedsWriteEvent
    <3>2. /\ \/ client' = parsed
             \/ \E status \in Results, own \in ProgramHeaders \cup {"none"} :
               client' = WithConnection(SetResponse(parsed, status), own)
          /\ open' = open /\ writable' = (writable \/ NeedsWriteEvent(client'))
      BY <2>3 DEF HandleClientData, AsksToWrite
    <3> HIDE DEF received
    <3>3. NeedsWriteEvent(client) => NeedsWriteEvent(parsed)
      BY <3>1, ParsedKeepsWaiting DEF TypeOK
    <3>4. WellFormed(parsed)
      BY <3>1, ParsedKeeps DEF TypeOK, Keeps
    <3> HIDE DEF parsed
    <3>5. ASSUME NEW status \in Results, NEW own \in ProgramHeaders \cup {"none"}
          PROVE  NeedsWriteEvent(WithConnection(SetResponse(parsed, status), own))
      <4>1. status \in Nat \ {0}
        BY LoopAssumption
      <4>2. NeedsWriteEvent(SetResponse(parsed, status)) /\ WellFormed(SetResponse(parsed, status))
        BY <3>4, <4>1, AnswerWaits, AnswerKeeps DEF Keeps
      <4> QED
        BY <4>2, ConnectionKeeps
    <3>6. NeedsWriteEvent(client) => NeedsWriteEvent(client')
      BY <3>2, <3>3, <3>5
    <3> QED
      BY <3>2, <3>6 DEF InterestMatches, NeedsWriteEvent
  <2>4. CASE OnReadable
    <3>1. CASE Cleanup
      BY <2>2, <3>1
    <3>2. CASE HandleClientData(IF sent - client.got > BUFFER_SIZE
                                THEN BUFFER_SIZE ELSE sent - client.got) /\ client.got < sent
      <4> DEFINE n == IF sent - client.got > BUFFER_SIZE THEN BUFFER_SIZE ELSE sent - client.got
      <4>1. n \in Nat
        BY <3>2, LoopAssumption, ClientFields DEF TypeOK
      <4> QED
        BY <2>3, <3>2, <4>1
    <3> QED
      BY <2>4, <3>1, <3>2 DEF OnReadable
  <2>5. ASSUME NEW n \in 0..RESPONSE_LENGTH, OnWritable(n) PROVE InterestMatches'
    <3> DEFINE after == HandleWrite(client, n)
    <3>1. CASE Cleanup
      BY <2>2, <3>1
    <3>2. CASE client' = after /\ open' = open /\ writable' = (writable /\ NeedsWriteEvent(after))
      <4>1. ~NeedsWriteEvent(client) => after = client
        BY DEF HandleWrite
      <4> HIDE DEF after
      <4> QED
        BY <3>2, <4>1 DEF InterestMatches, NeedsWriteEvent
    <3> QED
      BY <2>5, <3>1, <3>2 DEF OnWritable
  <2>6. ASSUME NEW q, Compose(q) PROVE InterestMatches'
    BY <2>1, <2>6 DEF Compose
  <2>7. ASSUME NEW n, Deliver(n) PROVE InterestMatches'
    BY <2>1, <2>7 DEF Deliver
  <2>8. ASSUME NEW how, HangUp(how) PROVE InterestMatches'
    BY <2>1, <2>8 DEF HangUp
  <2>9. CASE Elapse
    BY <2>1, <2>9 DEF Elapse
  <2>10. ASSUME NEW canWrite, Poll(canWrite) PROVE InterestMatches'
    BY <2>1, <2>10 DEF Poll
  <2>11. CASE OnError \/ OnHangup
    BY <2>2, <2>11 DEF OnError, OnHangup
  <2>12. CASE OnTick
    BY <2>1, <2>2, <2>12 DEF OnTick
  <2>13. CASE UNCHANGED vars
    BY <2>1, <2>13 DEF vars
  <2> QED
    BY <2>4, <2>5, <2>6, <2>7, <2>8, <2>9, <2>10, <2>11, <2>12, <2>13 DEF Next, Peer, Loop
<1> QED
  BY <1>1, <1>2, TypeCorrect, PTL DEF Spec

-----------------------------------------------------------------------------
(***************************************************************************)
(* The invariant.  Its parts are operators on the object c, the lapses l,  *)
(* the requests h handled and the bytes w written, so that they can be     *)
(* said of an object in the middle of a handler as well.                   *)
(***************************************************************************)
\* The stream is a row of requests, each beginning where the last one ended,
\* and the kernel delivers no more than the peer wrote.
Row ==
    /\ \A i \in DOMAIN input : input[i].hdr > 0 /\ (input[i].chunked => input[i].body > 0)
    /\ \A i, j \in DOMAIN input : i < j => EndOf(input[i]) <= input[j].at
    /\ \A i \in DOMAIN input : input[i].at = IF i = 1 THEN 0 ELSE EndOf(input[i-1])

StreamInv == Row /\ sent <= StreamEnd

Boundaries == {0} \cup {EndOf(input[i]) : i \in DOMAIN input}

\* Nothing has been answered, or sent, for the request that is being read.
Unanswered(c) ==
    /\ c.response = NoResponse /\ c.responseBuffer = NoResponse /\ c.responseSent = 0

\* The header at the read position was parsed: it is one of the peer's.
HeaderRead(c) ==
    /\ \E i \in DOMAIN input : input[i] = c.request
    /\ c.request.at = ReadPosition(c)
    /\ c.base + c.headerEnd = BodyStart(c.request)
    /\ BodyStart(c.request) <= c.got

\* A response waits.  Its serialization stays what it was when sending began,
\* which is out of date only where Step 2 replaced the response by a 405.
Writing(c, l) ==
    /\ c.state = "WRITING_RESPONSE"
    /\ c.response.status # 0 /\ c.response.to = ReadPosition(c)
    /\ c.responseSent < RESPONSE_LENGTH
    /\ c.responseSent > 0 => c.responseBuffer.status # 0
    /\ c.responseBuffer.status # 0 =>
         /\ c.responseSent > 0 \/ "replaced" \in l
         /\ c.responseBuffer = Serialize(c) \/ c.response.status = 405

\* Where the body of the request being answered was taken to end.
BodyTaken(c, l) ==
    /\ c.lastBodyLength >= c.request.body
    /\ "outOfWindow" \notin l => c.lastBodyLength = c.request.body
    /\ \/ BodyStart(c.request) + c.lastBodyLength <= c.got
       \/ /\ c.response.status = 413 /\ c.headerState # "REQUEST_COMPLETE"
          /\ c.lastBodyLength = c.request.body

\* The four stages of an object between two handler calls, and the one in
\* which handleClientData gives the request to processRequest.
ReadingStage(c) ==
    /\ Unanswered(c) /\ c.state = "READING_REQUEST" /\ c.headerState = "HEADER_INCOMPLETE"
    /\ c.request = Fresh /\ ~c.conf /\ c.headerEnd = 0 /\ c.lastBodyLength = 0

BodyStage(c) ==
    /\ Unanswered(c) /\ c.state = "READING_REQUEST" /\ c.headerState = "BODY_RECEIVING"
    /\ HeaderRead(c) /\ c.conf /\ c.lastBodyLength = 0

RefusedStage(c, l) ==
    Writing(c, l) /\ c.headerState = "HEADER_COMPLETE" /\ Disconnects(c)

AnsweredStage(c, l) ==
    /\ Writing(c, l) /\ c.headerState # "HEADER_INCOMPLETE"
    /\ HeaderRead(c) /\ c.conf /\ BodyTaken(c, l)

CompleteStage(c, l) ==
    /\ Unanswered(c) /\ c.state = "PROCESSING_REQUEST" /\ c.headerState = "REQUEST_COMPLETE"
    /\ HeaderRead(c) /\ c.conf /\ BodyTaken(c, l)

Stages(c, l) ==
    ReadingStage(c) \/ BodyStage(c) \/ RefusedStage(c, l) \/ AnsweredStage(c, l)

\* The read position is a boundary of the stream that has been received,
\* except after the lapses the histories record.
PlaceInv(c, l) ==
    /\ "early413" \notin l => ReadPosition(c) <= c.got
    /\ l \cap {"early413", "outOfWindow"} = {} => ReadPosition(c) \in Boundaries

\* A 431 of the parser's is an answer to a header block that is too long.
RefusalInv(c, l) ==
    c.response.status = 431 /\ c.headerState # "REQUEST_COMPLETE" /\ "early413" \notin l
        => c.got > ReadPosition(c) + MAX_HEADER_SIZE

\* What was handled lies before the read position, but for the request that
\* is being answered.
OrderInv(c, h) ==
    \A i \in DOMAIN h :
        \/ EndOf(h[i].request) <= ReadPosition(c)
        \/ i = Len(h) /\ c.headerState = "REQUEST_COMPLETE" /\ h[i].request = c.request

\* What was sent last is where the object says it is, and a response that
\* closes the connection is the one in the buffer.
SentInv(c, l, w) ==
    "replaced" \notin l =>
        IF c.responseSent = 0
        THEN w # <<>> => /\ w[Len(w)].part = RESPONSE_LENGTH
                         /\ w[Len(w)].response.to < ReadPosition(c)
        ELSE w # <<>> /\ w[Len(w)] = [response |-> c.responseBuffer, part |-> c.responseSent]

ClosingInv(c, w) ==
    \A i \in DOMAIN w :
        Final(w[i].response) =>
            c.responseBuffer.status # 0 /\ w[i].response = c.responseBuffer

ClientInv(c, l, h, w) ==
    /\ PlaceInv(c, l) /\ RefusalInv(c, l) /\ OrderInv(c, h)
    /\ SentInv(c, l, w) /\ ClosingInv(c, w)

\* No event is left that would touch an object that is gone.
GoneInv == ~open => client = NewClient /\ ~writable /\ ev \subseteq {"OUT", "RDHUP"}

Inv ==
    /\ StreamInv /\ GoneInv
    /\ open => Stages(client, lapses) /\ ClientInv(client, lapses, handled, wire)
    /\ BodyWhole /\ HandledInOrder /\ WireFramed /\ CloseHonoured

-----------------------------------------------------------------------------
(***************************************************************************)
(* What the methods of Client assign, field by field.                      *)
(***************************************************************************)
Fields == {"state", "headerState", "request", "response", "responseBuffer", "responseSent",
           "headerEnd", "lastBodyLength", "conf", "base", "got", "readOffset"}

\* d differs from c in some of these fields only.
Differs(c, d, changed) == \A f \in Fields \ changed : d[f] = c[f]

\* Putting a Connection header into a response.
LEMMA ConnectionFields ==
    ASSUME NEW c, WellFormed(c), NEW own
    PROVE  LET d == WithConnection(c, own)
           IN  /\ Differs(c, d, {"response"})
               /\ d.response.status = c.response.status /\ d.response.to = c.response.to
<1> DEFINE r == [c.response EXCEPT !.own = own]
           d == [c EXCEPT !.response = r]
<1>1. r.status = c.response.status /\ r.to = c.response.to
  BY ClientFields DEF Response, WellFormed
<1> HIDE DEF r
<1>2. Differs(c, d, {"response"}) /\ d.response = r
  BY DEF WellFormed, ClientType, Fields, Differs
<1>3. WithConnection(c, own) = d
  BY DEF WithConnection, r
<1> QED
  BY <1>1, <1>2, <1>3

\* Answer and setResponse.
LEMMA AnswerFields ==
    ASSUME NEW c, WellFormed(c), NEW status \in Nat
    PROVE  /\ Answer(c, status).state = "WRITING_RESPONSE"
           /\ Answer(c, status).response
                = [status |-> status, to |-> ReadPosition(c), own |-> "none", keep |-> FALSE, asked |-> FALSE]
           /\ Differs(c, Answer(c, status), {"state", "response"})
           /\ SetResponse(c, status).responseSent = 0
           /\ Differs(Answer(c, status), SetResponse(c, status), {"responseSent"})
<1> DEFINE r == [status |-> status, to |-> ReadPosition(c), own |-> "none", keep |-> FALSE, asked |-> FALSE]
           a == Answer(c, status)
<1>1. a.state = "WRITING_RESPONSE" /\ a.response = r /\ Differs(c, a, {"state", "response"})
  <2>1. a = [c EXCEPT !.response = r, !.state = "WRITING_RESPONSE"]
    BY DEF NewResponse, Answer
  <2> HIDE DEF r, a
  <2> QED
    BY <2>1 DEF WellFormed, ClientType, Fields, Differs
<1>2. a \in ClientType
  BY AnswerKeeps DEF Keeps, WellFormed
<1>3. SetResponse(c, status) = [a EXCEPT !.responseSent = 0]
  BY DEF SetResponse
<1> HIDE DEF r, a
<1>4. /\ SetResponse(c, status).responseSent = 0
      /\ Differs(a, SetResponse(c, status), {"responseSent"})
  BY <1>2, <1>3 DEF ClientType, Fields, Differs
<1> QED
  BY <1>1, <1>4 DEF r, a

\* A body parser's refusal: an error response, and where the body ends.
Refuses(c, status, length) == [Answer(c, status) EXCEPT !.lastBodyLength = length]

\* The assignments of the body parsers.
LEMMA BodyFields ==
    ASSUME NEW c, WellFormed(c), NEW length, NEW status \in Nat
    PROVE  /\ BodyReceiving(c).headerState = "BODY_RECEIVING"
           /\ Differs(c, BodyReceiving(c), {"headerState"})
           /\ RequestComplete(c, length).headerState = "REQUEST_COMPLETE"
           /\ RequestComplete(c, length).state = "PROCESSING_REQUEST"
           /\ RequestComplete(c, length).lastBodyLength = length
           /\ Differs(c, RequestComplete(c, length), {"headerState", "state", "lastBodyLength"})
           /\ Refuses(c, status, length).lastBodyLength = length
           /\ Differs(Answer(c, status), Refuses(c, status, length), {"lastBodyLength"})
<1>1. /\ BodyReceiving(c).headerState = "BODY_RECEIVING"
      /\ Differs(c, BodyReceiving(c), {"headerState"})
  BY DEF BodyReceiving, WellFormed, ClientType, Fields, Differs
<1>2. /\ RequestComplete(c, length).headerState = "REQUEST_COMPLETE"
      /\ RequestComplete(c, length).state = "PROCESSING_REQUEST"
      /\ RequestComplete(c, length).lastBodyLength = length
      /\ Differs(c, RequestComplete(c, length), {"headerState", "state", "lastBodyLength"})
  BY DEF RequestComplete, WellFormed, ClientType, Fields, Differs
<1> DEFINE a == Answer(c, status)
           b == [a EXCEPT !.lastBodyLength = length]
<1>3. a \in ClientType
  BY AnswerKeeps DEF Keeps, WellFormed
<1> HIDE DEF a
<1>4. b.lastBodyLength = length /\ Differs(a, b, {"lastBodyLength"})
  BY <1>3 DEF ClientType, Fields, Differs
<1> QED
  BY <1>1, <1>2, <1>4 DEF a, Refuses

-----------------------------------------------------------------------------
(***************************************************************************)
(* The stream.                                                             *)
(***************************************************************************)
\* The fields of a request of the stream, and its marks in order.
LEMMA RequestMarks ==
    ASSUME input \in Seq(Request), Row, NEW i \in DOMAIN input
    PROVE  /\ input[i] \in Request /\ input[i].at \in Nat
           /\ BodyStart(input[i]) \in Nat /\ EndOf(input[i]) \in Nat
           /\ EndOf(input[i]) = BodyStart(input[i]) + input[i].body
           /\ input[i].at < BodyStart(input[i]) /\ BodyStart(input[i]) <= EndOf(input[i])
           /\ input[i].chunked => BodyStart(input[i]) < EndOf(input[i])
<1>1. input[i] \in Request
  OBVIOUS
<1> DEFINE q == input[i]
<1>2. q.at \in Nat /\ q.hdr \in Nat /\ q.body \in Nat
  BY <1>1, RequestFields
<1>3. q.hdr > 0
  BY DEF Row
<1>4. q.chunked => q.body > 0
  BY DEF Row
<1> HIDE DEF q
<1>5. /\ BodyStart(q) \in Nat /\ EndOf(q) \in Nat /\ EndOf(q) = BodyStart(q) + q.body
      /\ q.at < BodyStart(q) /\ BodyStart(q) <= EndOf(q)
      /\ q.body > 0 => BodyStart(q) < EndOf(q)
  <2>1. BodyStart(q) = q.at + q.hdr /\ EndOf(q) = q.at + q.hdr + q.body
    BY DEF BodyStart, EndOf
  <2> DEFINE at == q.at
             hdr == q.hdr
             body == q.body
  <2> HIDE DEF at, hdr, body
  <2>2. at \in Nat /\ hdr \in Nat /\ body \in Nat /\ hdr > 0
    BY <1>2, <1>3 DEF at, hdr, body
  <2>3. /\ at + hdr \in Nat /\ at + hdr + body \in Nat /\ at < at + hdr
        /\ at + hdr <= at + hdr + body /\ (body > 0 => at + hdr < at + hdr + body)
    BY <2>2
  <2> QED
    BY <2>1, <2>3 DEF at, hdr, body
<1>6. q.chunked => BodyStart(q) < EndOf(q)
  BY <1>4, <1>5
<1> QED
  BY <1>1, <1>2, <1>5, <1>6 DEF q

\* Requests do not overlap, so that a position begins at most one of them.
LEMMA OnePerPlace ==
    ASSUME input \in Seq(Request), Row, NEW i \in DOMAIN input, NEW j \in DOMAIN input
    PROVE  /\ i < j => EndOf(input[i]) <= input[j].at
           /\ input[i].at = input[j].at => i = j
<1>1. ASSUME NEW k \in DOMAIN input, NEW l \in DOMAIN input, k < l
      PROVE  EndOf(input[k]) <= input[l].at /\ input[k].at < input[l].at
  BY <1>1, RequestMarks DEF Row
<1>2. i \in Nat /\ j \in Nat /\ input[i].at \in Nat /\ input[j].at \in Nat
  BY RequestMarks
<1> QED
  BY <1>1, <1>2

\* The stream ends with its last request.
LEMMA WithinStream ==
    ASSUME input \in Seq(Request), Row, NEW i \in DOMAIN input
    PROVE  EndOf(input[i]) <= StreamEnd
<1>1. Len(input) \in DOMAIN input /\ i <= Len(input) /\ input # <<>>
  OBVIOUS
<1>2. StreamEnd = EndOf(input[Len(input)])
  BY <1>1 DEF StreamEnd
<1>3. CASE i = Len(input)
  BY <1>2, <1>3, RequestMarks
<1>4. CASE i < Len(input)
  BY <1>1, <1>2, <1>4, OnePerPlace, RequestMarks
<1> QED
  BY <1>1, <1>3, <1>4

\* parseHeaders at the place of a request reads that request.
LEMMA ReadsWhatIsThere ==
    ASSUME input \in Seq(Request), Row, NEW i \in DOMAIN input
    PROVE  RequestAt(input, input[i].at) = input[i]
<1> DEFINE j == CHOOSE k \in DOMAIN input : input[k].at = input[i].at
<1>1. j \in DOMAIN input /\ input[j].at = input[i].at
  OBVIOUS
<1>2. RequestAt(input, input[i].at) = input[j]
  BY DEF RequestAt
<1> HIDE DEF j
<1>3. i = j
  BY <1>1, OnePerPlace
<1> QED
  BY <1>2, <1>3

\* What parses is one of the peer's requests, wherever the parser stands.
LEMMA WhatParsesWasSent ==
    ASSUME input \in Seq(Request), Row, NEW pos \in Nat, RequestAt(input, pos).error = 0
    PROVE  \E i \in DOMAIN input : input[i].at = pos /\ RequestAt(input, pos) = input[i]
<1>1. CASE \E i \in DOMAIN input : input[i].at = pos
  BY <1>1, ReadsWhatIsThere
<1>2. CASE ~\E i \in DOMAIN input : input[i].at = pos
  <2>1. RequestAt(input, pos) = [Fresh EXCEPT !.at = pos, !.error = 400]
    BY <1>2 DEF RequestAt, Stray
  <2>2. [Fresh EXCEPT !.at = pos, !.error = 400].error = 400
    BY DEF Fresh
  <2> QED
    BY <2>1, <2>2
<1> QED
  BY <1>1, <1>2

\* The first blank line behind the beginning of a request ends its header.
LEMMA HeaderEnds ==
    ASSUME input \in Seq(Request), Row, NEW i \in DOMAIN input
    PROVE  First(BlankLines(input), input[i].at) = BodyStart(input[i])
<1> DEFINE T == {e \in BlankLines(input) : input[i].at < e}
           b == BodyStart(input[i])
<1>1. b \in T /\ b \in Nat
  BY RequestMarks DEF BlankLines
<1>2. T \subseteq Nat
  BY MarksAreNaturals
<1>3. ASSUME NEW e \in T PROVE b <= e
  <2>1. PICK j \in DOMAIN input : e \in {BodyStart(input[j]), EndOf(input[j])}
    BY <1>3 DEF BlankLines
  <2>2. CASE j < i
    BY <1>3, <2>1, <2>2, OnePerPlace, RequestMarks
  <2>3. CASE j = i
    BY <2>1, <2>3, RequestMarks
  <2>4. CASE i < j
    BY <2>1, <2>4, OnePerPlace, RequestMarks
  <2> QED
    BY <2>2, <2>3, <2>4
<1>4. Min(T) \in T /\ \A y \in T : Min(T) <= y
  BY <1>1, <1>2, MinIsLeast
<1> HIDE DEF T, b
<1>5. Min(T) <= b /\ b <= Min(T) /\ Min(T) \in Nat
  BY <1>1, <1>2, <1>3, <1>4
<1>6. Min(T) = b
  BY <1>1, <1>5
<1> QED
  BY <1>6 DEF First, T, b

\* Behind the header of a chunked request, the first "0 CRLF" is not before
\* its terminator.
LEMMA ZerosBehind ==
    ASSUME input \in Seq(Request), Row, NEW i \in DOMAIN input, NEW e \in Zeros(input),
           BodyStart(input[i]) < e
    PROVE  EndOf(input[i]) <= e /\ e \in Nat
<1>1. PICK j \in DOMAIN input :
           e = BodyStart(input[j]) \/ (input[j].chunked /\ e = EndOf(input[j]))
  BY DEF Zeros
<1>2. CASE j < i
  BY <1>1, <1>2, OnePerPlace, RequestMarks
<1>3. CASE j = i
  BY <1>1, <1>3, RequestMarks
<1>4. CASE i < j
  BY <1>1, <1>4, OnePerPlace, RequestMarks
<1> QED
  BY <1>2, <1>3, <1>4

\* tryParseChunkedBody finds an end of the body that is not before the real
\* one, and is the real one unless it has left the search window.
LEMMA ChunkedEndFound ==
    ASSUME input \in Seq(Request), Row, NEW c, WellFormed(c),
           NEW i \in DOMAIN input, input[i].chunked, c.base + c.headerEnd = BodyStart(input[i]),
           Found(Zeros(input), SearchStart(c), c.got)
    PROVE  /\ ChunkedEnd(input, c) \in Nat /\ EndOf(input[i]) <= ChunkedEnd(input, c)
           /\ EndOf(input[i]) <= c.got
           /\ c.got < EndOf(input[i]) + SEARCH_WINDOW => ChunkedEnd(input, c) = EndOf(input[i])
<1> DEFINE q == input[i]
           zero == First(Zeros(input), SearchStart(c))
           ends == {e \in BlankLines(input) : zero <= e}
           end == ChunkedEnd(input, c)
<1>1. BodyStart(q) \in Nat /\ EndOf(q) \in Nat /\ BodyStart(q) < EndOf(q)
  BY RequestMarks
<1>2. SEARCH_WINDOW \in Nat \ {0} /\ c.got \in Nat
  BY SizesAssumption, ClientFields DEF WellFormed
<1>3. SearchStart(c) = IF c.got - BodyStart(q) > SEARCH_WINDOW
                       THEN c.got - SEARCH_WINDOW ELSE BodyStart(q)
  BY DEF SearchStart
<1>4. SearchStart(c) \in Nat /\ SearchStart(c) >= BodyStart(q)
  BY <1>1, <1>2, <1>3
<1>5. Zeros(input) \subseteq Nat /\ Zeros(input) \subseteq BlankLines(input)
      /\ BlankLines(input) \subseteq Nat
  BY MarksAreNaturals
<1>6. zero \in Zeros(input) /\ zero > SearchStart(c)
  BY <1>2, <1>4, <1>5, FirstIsFound
<1>7. zero \in Nat /\ EndOf(q) <= zero
  <2>1. BodyStart(q) < zero
    BY <1>1, <1>4, <1>5, <1>6
  <2> QED
    BY <1>6, <2>1, ZerosBehind
<1>8. ends \subseteq Nat /\ zero \in ends
  BY <1>5, <1>6, <1>7
<1>9. end \in ends /\ \A e \in ends : end <= e
  BY <1>8, MinIsLeast DEF ChunkedEnd
<1>10. EndOf(q) <= c.got
  <2>1. PICK e \in Zeros(input) : SearchStart(c) < e /\ e <= c.got
    BY DEF Found
  <2>2. BodyStart(q) < e /\ e \in Nat
    BY <1>1, <1>4, <1>5, <2>1
  <2>3. EndOf(q) <= e
    BY <2>2, ZerosBehind
  <2> QED
    BY <1>1, <1>2, <2>1, <2>2, <2>3
<1>11. end \in Nat /\ EndOf(q) <= end
  BY <1>1, <1>7, <1>8, <1>9
<1>12. ASSUME c.got < EndOf(q) + SEARCH_WINDOW
       PROVE  end = EndOf(q)
  <2> DEFINE T == {e \in Zeros(input) : SearchStart(c) < e}
  <2>1. SearchStart(c) < EndOf(q)
    BY <1>1, <1>2, <1>3, <1>12
  <2>2. EndOf(q) \in Zeros(input)
    BY DEF Zeros
  <2>3. T \subseteq Nat /\ EndOf(q) \in T
    BY <1>5, <2>1, <2>2
  <2>4. zero <= EndOf(q)
    BY <2>3, MinIsLeast DEF First
  <2>5. EndOf(q) \in ends
    BY <1>5, <2>2, <2>4
  <2> HIDE DEF zero, ends, q, end
  <2>6. end <= EndOf(q)
    BY <1>9, <2>5
  <2> QED
    BY <1>1, <1>11, <2>6
<1> QED
  BY <1>10, <1>11, <1>12

-----------------------------------------------------------------------------
(***************************************************************************)
(* handleClientData: the stages the parsers lead to.                       *)
(***************************************************************************)
\* Where tryParseBody is called.
BeforeBody(c) ==
    /\ Unanswered(c) /\ c.state = "READING_REQUEST"
    /\ c.headerState \in {"HEADER_COMPLETE", "BODY_RECEIVING"}
    /\ HeaderRead(c) /\ c.conf /\ c.lastBodyLength = 0

\* The request of an object whose header was read, and where its parts lie.
LEMMA RequestOfHeader ==
    ASSUME input \in Seq(Request), Row, NEW c, WellFormed(c), HeaderRead(c)
    PROVE  /\ c.request \in Request /\ c.request.at \in Nat /\ c.request.body \in Nat
           /\ BodyStart(c.request) \in Nat /\ EndOf(c.request) \in Nat
           /\ EndOf(c.request) = BodyStart(c.request) + c.request.body
           /\ c.request.at < BodyStart(c.request)
           /\ c.request.chunked => c.request.body > 0
           /\ EndOf(c.request) \in Boundaries
<1>1. PICK i \in DOMAIN input : input[i] = c.request
  BY DEF HeaderRead
<1>2. c.request.body \in Nat
  BY <1>1, RequestMarks, RequestFields
<1>3. EndOf(c.request) \in Boundaries
  BY <1>1 DEF Boundaries
<1>4. c.request.chunked => c.request.body > 0
  BY <1>1 DEF Row
<1>5. c.request.at < BodyStart(c.request)
  BY <1>1, RequestMarks
<1> QED
  BY <1>1, <1>2, <1>3, <1>4, <1>5, RequestMarks

\* A body that goes on: the object waits for more of it.
LEMMA BodyGoesOn ==
    ASSUME NEW c, WellFormed(c), BeforeBody(c)
    PROVE  BodyStage(BodyReceiving(c))
<1> DEFINE d == BodyReceiving(c)
<1>1. d.headerState = "BODY_RECEIVING" /\ Differs(c, d, {"headerState"})
  BY 0 \in Nat, BodyFields
<1> HIDE DEF d
<1>2. /\ d.request = c.request /\ d.base = c.base /\ d.readOffset = c.readOffset
      /\ d.got = c.got /\ d.headerEnd = c.headerEnd /\ d.conf = c.conf
      /\ d.response = c.response /\ d.responseBuffer = c.responseBuffer
      /\ d.responseSent = c.responseSent /\ d.state = c.state
      /\ d.lastBodyLength = c.lastBodyLength
  BY <1>1 DEF Differs, Fields
<1>3. HeaderRead(d) /\ Unanswered(d)
  BY <1>2 DEF BeforeBody, HeaderRead, Unanswered, ReadPosition
<1> QED
  BY <1>1, <1>2, <1>3 DEF BeforeBody, BodyStage, d

\* A body that is complete: its request goes to processRequest.
LEMMA BodyIsComplete ==
    ASSUME NEW c, WellFormed(c), BeforeBody(c), NEW l, NEW length \in Nat,
           length >= c.request.body, BodyStart(c.request) + length <= c.got,
           "outOfWindow" \notin l => length = c.request.body
    PROVE  CompleteStage(RequestComplete(c, length), l)
<1> DEFINE d == RequestComplete(c, length)
<1>1. /\ d.headerState = "REQUEST_COMPLETE" /\ d.state = "PROCESSING_REQUEST"
      /\ d.lastBodyLength = length
      /\ Differs(c, d, {"headerState", "state", "lastBodyLength"})
  BY 0 \in Nat, BodyFields
<1> HIDE DEF d
<1>2. /\ d.request = c.request /\ d.base = c.base /\ d.readOffset = c.readOffset
      /\ d.got = c.got /\ d.headerEnd = c.headerEnd /\ d.conf = c.conf
      /\ d.response = c.response /\ d.responseBuffer = c.responseBuffer
      /\ d.responseSent = c.responseSent
  BY <1>1 DEF Differs, Fields
<1>3. BodyTaken(d, l)
  BY <1>1, <1>2 DEF BodyTaken
<1>4. HeaderRead(d) /\ Unanswered(d)
  BY <1>2 DEF BeforeBody, HeaderRead, Unanswered, ReadPosition
<1> QED
  BY <1>1, <1>2, <1>3, <1>4 DEF BeforeBody, CompleteStage, d

\* A body that is refused: a response that is not begun waits.
LEMMA BodyIsRefused ==
    ASSUME NEW c, WellFormed(c), BeforeBody(c), NEW l, NEW length \in Nat,
           NEW status \in {400, 413},
           length >= c.request.body, "outOfWindow" \notin l => length = c.request.body,
           BodyStart(c.request) + length <= c.got \/ (status = 413 /\ length = c.request.body)
    PROVE  AnsweredStage(Refuses(c, status, length), l)
<1> DEFINE a == Answer(c, status)
           d == Refuses(c, status, length)
<1>1. status \in Nat
  OBVIOUS
<1>2. /\ a.state = "WRITING_RESPONSE" /\ a.response.status = status
      /\ a.response.to = ReadPosition(c)
      /\ Differs(c, a, {"state", "response"})
  <2>1. /\ a.state = "WRITING_RESPONSE" /\ Differs(c, a, {"state", "response"})
        /\ a.response = [status |-> status, to |-> ReadPosition(c), own |-> "none", keep |-> FALSE, asked |-> FALSE]
    BY <1>1, AnswerFields
  <2> QED
    BY <2>1
<1>3. d.lastBodyLength = length /\ Differs(a, d, {"lastBodyLength"})
  <2> HIDE DEF a, d
  <2>1. /\ Refuses(c, status, length).lastBodyLength = length
        /\ Differs(Answer(c, status), Refuses(c, status, length), {"lastBodyLength"})
    BY <1>1, BodyFields
  <2> QED
    BY <2>1 DEF a, d
<1> HIDE DEF a, d
<1>4. /\ d.request = c.request /\ d.base = c.base /\ d.readOffset = c.readOffset
      /\ d.got = c.got /\ d.headerEnd = c.headerEnd /\ d.conf = c.conf
      /\ d.headerState = c.headerState /\ d.responseBuffer = c.responseBuffer
      /\ d.responseSent = c.responseSent
  BY <1>2, <1>3 DEF Differs, Fields
<1>5. d.state = a.state /\ d.response = a.response
  BY <1>3 DEF Differs, Fields
<1>6. Writing(d, l)
  <2>1. d.responseSent = 0 /\ d.responseBuffer.status = 0
    BY <1>4 DEF BeforeBody, Unanswered, NewResponse, NoResponse
  <2>2. d.response.to = ReadPosition(d)
    BY <1>2, <1>4, <1>5 DEF ReadPosition
  <2> QED
    BY <1>2, <1>5, <2>1, <2>2, SizesAssumption DEF Writing
<1>7. BodyTaken(d, l)
  <2>1. d.headerState # "REQUEST_COMPLETE"
    BY <1>4 DEF BeforeBody
  <2> QED
    BY <1>2, <1>3, <1>4, <1>5, <2>1 DEF BodyTaken
<1>8. HeaderRead(d)
  BY <1>4 DEF BeforeBody, HeaderRead, ReadPosition
<1> QED
  BY <1>4, <1>6, <1>7, <1>8 DEF BeforeBody, AnsweredStage, a, d

\* tryParseBody, given that an end found outside the search window is a lapse.
LEMMA TryParseBodyStages ==
    ASSUME input \in Seq(Request), Row, NEW c, WellFormed(c), BeforeBody(c), NEW l,
           /\ c.request.chunked /\ TryParseBody(input, c).lastBodyLength > 0
           /\ c.got >= EndOf(c.request) + SEARCH_WINDOW
           => "outOfWindow" \in l
    PROVE  LET d == TryParseBody(input, c)
           IN  BodyStage(d) \/ AnsweredStage(d, l) \/ CompleteStage(d, l)
<1> DEFINE d == TryParseBody(input, c)
           q == c.request
<1>1. /\ q.body \in Nat /\ BodyStart(q) \in Nat /\ EndOf(q) = BodyStart(q) + q.body
      /\ q.chunked => q.body > 0
  BY RequestOfHeader DEF BeforeBody
<1>2. c.base + c.headerEnd = BodyStart(q) /\ BodyStart(q) <= c.got
  BY DEF BeforeBody, HeaderRead
<1>3. c.got \in Nat /\ c.base \in Nat /\ c.headerEnd \in Nat
  BY ClientFields DEF WellFormed
<1>4. CASE q.body = 0 /\ ~q.chunked
  <2>1. d = RequestComplete(c, 0)
    BY <1>4 DEF TryParseBody
  <2>2. CompleteStage(RequestComplete(c, 0), l)
    <3>1. 0 >= q.body /\ 0 \in Nat /\ BodyStart(q) + 0 <= c.got
      BY <1>1, <1>2, <1>4
    <3> QED
      BY <1>4, <3>1, BodyIsComplete
  <2> QED
    BY <2>1, <2>2
<1>5. CASE ~(q.body = 0 /\ ~q.chunked) /\ RawLength(c) = c.headerEnd
  <2>1. d = BodyReceiving(c)
    BY <1>5 DEF TryParseBody
  <2> QED
    BY <2>1, BodyGoesOn
<1>6. CASE ~(q.body = 0 /\ ~q.chunked) /\ RawLength(c) # c.headerEnd /\ ~q.chunked
  <2>1. d = TryParseContentLengthBody(c)
    BY <1>6 DEF TryParseBody
  <2>2. CASE q.body > MAX_BODY_SIZE
    <3>1. d = Refuses(c, 413, q.body)
      BY <2>1, <2>2 DEF TryParseContentLengthBody, Refuses
    <3>2. q.body >= q.body /\ 413 \in {400, 413}
      BY <1>1
    <3>3. AnsweredStage(Refuses(c, 413, q.body), l)
      BY <1>1, <3>2, BodyIsRefused
    <3> QED
      BY <3>1, <3>3
  <2>3. CASE ~(q.body > MAX_BODY_SIZE) /\ BodyArrived(c)
    <3>1. d = RequestComplete(c, q.body)
      BY <2>1, <2>3 DEF TryParseContentLengthBody
    <3>2. BodyStart(q) + q.body <= c.got /\ q.body >= q.body
      BY <1>1, <1>2, <1>3, <2>3 DEF BodyArrived, RawLength
    <3>3. CompleteStage(RequestComplete(c, q.body), l)
      BY <1>1, <3>2, BodyIsComplete
    <3> QED
      BY <3>1, <3>3
  <2>4. CASE ~(q.body > MAX_BODY_SIZE) /\ ~BodyArrived(c)
    <3>1. d = BodyReceiving(c)
      BY <2>1, <2>4 DEF TryParseContentLengthBody
    <3> QED
      BY <3>1, BodyGoesOn
  <2> QED
    BY <2>2, <2>3, <2>4
<1>7. CASE q.chunked /\ RawLength(c) # c.headerEnd
  <2> DEFINE end == ChunkedEnd(input, c)
             length == end - (c.base + c.headerEnd)
  <2>1. d = TryParseChunkedBody(input, c)
    BY <1>7 DEF TryParseBody
  <2>2. CASE ~Found(Zeros(input), SearchStart(c), c.got) \/ end > c.got
    <3>1. d = BodyReceiving(c)
      BY <2>1, <2>2 DEF TryParseChunkedBody
    <3> QED
      BY <3>1, BodyGoesOn
  <2>3. CASE Found(Zeros(input), SearchStart(c), c.got) /\ ~(end > c.got)
    <3>1. /\ end \in Nat /\ EndOf(q) <= end
          /\ c.got < EndOf(q) + SEARCH_WINDOW => end = EndOf(q)
      <4>1. PICK i \in DOMAIN input : input[i] = q
        BY DEF BeforeBody, HeaderRead
      <4> QED
        BY <1>2, <1>7, <2>3, <4>1, ChunkedEndFound
    <3>2. length \in Nat /\ length >= q.body /\ BodyStart(q) + length <= c.got
      <4>1. length = end - BodyStart(q)
        BY <1>2
      <4> DEFINE from == BodyStart(q)
                 body == q.body
      <4> HIDE DEF from, body, end
      <4>2. from \in Nat /\ body \in Nat /\ from + body <= end /\ end <= c.got /\ end \in Nat
        BY <1>1, <1>3, <2>3, <3>1 DEF from, body
      <4>3. end - from \in Nat /\ end - from >= body /\ from + (end - from) <= c.got
        BY <1>3, <4>2
      <4> QED
        BY <4>1, <4>3 DEF from, body
    <3>3. length > 0
      BY <1>1, <1>7, <3>2
    <3>4. c.got < EndOf(q) + SEARCH_WINDOW => length = q.body
      BY <1>1, <1>2, <3>1
    <3>5. d \in {RequestComplete(c, length),
                 Refuses(c, 400, length), Refuses(c, 413, length)}
      BY <2>1, <2>3 DEF TryParseChunkedBody, Refuses
    <3> HIDE DEF length
    <3>6. d.lastBodyLength = length
      <4>1. 400 \in Nat /\ 413 \in Nat
        OBVIOUS
      <4> QED
        BY <3>2, <3>5, <4>1, BodyFields
    <3>7. "outOfWindow" \notin l => length = q.body
      <4>1. SEARCH_WINDOW \in Nat /\ EndOf(q) \in Nat
        BY <1>1, SizesAssumption
      <4> QED
        BY <1>3, <1>7, <3>3, <3>4, <3>6, <4>1
    <3>8. CompleteStage(RequestComplete(c, length), l)
      BY <3>2, <3>7, BodyIsComplete
    <3>9. ASSUME NEW status \in {400, 413}
          PROVE  AnsweredStage(Refuses(c, status, length), l)
      BY <3>2, <3>7, BodyIsRefused
    <3> QED
      BY <3>5, <3>8, <3>9
  <2> QED
    BY <2>2, <2>3
<1> QED
  BY <1>4, <1>5, <1>6, <1>7

\* What the body parsers may make of an object.
Outcomes(c, length) ==
    {RequestComplete(c, length), BodyReceiving(c), Refuses(c, 400, length), Refuses(c, 413, length)}

\* tryParseBody goes on receiving, completes the request or refuses it.
LEMMA TryParseBodyOutcomes ==
    ASSUME NEW c
    PROVE  \E length : TryParseBody(input, c) \in Outcomes(c, length)
<1> DEFINE n == ChunkedEnd(input, c) - (c.base + c.headerEnd)
<1>1. TryParseContentLengthBody(c) \in Outcomes(c, c.request.body)
  BY DEF TryParseContentLengthBody, Outcomes, Refuses
<1>2. TryParseChunkedBody(input, c) \in Outcomes(c, n)
  BY DEF TryParseChunkedBody, Outcomes, Refuses
<1> HIDE DEF n
<1>3. TryParseBody(input, c) \in Outcomes(c, 0) \cup Outcomes(c, c.request.body) \cup Outcomes(c, n)
  BY <1>1, <1>2 DEF TryParseBody, Outcomes
<1> QED
  BY <1>3

\* Whatever it finds, tryParseBody leaves the buffer, the request and what has
\* been sent alone, answers with no other status than 400 and 413, and goes on
\* receiving only where it does not answer.
LEMMA TryParseBodyFields ==
    ASSUME NEW c, WellFormed(c)
    PROVE  LET d == TryParseBody(input, c)
           IN  /\ Differs(c, d, {"state", "headerState", "response", "lastBodyLength"})
               /\ d.response = c.response \/ d.response.status \in {400, 413}
               /\ \/ d.headerState \in {c.headerState, "REQUEST_COMPLETE"}
                  \/ d.headerState = "BODY_RECEIVING" /\ d.state = c.state
<1> DEFINE d == TryParseBody(input, c)
<1>1. PICK length : d \in Outcomes(c, length)
  BY TryParseBodyOutcomes
<1>2. ASSUME NEW e \in Outcomes(c, length)
      PROVE  /\ Differs(c, e, {"state", "headerState", "response", "lastBodyLength"})
             /\ e.response = c.response \/ e.response.status \in {400, 413}
             /\ \/ e.headerState \in {c.headerState, "REQUEST_COMPLETE"}
                \/ e.headerState = "BODY_RECEIVING" /\ e.state = c.state
  <2>1. CASE e = RequestComplete(c, length)
    <3>1. /\ Differs(c, e, {"headerState", "state", "lastBodyLength"})
          /\ e.headerState = "REQUEST_COMPLETE"
      BY <2>1, 0 \in Nat, BodyFields
    <3> QED
      BY <3>1 DEF Differs, Fields
  <2>2. CASE e = BodyReceiving(c)
    <3>1. Differs(c, e, {"headerState"}) /\ e.headerState = "BODY_RECEIVING"
      BY <2>2, 0 \in Nat, BodyFields
    <3> QED
      BY <3>1 DEF Differs, Fields
  <2>3. ASSUME NEW status \in {400, 413}, e = Refuses(c, status, length)
        PROVE  /\ Differs(c, e, {"state", "headerState", "response", "lastBodyLength"})
               /\ e.response.status \in {400, 413} /\ e.headerState = c.headerState
    <3> DEFINE a == Answer(c, status)
    <3>1. status \in Nat
      OBVIOUS
    <3>2. a.response = [status |-> status, to |-> ReadPosition(c), own |-> "none", keep |-> FALSE, asked |-> FALSE]
      BY <3>1, AnswerFields
    <3>3. Differs(c, a, {"state", "response"})
      BY <3>1, AnswerFields
    <3> HIDE DEF a
    <3>4. Differs(a, e, {"lastBodyLength"})
      BY <2>3, <3>1, BodyFields DEF a
    <3>5. a.response.status = status
      BY <3>2
    <3> QED
      BY <3>3, <3>4, <3>5 DEF Differs, Fields
  <2> QED
    BY <1>2, <2>1, <2>2, <2>3 DEF Outcomes
<1> HIDE DEF d
<1> QED
  BY <1>1, <1>2 DEF d

\* What the parsers carry over from the object they were called on.
Carried(c, d, l) ==
    /\ d.base = c.base /\ d.got = c.got /\ d.readOffset = c.readOffset
    /\ d.responseBuffer = c.responseBuffer
    /\ d.responseSent = c.responseSent \/ (d.responseSent = 0 /\ "replaced" \in l)
    /\ c.headerState = "REQUEST_COMPLETE" =>
         d.headerState = "REQUEST_COMPLETE" /\ d.request = c.request

\* It is enough for the invariant.
LEMMA CarriedInv ==
    ASSUME NEW c, NEW d, NEW k, NEW l, NEW h, NEW w, k \subseteq l,
           ClientInv(c, k, h, w), Carried(c, d, l), RefusalInv(d, l)
    PROVE  ClientInv(d, l, h, w)
<1>1. ReadPosition(d) = ReadPosition(c)
  BY DEF Carried, ReadPosition
<1>2. PlaceInv(d, l)
  BY <1>1 DEF ClientInv, PlaceInv, Carried
<1>3. OrderInv(d, h)
  BY <1>1 DEF ClientInv, OrderInv, Carried
<1>4. SentInv(d, l, w)
  BY <1>1 DEF ClientInv, SentInv, Carried
<1>5. ClosingInv(d, w)
  BY DEF ClientInv, ClosingInv, Carried
<1> QED
  BY <1>2, <1>3, <1>4, <1>5 DEF ClientInv

\* Where the header has just been read and Step 2 has not run.
HeaderStage(c) ==
    /\ Unanswered(c) /\ c.state = "READING_REQUEST" /\ c.headerState = "HEADER_COMPLETE"
    /\ HeaderRead(c) /\ ~c.conf /\ c.lastBodyLength = 0

\* tryParseHeaders: the header is incomplete, refused or one of the peer's.
LEMMA TryParseHeadersStages ==
    ASSUME input \in Seq(Request), Row, NEW c, WellFormed(c), ReadingStage(c), NEW l,
           "early413" \notin l => ReadPosition(c) <= c.got
    PROVE  LET d == TryParseHeaders(input, c)
           IN  /\ d = c \/ HeaderStage(d) \/ (RefusedStage(d, l) /\ ~d.conf /\ RefusalInv(d, l))
               /\ Differs(c, d, {"state", "headerState", "request", "response", "headerEnd"})
<1> DEFINE d == TryParseHeaders(input, c)
           pos == ReadPosition(c)
           q == RequestAt(input, pos)
           changed == {"state", "headerState", "request", "response", "headerEnd"}
           marks == BlankLines(input)
<1>1. pos \in Nat /\ pos >= c.base /\ c.got \in Nat /\ c.base \in Nat /\ c.readOffset \in Nat
      /\ c.base <= c.got
  BY ClientFields DEF WellFormed, ReadPosition
<1>2. q \in Request /\ q.error \in Nat
  BY <1>1, ParsedRequestType, RequestFields
<1>3. ASSUME NEW status \in Nat \ {0}, NEW request \in Request,
             NEW e, WellFormed(e), Differs(Answer(c, status), e, {"request", "headerState"}),
             e.request = request, e.headerState = "HEADER_COMPLETE",
             Fatal(status) \/ ~request.keep,
             status = 431 /\ "early413" \notin l => c.got > pos + MAX_HEADER_SIZE
      PROVE  RefusedStage(e, l) /\ ~e.conf /\ RefusalInv(e, l) /\ Differs(c, e, changed)
  <2> DEFINE a == Answer(c, status)
             r == [status |-> status, to |-> ReadPosition(c), own |-> "none", keep |-> FALSE, asked |-> FALSE]
  <2>1. a.state = "WRITING_RESPONSE" /\ a.response = r /\ Differs(c, a, {"state", "response"})
    BY AnswerFields
  <2>2. r.status = status /\ r.to = pos
    OBVIOUS
  <2> HIDE DEF a, r, pos, changed
  <2>3. /\ e.state = "WRITING_RESPONSE" /\ e.response = r
        /\ e.base = c.base /\ e.readOffset = c.readOffset /\ e.got = c.got
        /\ e.responseBuffer = c.responseBuffer /\ e.responseSent = c.responseSent
        /\ e.conf = c.conf
    BY <1>3, <2>1 DEF Differs, Fields, a
  <2>4. Differs(c, e, changed)
    BY <1>3, <2>1 DEF Differs, Fields, a, changed
  <2>5. ReadPosition(e) = pos
    BY <2>3 DEF ReadPosition, pos
  <2>6. e.responseSent = 0 /\ e.responseBuffer.status = 0 /\ ~e.conf
    BY <2>3 DEF ReadingStage, Unanswered, NewResponse, NoResponse
  <2>7. Writing(e, l)
    BY <2>2, <2>3, <2>5, <2>6, SizesAssumption DEF Writing
  <2>8. Disconnects(e)
    BY <1>3, <2>2, <2>3 DEF Disconnects
  <2>9. RefusalInv(e, l)
    BY <1>3, <2>2, <2>3, <2>5 DEF RefusalInv
  <2> QED
    BY <1>3, <2>4, <2>6, <2>7, <2>8, <2>9 DEF RefusedStage
<1>4. Differs(c, c, changed)
  BY DEF Differs
<1>5. CASE ~Found(marks, pos, c.got)
  <2>1. CASE BufferLength(c) > MAX_HEADER_SIZE
    <3> DEFINE a == Answer(c, 431)
               e == [a EXCEPT !.headerState = "HEADER_COMPLETE"]
    <3>1. 431 \in Nat \ {0}
      OBVIOUS
    <3>2. WellFormed(a) /\ Differs(c, a, {"state", "response"})
      <4>1. WellFormed(a)
        BY <3>1, AnswerKeeps DEF Keeps
      <4> HIDE DEF a
      <4>2. \A status \in Nat : Differs(c, Answer(c, status), {"state", "response"})
        BY AnswerFields
      <4>3. Differs(c, Answer(c, 431), {"state", "response"})
        BY <4>2
      <4> QED
        BY <4>1, <4>3 DEF a
    <3>3. d = e
      BY <1>5, <2>1 DEF TryParseHeaders
    <3> HIDE DEF a
    <3>4. /\ e.headerState = "HEADER_COMPLETE" /\ Differs(a, e, {"headerState"})
          /\ e.got = a.got /\ e.base = a.base /\ e \in ClientType
      BY <3>2 DEF WellFormed, ClientType, Differs, Fields, HeaderStates
    <3> HIDE DEF e
    <3>5. WellFormed(e)
      BY <3>2, <3>4 DEF WellFormed
    <3>6. e.request = Fresh /\ ~Fresh.keep /\ Fresh \in Request
      <4>1. e.request = c.request
        BY <3>2, <3>4 DEF Differs, Fields
      <4>2. c.request = Fresh /\ c.request \in Request
        BY ClientFields DEF ReadingStage, WellFormed
      <4> QED
        BY <4>1, <4>2 DEF Fresh
    <3>7. "early413" \notin l => c.got > pos + MAX_HEADER_SIZE
      <4> SUFFICES ASSUME "early413" \notin l PROVE c.got > pos + MAX_HEADER_SIZE
        OBVIOUS
      <4>1. c.base + c.readOffset <= c.got
        BY DEF ReadPosition
      <4>2. BufferLength(c) = c.got - c.base - c.readOffset
        BY <1>1, <4>1 DEF BufferLength, RawLength
      <4>3. MAX_HEADER_SIZE \in Nat
        BY SizesAssumption
      <4> QED
        BY <1>1, <2>1, <4>2, <4>3 DEF ReadPosition
    <3>8. Differs(Answer(c, 431), e, {"request", "headerState"})
      BY <3>4 DEF Differs, a
    <3> QED
      BY <1>3, <3>1, <3>3, <3>4, <3>5, <3>6, <3>7, <3>8
  <2>2. CASE ~(BufferLength(c) > MAX_HEADER_SIZE)
    <3>1. d = c
      BY <1>5, <2>2 DEF TryParseHeaders
    <3> QED
      BY <1>4, <3>1
  <2> QED
    BY <2>1, <2>2
<1>6. CASE Found(marks, pos, c.got) /\ q.error # 0
  <2> DEFINE a == Answer(c, q.error)
             e == [a EXCEPT !.request = q, !.headerState = "HEADER_COMPLETE"]
  <2>1. q.error \in Nat \ {0} /\ q.error \in {400, 505}
    BY <1>2, <1>6 DEF Request, Verdicts
  <2>2. WellFormed(a)
    BY <2>1, AnswerKeeps DEF Keeps
  <2>3. d = e
    BY <1>6 DEF TryParseHeaders
  <2> HIDE DEF a, q, pos
  <2>4. /\ e.headerState = "HEADER_COMPLETE" /\ e.request = q
        /\ Differs(a, e, {"request", "headerState"})
        /\ e.got = a.got /\ e.base = a.base /\ e \in ClientType
    BY <1>2, <2>2 DEF WellFormed, ClientType, Differs, Fields, HeaderStates
  <2> HIDE DEF e, d, changed
  <2>5. WellFormed(e)
    BY <2>2, <2>4 DEF WellFormed
  <2>6. Fatal(q.error) /\ q.error # 431
    BY <2>1 DEF Fatal
  <2>7. RefusedStage(e, l) /\ ~e.conf /\ RefusalInv(e, l) /\ Differs(c, e, changed)
    BY <1>2, <1>3, <2>1, <2>4, <2>5, <2>6 DEF a
  <2> QED
    BY <2>3, <2>7 DEF d, changed
<1>7. CASE Found(marks, pos, c.got) /\ q.error = 0
  <2> DEFINE end == First(marks, pos)
             e == [c EXCEPT !.request = q, !.headerState = "HEADER_COMPLETE",
                            !.headerEnd = end - c.base]
  <2>1. PICK i \in DOMAIN input : input[i].at = pos /\ q = input[i]
    BY <1>1, <1>7, WhatParsesWasSent
  <2>2. end = BodyStart(q)
    BY <2>1, HeaderEnds
  <2>3. BodyStart(q) \in Nat /\ pos < BodyStart(q)
    BY <2>1, RequestMarks
  <2>4. end <= c.got
    <3> DEFINE T == {m \in marks : pos < m}
    <3>1. PICK m \in marks : pos < m /\ m <= c.got
      BY <1>7 DEF Found
    <3>2. T \subseteq Nat /\ m \in T
      BY <3>1, MarksAreNaturals
    <3>3. end <= m
      BY <3>2, MinIsLeast DEF First
    <3> QED
      BY <1>1, <2>2, <2>3, <3>1, <3>2, <3>3
  <2>5. d = e
    BY <1>7 DEF TryParseHeaders
  <2> HIDE DEF end, q, pos, d
  <2>6. /\ e.headerState = "HEADER_COMPLETE" /\ e.request = q /\ e.headerEnd = end - c.base
        /\ Differs(c, e, {"request", "headerState", "headerEnd"})
    BY DEF WellFormed, ClientType, Differs, Fields
  <2> HIDE DEF e
  <2>7. /\ e.base = c.base /\ e.readOffset = c.readOffset /\ e.got = c.got
        /\ e.response = c.response /\ e.responseBuffer = c.responseBuffer
        /\ e.responseSent = c.responseSent /\ e.conf = c.conf /\ e.state = c.state
        /\ e.lastBodyLength = c.lastBodyLength
    BY <2>6 DEF Differs, Fields
  <2>8. ReadPosition(e) = pos
    BY <2>7 DEF ReadPosition, pos
  <2>9. e.base + e.headerEnd = BodyStart(q)
    BY <1>1, <2>2, <2>3, <2>6, <2>7
  <2>10. HeaderRead(e)
    BY <2>1, <2>2, <2>4, <2>6, <2>7, <2>8, <2>9 DEF HeaderRead
  <2>11. HeaderStage(e)
    BY <2>6, <2>7, <2>10 DEF ReadingStage, HeaderStage, Unanswered
  <2>12. Differs(c, e, changed)
    BY <2>6 DEF Differs
  <2> QED
    BY <2>5, <2>11, <2>12 DEF d
<1> QED
  BY <1>5, <1>6, <1>7

\* Step 2 where the method is not allowed: a 405, whatever was there before.
Forbids(c) == [SetResponse(c, 405) EXCEPT !.conf = TRUE]

\* The object is then refused; what was being sent has been replaced.
LEMMA NotAllowedRefuses ==
    ASSUME NEW c, WellFormed(c), NEW l, c.headerState = "HEADER_COMPLETE", ~c.conf,
           c.responseBuffer.status = 0 \/ "replaced" \in l
    PROVE  LET d == Forbids(c)
           IN  /\ RefusedStage(d, l) /\ RefusalInv(d, l)
               /\ d.response.status = 405 /\ d.responseSent = 0
               /\ Differs(c, d, {"state", "response", "responseSent", "conf"})
<1> DEFINE a == Answer(c, 405)
           b == SetResponse(c, 405)
           d == [b EXCEPT !.conf = TRUE]
           r == [status |-> 405, to |-> ReadPosition(c), own |-> "none", keep |-> FALSE, asked |-> FALSE]
<1>1. WellFormed(b)
  <2>1. 405 \in Nat
    OBVIOUS
  <2> QED
    BY <2>1, AnswerKeeps DEF Keeps
<1>2. /\ a.state = "WRITING_RESPONSE" /\ a.response = r /\ Differs(c, a, {"state", "response"})
      /\ b.responseSent = 0 /\ Differs(a, b, {"responseSent"})
  <2>1. ASSUME NEW status \in Nat
        PROVE  /\ Answer(c, status).state = "WRITING_RESPONSE"
               /\ Answer(c, status).response
                    = [status |-> status, to |-> ReadPosition(c), own |-> "none", keep |-> FALSE, asked |-> FALSE]
               /\ Differs(c, Answer(c, status), {"state", "response"})
               /\ SetResponse(c, status).responseSent = 0
               /\ Differs(Answer(c, status), SetResponse(c, status), {"responseSent"})
    BY AnswerFields
  <2> QED
    BY <2>1
<1>3. r.status = 405 /\ r.to = ReadPosition(c)
  OBVIOUS
<1> HIDE DEF a, b, r
<1>4. d.conf = TRUE /\ Differs(b, d, {"conf"})
  BY <1>1 DEF WellFormed, ClientType, Differs, Fields
<1> HIDE DEF d
<1>5. /\ d.base = c.base /\ d.readOffset = c.readOffset /\ d.headerState = c.headerState
      /\ d.responseBuffer = c.responseBuffer
      /\ d.state = "WRITING_RESPONSE" /\ d.response = r /\ d.responseSent = 0
  BY <1>2, <1>4 DEF Differs, Fields
<1>6. Differs(c, d, {"state", "response", "responseSent", "conf"})
  BY <1>2, <1>4 DEF Differs, Fields
<1>7. ReadPosition(d) = ReadPosition(c)
  BY <1>5 DEF ReadPosition
<1>8. Writing(d, l)
  BY <1>3, <1>5, <1>7, SizesAssumption DEF Writing
<1>9. RefusedStage(d, l)
  BY <1>3, <1>5, <1>8 DEF RefusedStage, Disconnects, Fatal
<1>10. RefusalInv(d, l)
  BY <1>3, <1>5 DEF RefusalInv
<1> QED
  BY <1>3, <1>5, <1>6, <1>9, <1>10 DEF d, b, Forbids

\* Step 2 where it is: the object is the same but for its configuration.
LEMMA AllowedKeeps ==
    ASSUME NEW c, WellFormed(c), ~NotAllowed(c)
    PROVE  /\ WellFormed(Step2(c)) /\ Step2(c).conf /\ Differs(c, Step2(c), {"conf"})
           /\ c.conf => Step2(c) = c
<1> DEFINE d == [c EXCEPT !.conf = TRUE]
<1>1. Step2(c) = d
  BY DEF Step2
<1>2. d.conf /\ Differs(c, d, {"conf"}) /\ d \in ClientType /\ d.base = c.base /\ d.got = c.got
  BY DEF WellFormed, ClientType, Differs, Fields
<1>3. ASSUME c.conf PROVE d = c
  <2>1. c.conf = TRUE
    BY <1>3, ClientFields DEF WellFormed
  <2> QED
    BY <2>1 DEF WellFormed, ClientType
<1> HIDE DEF d
<1> QED
  BY <1>1, <1>2, <1>3 DEF WellFormed

\* Steps 1 to 3 on an object that is between requests.
LEMMA ReadingParsed ==
    ASSUME input \in Seq(Request), Row, NEW c, WellFormed(c), ReadingStage(c), NEW l,
           "early413" \notin l => ReadPosition(c) <= c.got,
           LET d == Parsed(c)
           IN  d.request.chunked /\ d.lastBodyLength > 0
                 /\ d.got >= EndOf(d.request) + SEARCH_WINDOW
               => "outOfWindow" \in l
    PROVE  LET d == Parsed(c)
           IN  /\ Stages(d, l) \/ CompleteStage(d, l)
               /\ Carried(c, d, l) /\ RefusalInv(d, l)
<1> DEFINE d == Parsed(c)
           one == TryParseHeaders(input, c)
           two == Step2(one)
<1>1. c.headerState = "HEADER_INCOMPLETE" /\ Step1(c) = one
  BY DEF ReadingStage, Step1
<1>2. /\ one = c \/ HeaderStage(one) \/ (RefusedStage(one, l) /\ ~one.conf /\ RefusalInv(one, l))
      /\ Differs(c, one, {"state", "headerState", "request", "response", "headerEnd"})
  BY TryParseHeadersStages
<1>3. WellFormed(one)
  BY TryParseHeadersKeeps DEF Keeps
<1>4. Carried(c, one, l)
  BY <1>1, <1>2 DEF Carried, Differs, Fields
<1>5. CASE one = c
  <2>1. d = c
    BY <1>1, <1>5 DEF Parsed, ReturnsAfterStep1
  <2>2. RefusalInv(c, l)
    BY DEF ReadingStage, Unanswered, NewResponse, NoResponse, RefusalInv
  <2> QED
    BY <1>4, <1>5, <2>1, <2>2 DEF Stages
<1>6. CASE RefusedStage(one, l) /\ RefusalInv(one, l)
  <2>1. d = one
    BY <1>1, <1>6 DEF Parsed, ReturnsAfterStep1, RefusedStage, Writing
  <2> QED
    BY <1>4, <1>6, <2>1 DEF Stages
<1>7. CASE HeaderStage(one)
  <2>1. ~ReturnsAfterStep1(c, one)
    BY <1>7 DEF ReturnsAfterStep1, HeaderStage
  <2>2. d = IF NotAllowed(one) THEN two ELSE Step3(two)
    BY <1>1, <2>1 DEF Parsed
  <2>3. CASE NotAllowed(one)
    <3>1. d = Forbids(one)
      BY <2>2, <2>3 DEF Step2, Forbids
    <3>2. /\ one.headerState = "HEADER_COMPLETE" /\ ~one.conf /\ one.responseBuffer.status = 0
          /\ one.responseSent = 0
      BY <1>7 DEF HeaderStage, Unanswered, NewResponse, NoResponse
    <3> HIDE DEF one, d
    <3>3. /\ RefusedStage(d, l) /\ RefusalInv(d, l) /\ d.responseSent = 0
          /\ Differs(one, d, {"state", "response", "responseSent", "conf"})
      BY <1>3, <3>1, <3>2, NotAllowedRefuses
    <3>4. Carried(c, d, l)
      BY <1>1, <1>4, <3>2, <3>3 DEF Carried, Differs, Fields
    <3> QED
      BY <3>3, <3>4 DEF Stages, d
  <2>4. CASE ~NotAllowed(one)
    <3> HIDE DEF one
    <3>1. WellFormed(two) /\ two.conf /\ Differs(one, two, {"conf"})
      BY <1>3, <2>4, AllowedKeeps
    <3> HIDE DEF two
    <3>2. /\ two.base = one.base /\ two.got = one.got /\ two.readOffset = one.readOffset
          /\ two.request = one.request /\ two.headerEnd = one.headerEnd
          /\ two.response = one.response /\ two.responseBuffer = one.responseBuffer
          /\ two.responseSent = one.responseSent /\ two.state = one.state
          /\ two.headerState = one.headerState /\ two.lastBodyLength = one.lastBodyLength
      BY <3>1 DEF Differs, Fields
    <3>3. HeaderRead(two) /\ Unanswered(two)
      BY <1>7, <3>2 DEF HeaderStage, HeaderRead, Unanswered, ReadPosition
    <3>4. BeforeBody(two)
      BY <1>7, <3>1, <3>2, <3>3 DEF HeaderStage, BeforeBody
    <3>5. d = TryParseBody(input, two)
      BY <2>2, <2>4, <3>4 DEF Step3, BeforeBody
    <3> HIDE DEF d
    <3>6. /\ Differs(two, d, {"state", "headerState", "response", "lastBodyLength"})
          /\ d.response = two.response \/ d.response.status \in {400, 413}
      BY <3>1, <3>5, TryParseBodyFields
    <3>7. /\ d.request = two.request /\ d.got = two.got /\ d.base = two.base
          /\ d.readOffset = two.readOffset /\ d.responseBuffer = two.responseBuffer
          /\ d.responseSent = two.responseSent
      BY <3>6 DEF Differs, Fields
    <3>8. BodyStage(d) \/ AnsweredStage(d, l) \/ CompleteStage(d, l)
      <4>1. d.request.chunked /\ d.lastBodyLength > 0
              /\ d.got >= EndOf(d.request) + SEARCH_WINDOW
            => "outOfWindow" \in l
        BY DEF d
      <4> QED
        BY <3>1, <3>4, <3>5, <3>7, <4>1, TryParseBodyStages
    <3>9. Carried(c, d, l)
      BY <1>1, <1>4, <3>2, <3>7 DEF Carried
    <3>10. RefusalInv(d, l)
      BY <3>3, <3>6 DEF RefusalInv, Unanswered, NewResponse, NoResponse
    <3> QED
      BY <3>8, <3>9, <3>10 DEF Stages, d
  <2> QED
    BY <2>3, <2>4
<1> QED
  BY <1>2, <1>5, <1>6, <1>7

\* Steps 1 to 3 on an object that is inside a body: only Step 3 does anything.
LEMMA BodyParsed ==
    ASSUME input \in Seq(Request), Row, NEW c, WellFormed(c), BodyStage(c), NEW l,
           LET d == Parsed(c)
           IN  d.request.chunked /\ d.lastBodyLength > 0
                 /\ d.got >= EndOf(d.request) + SEARCH_WINDOW
               => "outOfWindow" \in l
    PROVE  LET d == Parsed(c)
           IN  /\ BodyStage(d) \/ AnsweredStage(d, l) \/ CompleteStage(d, l)
               /\ Carried(c, d, l) /\ RefusalInv(d, l)
<1> DEFINE d == Parsed(c)
<1>1. BeforeBody(c)
  BY DEF BodyStage, BeforeBody
<1>2. d = TryParseBody(input, c)
  <2>1. ~NotAllowed(c) /\ Step1(c) = c /\ ~ReturnsAfterStep1(c, c)
    BY DEF BodyStage, NotAllowed, Step1, ReturnsAfterStep1
  <2>2. Step2(c) = c
    BY <2>1, AllowedKeeps DEF BodyStage
  <2>3. Step3(c) = TryParseBody(input, c)
    BY DEF BodyStage, Step3
  <2> QED
    BY <2>1, <2>2, <2>3 DEF Parsed
<1>3. d.request.chunked /\ d.lastBodyLength > 0 /\ d.got >= EndOf(d.request) + SEARCH_WINDOW
      => "outOfWindow" \in l
  OBVIOUS
<1> HIDE DEF d
<1>4. /\ Differs(c, d, {"state", "headerState", "response", "lastBodyLength"})
      /\ d.response = c.response \/ d.response.status \in {400, 413}
  BY <1>2, TryParseBodyFields
<1>5. /\ d.request = c.request /\ d.got = c.got /\ d.base = c.base
      /\ d.readOffset = c.readOffset /\ d.responseBuffer = c.responseBuffer
      /\ d.responseSent = c.responseSent
  BY <1>4 DEF Differs, Fields
<1>6. BodyStage(d) \/ AnsweredStage(d, l) \/ CompleteStage(d, l)
  BY <1>1, <1>2, <1>3, <1>5, TryParseBodyStages
<1>7. Carried(c, d, l)
  BY <1>5 DEF Carried, BodyStage
<1>8. RefusalInv(d, l)
  BY <1>4 DEF RefusalInv, BodyStage, Unanswered, NewResponse, NoResponse
<1> QED
  BY <1>6, <1>7, <1>8 DEF d

\* A response that waits is not disturbed by assignments to other fields.
LEMMA WritingStays ==
    ASSUME NEW c, NEW d, NEW k, NEW l, k \subseteq l, Writing(c, k),
           Differs(c, d, {"got", "conf"})
    PROVE  Writing(d, l)
<1>1. /\ d.base = c.base /\ d.readOffset = c.readOffset /\ d.state = c.state
      /\ d.response = c.response /\ d.responseBuffer = c.responseBuffer
      /\ d.responseSent = c.responseSent /\ d.request = c.request
  BY DEF Differs, Fields
<1>2. ReadPosition(d) = ReadPosition(c) /\ Serialize(d) = Serialize(c)
  BY <1>1 DEF ReadPosition, Serialize
<1> QED
  BY <1>1, <1>2 DEF Writing

\* Steps 1 to 3 on an object with a response to write: none of them does
\* anything, but that Step 2 may replace a refusal by a 405.
LEMMA WritingParsed ==
    ASSUME NEW c, WellFormed(c), NEW k, NEW l, k \subseteq l,
           RefusedStage(c, k) \/ AnsweredStage(c, k), RefusalInv(c, k),
           Parsed(c).response.status = 405 /\ c.responseSent > 0 /\ ~c.conf
               => "replaced" \in l
    PROVE  LET d == Parsed(c)
           IN  /\ \/ RefusedStage(d, l) /\ d.headerState = c.headerState
                  \/ AnsweredStage(d, l) /\ d = c
               /\ Carried(c, d, l) /\ RefusalInv(d, l)
<1> DEFINE d == Parsed(c)
<1>1. Writing(c, k) /\ c.headerState # "HEADER_INCOMPLETE"
  BY DEF RefusedStage, AnsweredStage
<1>2. Step1(c) = c /\ ~ReturnsAfterStep1(c, c)
  BY <1>1 DEF Step1, ReturnsAfterStep1
<1>3. CASE NotAllowed(c)
  <2>1. d = Forbids(c)
    BY <1>2, <1>3 DEF Parsed, Step2, Forbids
  <2>2. ~c.conf
    BY <1>3 DEF NotAllowed
  <2>3. c.headerState = "HEADER_COMPLETE"
    BY <2>2 DEF RefusedStage, AnsweredStage
  <2>4. Forbids(c).response.status = 405
    <3>1. 405 \in Nat
      OBVIOUS
    <3> DEFINE b == SetResponse(c, 405)
    <3>2. WellFormed(b)
      BY <3>1, AnswerKeeps DEF Keeps
    <3>3. b.response.status = 405
      <4>1. ASSUME NEW status \in Nat
            PROVE  /\ Answer(c, status).response
                        = [status |-> status, to |-> ReadPosition(c), own |-> "none", keep |-> FALSE, asked |-> FALSE]
                   /\ Differs(Answer(c, status), SetResponse(c, status), {"responseSent"})
        BY AnswerFields
      <4>2. /\ Answer(c, 405).response = [status |-> 405, to |-> ReadPosition(c), own |-> "none", keep |-> FALSE, asked |-> FALSE]
            /\ Differs(Answer(c, 405), b, {"responseSent"})
        BY <4>1
      <4> HIDE DEF b
      <4>3. b.response = Answer(c, 405).response
        BY <4>2 DEF Differs, Fields
      <4> QED
        BY <4>2, <4>3
    <3> HIDE DEF b
    <3>4. [b EXCEPT !.conf = TRUE].response = b.response
      BY <3>2 DEF WellFormed, ClientType
    <3> QED
      BY <3>3, <3>4 DEF b, Forbids
  <2>5. c.responseBuffer.status = 0 \/ "replaced" \in l
    <3>1. c.responseSent \in Nat
      BY ClientFields DEF WellFormed
    <3>2. c.responseSent > 0 => "replaced" \in l
      BY <2>1, <2>2, <2>4
    <3> QED
      BY <1>1, <3>1, <3>2 DEF Writing
  <2> HIDE DEF d
  <2>6. /\ RefusedStage(d, l) /\ RefusalInv(d, l) /\ d.responseSent = 0
        /\ Differs(c, d, {"state", "response", "responseSent", "conf"})
    BY <2>1, <2>2, <2>3, <2>5, NotAllowedRefuses
  <2>7. c.responseSent = 0 \/ "replaced" \in l
    <3>1. c.responseSent \in Nat
      BY ClientFields DEF WellFormed
    <3> QED
      BY <2>1, <2>2, <2>4, <3>1 DEF d
  <2>8. Carried(c, d, l)
    BY <2>3, <2>6, <2>7 DEF Carried, Differs, Fields
  <2> QED
    BY <2>3, <2>6, <2>8 DEF d, RefusedStage
<1>4. CASE ~NotAllowed(c)
  <2>1. /\ Differs(c, Step2(c), {"conf"}) /\ (c.conf => Step2(c) = c)
    BY <1>4, AllowedKeeps
  <2>2. Step2(c).state = "WRITING_RESPONSE"
    BY <1>1, <2>1 DEF Differs, Fields, Writing
  <2>3. d = Step2(c)
    BY <1>2, <1>4, <2>2 DEF Parsed, Step3
  <2> HIDE DEF d
  <2>4. /\ d.response = c.response /\ d.responseBuffer = c.responseBuffer /\ d.got = c.got
        /\ d.responseSent = c.responseSent /\ d.request = c.request /\ d.base = c.base
        /\ d.headerState = c.headerState /\ d.readOffset = c.readOffset
    BY <2>1, <2>3 DEF Differs, Fields
  <2>5. Differs(c, d, {"got", "conf"})
    BY <2>1, <2>3 DEF Differs
  <2>6. Writing(d, l)
    BY <1>1, <2>5, WritingStays
  <2>7. Carried(c, d, l)
    BY <2>4 DEF Carried
  <2>8. RefusalInv(d, l)
    BY <2>4 DEF RefusalInv, ReadPosition
  <2>9. CASE RefusedStage(c, k)
    BY <2>4, <2>6, <2>7, <2>8, <2>9 DEF RefusedStage, Disconnects, d
  <2>10. CASE AnsweredStage(c, k)
    <3>1. d = c
      BY <2>1, <2>3, <2>10 DEF AnsweredStage
    <3>2. AnsweredStage(d, l)
      BY <2>6, <2>10, <3>1 DEF AnsweredStage, BodyTaken
    <3> QED
      BY <2>7, <2>8, <3>1, <3>2 DEF d
  <2> QED
    BY <2>9, <2>10
<1> QED
  BY <1>3, <1>4

\* recv: more bytes at the end of the buffer change no stage.
LEMMA ReceivedInv ==
    ASSUME NEW c, WellFormed(c), NEW n \in Nat, NEW l, NEW h, NEW w,
           Stages(c, l), ClientInv(c, l, h, w)
    PROVE  LET d == AppendRawBuffer(c, n)
           IN  /\ WellFormed(d) /\ d.got = c.got + n /\ Differs(c, d, {"got"})
               /\ Stages(d, l) /\ ClientInv(d, l, h, w)
<1> DEFINE d == AppendRawBuffer(c, n)
           m == c.got + n
<1>1. m \in Nat /\ c.got \in Nat /\ c.got <= m /\ c.base <= m
  BY ClientFields DEF WellFormed
<1>2. d = [c EXCEPT !.got = m]
  BY DEF AppendRawBuffer
<1> HIDE DEF d, m
<1>3. WellFormed(d) /\ d.got = m /\ Differs(c, d, {"got"})
  BY <1>1, <1>2 DEF WellFormed, ClientType, Differs, Fields
<1>4. /\ d.base = c.base /\ d.readOffset = c.readOffset /\ d.state = c.state
      /\ d.headerState = c.headerState /\ d.request = c.request /\ d.response = c.response
      /\ d.responseBuffer = c.responseBuffer /\ d.responseSent = c.responseSent
      /\ d.headerEnd = c.headerEnd /\ d.lastBodyLength = c.lastBodyLength /\ d.conf = c.conf
  BY <1>3 DEF Differs, Fields
<1>5. ReadPosition(d) = ReadPosition(c) /\ ReadPosition(c) \in Nat
  BY <1>4, ClientFields DEF ReadPosition, WellFormed
<1>6. Unanswered(d) = Unanswered(c)
  BY <1>4 DEF Unanswered
<1>7. ASSUME HeaderRead(c), c.request \in Request
      PROVE  HeaderRead(d) /\ (BodyTaken(c, l) => BodyTaken(d, l))
  <2>1. BodyStart(c.request) \in Nat /\ c.lastBodyLength \in Nat
    BY <1>7, ClientFields, RequestFields DEF WellFormed, BodyStart
  <2>2. HeaderRead(d)
    BY <1>1, <1>3, <1>4, <1>5, <1>7, <2>1 DEF HeaderRead
  <2>3. BodyTaken(c, l) => BodyTaken(d, l)
    BY <1>1, <1>3, <1>4, <2>1 DEF BodyTaken
  <2> QED
    BY <2>2, <2>3
<1>8. Writing(c, l) => Writing(d, l)
  <2>1. Differs(c, d, {"got", "conf"})
    BY <1>3 DEF Differs
  <2> QED
    BY <2>1, WritingStays
<1>9. c.request \in Request
  BY ClientFields DEF WellFormed
<1>10. Stages(d, l)
  <2>1. CASE ReadingStage(c)
    BY <1>4, <1>6, <2>1 DEF ReadingStage, Stages
  <2>2. CASE BodyStage(c)
    BY <1>4, <1>6, <1>7, <1>9, <2>2 DEF BodyStage, Stages
  <2>3. CASE RefusedStage(c, l)
    BY <1>4, <1>8, <2>3 DEF RefusedStage, Stages, Disconnects
  <2>4. CASE AnsweredStage(c, l)
    BY <1>4, <1>7, <1>8, <1>9, <2>4 DEF AnsweredStage, Stages
  <2> QED
    BY <2>1, <2>2, <2>3, <2>4 DEF Stages
<1>11. ClientInv(d, l, h, w)
  <2>1. PlaceInv(d, l)
    BY <1>1, <1>3, <1>5 DEF ClientInv, PlaceInv
  <2>2. RefusalInv(d, l)
    BY <1>1, <1>3, <1>4, <1>5, SizesAssumption DEF ClientInv, RefusalInv
  <2>3. OrderInv(d, h)
    BY <1>4, <1>5 DEF ClientInv, OrderInv
  <2>4. SentInv(d, l, w)
    BY <1>4, <1>5 DEF ClientInv, SentInv
  <2>5. ClosingInv(d, w)
    BY <1>4 DEF ClientInv, ClosingInv
  <2> QED
    BY <2>1, <2>2, <2>3, <2>4, <2>5 DEF ClientInv
<1> QED
  BY <1>3, <1>10, <1>11 DEF d, m

\* processRequest: its response waits, and the request is the last handled.
LEMMA CompleteAnswered ==
    ASSUME NEW p, WellFormed(p), NEW l, NEW w, NEW T, NEW h \in Seq(T), NEW status \in Nat \ {0},
           NEW own \in ProgramHeaders \cup {"none"}, CompleteStage(p, l), ClientInv(p, l, h, w),
           \A i \in DOMAIN h : EndOf(h[i].request) <= ReadPosition(p)
    PROVE  LET d == WithConnection(SetResponse(p, status), own)
           IN  AnsweredStage(d, l) /\ ClientInv(d, l, Append(h, BodyGiven(p)), w)
<1> DEFINE a == Answer(p, status)
           s == SetResponse(p, status)
           d == WithConnection(s, own)
           r == d.response
           b == BodyGiven(p)
<1>1. /\ a.state = "WRITING_RESPONSE" /\ a.response.status = status
      /\ a.response.to = ReadPosition(p) /\ Differs(p, a, {"state", "response"})
      /\ s.responseSent = 0 /\ Differs(a, s, {"responseSent"}) /\ WellFormed(s)
  <2>1. WellFormed(s)
    BY AnswerKeeps DEF Keeps
  <2> HIDE DEF a, s
  <2>2. /\ a.state = "WRITING_RESPONSE" /\ Differs(p, a, {"state", "response"})
        /\ a.response = [status |-> status, to |-> ReadPosition(p), own |-> "none",
                         keep |-> FALSE, asked |-> FALSE]
        /\ s.responseSent = 0 /\ Differs(a, s, {"responseSent"})
    BY AnswerFields DEF a, s
  <2> QED
    BY <2>1, <2>2
<1> HIDE DEF a, s
<1>a. /\ Differs(s, d, {"response"})
      /\ r.status = s.response.status /\ r.to = s.response.to
  BY <1>1, ConnectionFields
<1> HIDE DEF d
<1>2. r.status = status /\ r.to = ReadPosition(p)
  BY <1>1, <1>a DEF Differs, Fields
<1> HIDE DEF r
<1>3. /\ d.base = p.base /\ d.readOffset = p.readOffset /\ d.got = p.got
      /\ d.state = "WRITING_RESPONSE" /\ d.response = r /\ d.responseSent = 0
      /\ d.headerState = p.headerState /\ d.request = p.request
      /\ d.responseBuffer = p.responseBuffer
      /\ d.headerEnd = p.headerEnd /\ d.lastBodyLength = p.lastBodyLength /\ d.conf = p.conf
  BY <1>1, <1>a DEF Differs, Fields, r
<1>4. p.responseSent = 0 /\ p.responseBuffer.status = 0 /\ p.headerState = "REQUEST_COMPLETE"
  BY DEF CompleteStage, Unanswered, NewResponse, NoResponse
<1>5. ReadPosition(d) = ReadPosition(p)
  BY <1>3 DEF ReadPosition
<1>6. Writing(d, l)
  BY <1>2, <1>3, <1>4, <1>5, SizesAssumption DEF Writing
<1>7. HeaderRead(d) /\ BodyTaken(d, l)
  <2>1. HeaderRead(d)
    BY <1>3, <1>5 DEF CompleteStage, HeaderRead
  <2>2. BodyTaken(d, l)
    BY <1>3, <1>4 DEF CompleteStage, BodyTaken
  <2> QED
    BY <2>1, <2>2
<1>8. AnsweredStage(d, l)
  BY <1>3, <1>4, <1>6, <1>7 DEF AnsweredStage, CompleteStage
<1>9. OrderInv(d, Append(h, b))
  <2>1. b.request = d.request
    BY <1>3 DEF BodyGiven
  <2> HIDE DEF b
  <2>2. ASSUME NEW i \in DOMAIN Append(h, b)
        PROVE  \/ EndOf(Append(h, b)[i].request) <= ReadPosition(d)
               \/ i = Len(Append(h, b)) /\ d.headerState = "REQUEST_COMPLETE"
                    /\ Append(h, b)[i].request = d.request
    <3>1. CASE i \in DOMAIN h
      <4>1. Append(h, b)[i] = h[i]
        BY <3>1
      <4> QED
        BY <1>5, <3>1, <4>1
    <3>2. CASE i \notin DOMAIN h
      <4>1. i = Len(h) + 1 /\ Len(Append(h, b)) = Len(h) + 1
        BY <3>2
      <4>2. Append(h, b)[Len(h) + 1] = b
        OBVIOUS
      <4> QED
        BY <1>3, <1>4, <2>1, <4>1, <4>2
    <3> QED
      BY <3>1, <3>2
  <2> QED
    BY <2>2 DEF OrderInv
<1>10. PlaceInv(d, l)
  BY <1>3, <1>5 DEF ClientInv, PlaceInv
<1>11. SentInv(d, l, w) /\ ClosingInv(d, w)
  <2>1. SentInv(d, l, w)
    BY <1>3, <1>4, <1>5 DEF ClientInv, SentInv
  <2>2. ClosingInv(d, w)
    BY <1>3 DEF ClientInv, ClosingInv
  <2> QED
    BY <2>1, <2>2
<1>12. RefusalInv(d, l)
  BY <1>3, <1>4 DEF RefusalInv
<1> QED
  BY <1>8, <1>9, <1>10, <1>11, <1>12 DEF ClientInv, s, d, b

\* Steps 1 to 3, whatever stage the object is in.
LEMMA ParsedInv ==
    ASSUME input \in Seq(Request), Row, NEW c, WellFormed(c),
           NEW k, NEW l, NEW h, NEW w, k \subseteq l,
           Stages(c, k), ClientInv(c, k, h, w),
           Parsed(c).response.status = 405 /\ c.state = "WRITING_RESPONSE"
               /\ c.responseSent > 0 /\ ~c.conf => "replaced" \in l,
           LET d == Parsed(c)
           IN  d.request.chunked /\ c.lastBodyLength = 0 /\ d.lastBodyLength > 0
                 /\ d.got >= EndOf(d.request) + SEARCH_WINDOW
               => "outOfWindow" \in l
    PROVE  LET d == Parsed(c)
           IN  /\ WellFormed(d) /\ ClientInv(d, l, h, w) /\ Carried(c, d, l)
               /\ Stages(d, l) \/ (CompleteStage(d, l) /\ c.headerState # "REQUEST_COMPLETE")
<1> DEFINE d == Parsed(c)
<1>1. WellFormed(d)
  BY ParsedKeeps DEF Keeps
<1>2. RefusalInv(c, k) /\ PlaceInv(c, k)
  BY DEF ClientInv
<1>3. ASSUME Carried(c, d, l), RefusalInv(d, l) PROVE ClientInv(d, l, h, w)
  <2> HIDE DEF d
  <2> QED
    BY <1>3, CarriedInv
<1>4. CASE ReadingStage(c)
  <2>1. "early413" \notin l => ReadPosition(c) <= c.got
    BY <1>2 DEF PlaceInv
  <2>2. d.request.chunked /\ d.lastBodyLength > 0
          /\ d.got >= EndOf(d.request) + SEARCH_WINDOW
        => "outOfWindow" \in l
    BY <1>4 DEF ReadingStage
  <2>3. /\ Stages(d, l) \/ CompleteStage(d, l)
        /\ Carried(c, d, l) /\ RefusalInv(d, l)
    BY <1>4, <2>1, <2>2, ReadingParsed
  <2> QED
    BY <1>1, <1>3, <1>4, <2>3 DEF ReadingStage
<1>5. CASE BodyStage(c)
  <2>1. d.request.chunked /\ d.lastBodyLength > 0
          /\ d.got >= EndOf(d.request) + SEARCH_WINDOW
        => "outOfWindow" \in l
    BY <1>5 DEF BodyStage
  <2>2. /\ BodyStage(d) \/ AnsweredStage(d, l) \/ CompleteStage(d, l)
        /\ Carried(c, d, l) /\ RefusalInv(d, l)
    BY <1>5, <2>1, BodyParsed
  <2> QED
    BY <1>1, <1>3, <1>5, <2>2 DEF BodyStage, Stages
<1>6. CASE RefusedStage(c, k) \/ AnsweredStage(c, k)
  <2>1. c.state = "WRITING_RESPONSE"
    BY <1>6 DEF RefusedStage, AnsweredStage, Writing
  <2>2. /\ RefusedStage(d, l) \/ AnsweredStage(d, l)
        /\ Carried(c, d, l) /\ RefusalInv(d, l)
    BY <1>2, <1>6, <2>1, WritingParsed
  <2> QED
    BY <1>1, <1>3, <2>2 DEF Stages
<1> QED
  BY <1>4, <1>5, <1>6 DEF Stages

\* Server::handleClientData as a whole.
LEMMA HandleClientDataInv ==
    ASSUME TypeOK, Inv, open, NEW n \in Nat, HandleClientData(n), input' = input, wire' = wire
    PROVE  /\ Stages(client', lapses') /\ ClientInv(client', lapses', handled', wire)
           /\ BodyWhole' /\ HandledInOrder' /\ WireFramed' /\ CloseHonoured'
<1> DEFINE c == AppendRawBuffer(client, n)
           d == Parsed(c)
<1>1. input \in Seq(Request) /\ Row /\ WellFormed(client)
      /\ Stages(client, lapses) /\ ClientInv(client, lapses, handled, wire)
  BY DEF TypeOK, Inv, StreamInv, WellFormed
<1>2. /\ WellFormed(c) /\ Differs(client, c, {"got"})
      /\ Stages(c, lapses) /\ ClientInv(c, lapses, handled, wire)
  <2> HIDE DEF c
  <2> QED
    BY <1>1, ReceivedInv DEF c
<1>3. /\ c.state = client.state /\ c.responseSent = client.responseSent
      /\ c.conf = client.conf /\ c.lastBodyLength = client.lastBodyLength
      /\ c.headerState = client.headerState
  <2> HIDE DEF c
  <2> QED
    BY <1>2 DEF Differs, Fields
<1>4. /\ d.response.status = 405 /\ c.state = "WRITING_RESPONSE"
           /\ c.responseSent > 0 /\ ~c.conf => "replaced" \in lapses'
      /\ d.request.chunked /\ c.lastBodyLength = 0 /\ d.lastBodyLength > 0
           /\ d.got >= EndOf(d.request) + SEARCH_WINDOW => "outOfWindow" \in lapses'
      /\ lapses \subseteq lapses'
  <2>1. lapses' = lapses
             \cup (IF d.response.status = 405 /\ client.state = "WRITING_RESPONSE"
                        /\ client.responseSent > 0 /\ ~client.conf
                   THEN {"replaced"} ELSE {})
             \cup (IF /\ d.request.chunked
                        /\ client.lastBodyLength = 0 /\ d.lastBodyLength > 0
                        /\ d.got >= EndOf(d.request) + SEARCH_WINDOW
                   THEN {"outOfWindow"} ELSE {})
    BY DEF HandleClientData
  <2> HIDE DEF c, d
  <2> QED
    BY <1>3, <2>1
<1>5. /\ WellFormed(d) /\ ClientInv(d, lapses', handled, wire) /\ Carried(c, d, lapses')
      /\ Stages(d, lapses') \/ (CompleteStage(d, lapses') /\ c.headerState # "REQUEST_COMPLETE")
  <2> HIDE DEF c
  <2> QED
    BY <1>1, <1>2, <1>4, ParsedInv
<1>6. \/ d.state # "PROCESSING_REQUEST" /\ client' = d /\ handled' = handled
      \/ /\ d.state = "PROCESSING_REQUEST"
         /\ \E status \in Results, own \in ProgramHeaders \cup {"none"} :
               client' = WithConnection(SetResponse(d, status), own)
         /\ handled' = Append(handled, BodyGiven(d))
  BY DEF HandleClientData
<1>7. WireFramed' /\ CloseHonoured'
  <2>1. WireFramed'
    BY <1>4 DEF Inv, WireFramed
  <2>2. CloseHonoured'
    BY DEF Inv, CloseHonoured
  <2> QED
    BY <2>1, <2>2
<1>8. Stages(d, lapses') => d.state # "PROCESSING_REQUEST"
  BY DEF Stages, ReadingStage, BodyStage, RefusedStage, AnsweredStage, Writing
<1>9. CASE d.state # "PROCESSING_REQUEST"
  <2>1. client' = d /\ handled' = handled
    BY <1>6, <1>9
  <2>2. Stages(d, lapses')
    BY <1>5, <1>9 DEF CompleteStage
  <2>3. BodyWhole'
    BY <2>1 DEF Inv, BodyWhole
  <2>4. HandledInOrder'
    BY <2>1 DEF Inv, HandledInOrder
  <2> QED
    BY <1>5, <1>7, <2>1, <2>2, <2>3, <2>4
<1>10. CASE d.state = "PROCESSING_REQUEST"
  <2> DEFINE b == BodyGiven(d)
             T == [request : Request, from : Nat, raw : Nat, got : Nat]
  <2>1. /\ CompleteStage(d, lapses') /\ c.headerState # "REQUEST_COMPLETE"
        /\ handled' = Append(handled, b) /\ handled \in Seq(T)
        /\ \E status \in Results, own \in ProgramHeaders \cup {"none"} :
               client' = WithConnection(SetResponse(d, status), own)
    BY <1>5, <1>6, <1>8, <1>10 DEF TypeOK
  <2>2. PICK status \in Nat \ {0}, own \in ProgramHeaders \cup {"none"} :
            client' = WithConnection(SetResponse(d, status), own)
    BY <2>1, LoopAssumption
  <2>3. \A i \in DOMAIN handled : EndOf(handled[i].request) <= ReadPosition(d)
    <3>1. ReadPosition(d) = ReadPosition(c)
      BY <1>5 DEF Carried, ReadPosition
    <3> HIDE DEF c, d
    <3> QED
      BY <1>2, <2>1, <3>1 DEF ClientInv, OrderInv
  <2>4. /\ AnsweredStage(client', lapses')
        /\ ClientInv(client', lapses', handled', wire)
    <3> HIDE DEF d, T, b
    <3>1. handled' = Append(handled, BodyGiven(d))
      BY <2>1 DEF b
    <3> QED
      BY <1>5, <2>1, <2>2, <2>3, <3>1, CompleteAnswered
  <2>5. /\ b.request = d.request /\ b.from = d.base + d.headerEnd
        /\ b.raw = d.lastBodyLength /\ b.got = d.got
    BY DEF BodyGiven
  <2> HIDE DEF b, c, d, T
  <2>6. \A i \in DOMAIN handled' :
            \/ i \in DOMAIN handled /\ handled'[i] = handled[i]
            \/ i = Len(handled) + 1 /\ handled'[i] = b
    BY <2>1
  <2>7. /\ \E j \in DOMAIN input : input[j] = b.request
        /\ b.from = BodyStart(b.request) /\ b.raw >= b.request.body
        /\ EndOf(b.request) <= b.got
    <3>1. HeaderRead(d) /\ BodyTaken(d, lapses') /\ d.headerState = "REQUEST_COMPLETE"
      BY <2>1 DEF CompleteStage
    <3>2. /\ d.request.body \in Nat /\ BodyStart(d.request) \in Nat
          /\ EndOf(d.request) = BodyStart(d.request) + d.request.body
      BY <1>1, <1>5, <3>1, RequestOfHeader
    <3>3. d.lastBodyLength \in Nat /\ d.got \in Nat
      BY <1>5, ClientFields DEF WellFormed
    <3>4. EndOf(d.request) <= d.got
      BY <3>1, <3>2, <3>3 DEF BodyTaken
    <3> QED
      BY <2>5, <3>1, <3>4 DEF HeaderRead, BodyTaken
  <2>8. BodyWhole'
    <3>1. ASSUME NEW i \in DOMAIN handled'
          PROVE  /\ \E j \in DOMAIN input : input[j] = handled'[i].request
                 /\ handled'[i].from = BodyStart(handled'[i].request)
                 /\ handled'[i].raw >= handled'[i].request.body
                 /\ EndOf(handled'[i].request) <= handled'[i].got
      BY <2>6, <2>7 DEF Inv, BodyWhole
    <3> QED
      BY <3>1 DEF BodyWhole
  <2>9. HandledInOrder'
    <3>1. b.request.at = ReadPosition(d)
      BY <2>1, <2>5 DEF CompleteStage, HeaderRead
    <3>2. ASSUME NEW i \in DOMAIN handled', NEW j \in DOMAIN handled', i < j
          PROVE  EndOf(handled'[i].request) <= handled'[j].request.at
      <4>1. CASE j \in DOMAIN handled
        <5>1. i \in DOMAIN handled
          BY <2>1, <3>2, <4>1
        <5>2. handled'[i] = handled[i] /\ handled'[j] = handled[j]
          BY <2>6, <2>1, <4>1, <5>1
        <5> QED
          BY <3>2, <4>1, <5>1, <5>2 DEF Inv, HandledInOrder
      <4>2. CASE j \notin DOMAIN handled
        <5>1. j = Len(handled) + 1 /\ handled'[j] = b
          BY <2>6, <4>2
        <5>2. i \in DOMAIN handled
          BY <2>1, <3>2, <5>1
        <5>3. handled'[i] = handled[i]
          BY <2>1, <2>6, <5>2
        <5> QED
          BY <2>3, <3>1, <5>1, <5>2, <5>3
      <4> QED
        BY <4>1, <4>2
    <3> QED
      BY <3>2 DEF HandledInOrder
  <2> QED
    BY <1>7, <2>4, <2>8, <2>9 DEF Stages
<1> QED
  BY <1>9, <1>10

-----------------------------------------------------------------------------
(***************************************************************************)
(* handleWrite: what goes out, and where the next request is looked for.   *)
(***************************************************************************)
\* compactBuffer moves the read position only when it is past the end.
LEMMA CompactPosition ==
    ASSUME NEW c, WellFormed(c)
    PROVE  LET p == ReadPosition(c)
           IN  ReadPosition(CompactBuffer(c)) = IF p <= c.got THEN p ELSE c.got
<1> DEFINE d == CompactBuffer(c)
           base == IF c.readOffset <= RawLength(c) THEN c.base + c.readOffset ELSE c.got
<1>1. d = [c EXCEPT !.base = base, !.readOffset = 0]
  BY DEF CompactBuffer
<1>2. c.base \in Nat /\ c.readOffset \in Nat /\ c.got \in Nat /\ c.base <= c.got
  BY ClientFields DEF WellFormed
<1>3. base = IF c.base + c.readOffset <= c.got THEN c.base + c.readOffset ELSE c.got
  BY <1>2 DEF RawLength
<1>4. base \in Nat
  BY <1>2, <1>3
<1> HIDE DEF base, d
<1>5. d.base = base /\ d.readOffset = 0
  BY <1>1 DEF WellFormed, ClientType
<1>6. ReadPosition(d) = base
  BY <1>4, <1>5 DEF ReadPosition
<1> QED
  BY <1>3, <1>6 DEF ReadPosition, d

\* consumeBuffer moves it by n, or to the end of the buffer when n is more
\* than there is.
LEMMA ConsumePosition ==
    ASSUME NEW c, WellFormed(c), NEW n \in Nat
    PROVE  LET p == ReadPosition(c) + n
               d == ConsumeBuffer(c, n)
           IN  IF p <= c.got THEN ReadPosition(d) = p ELSE ReadPosition(d) \in {p, c.got}
<1> DEFINE m == c.readOffset + n
           moved == [c EXCEPT !.readOffset = m]
           p == ReadPosition(c) + n
           d == ConsumeBuffer(c, n)
<1>1. c.base \in Nat /\ c.readOffset \in Nat /\ c.got \in Nat /\ c.base <= c.got /\ m \in Nat
  BY ClientFields DEF WellFormed
<1>2. d = moved \/ d = CompactBuffer(moved)
  BY DEF ConsumeBuffer
<1>3. p = c.base + m
  BY <1>1 DEF ReadPosition
<1> HIDE DEF m
<1>4. WellFormed(moved) /\ moved.got = c.got
  BY <1>1, MoveKeeps DEF Keeps
<1>5. moved.base = c.base /\ moved.readOffset = m
  BY DEF WellFormed, ClientType
<1> HIDE DEF moved
<1>6. ReadPosition(moved) = p
  BY <1>3, <1>5 DEF ReadPosition
<1>7. ReadPosition(CompactBuffer(moved)) = IF p <= c.got THEN p ELSE c.got
  BY <1>4, <1>6, CompactPosition
<1> HIDE DEF p, d
<1> QED
  BY <1>2, <1>6, <1>7 DEF p, d

\* resetForNextRequest after a request whose header was parsed: the object is
\* between requests, at the end of the body or at the end of the buffer.
LEMMA ResetPosition ==
    ASSUME NEW c, WellFormed(c), c.headerEnd > c.readOffset
    PROVE  LET p == c.base + c.headerEnd + c.lastBodyLength
               d == ResetForNextRequest(c)
           IN  /\ ReadingStage(d) /\ WellFormed(d) /\ d.got = c.got
               /\ IF p <= c.got THEN ReadPosition(d) = p ELSE ReadPosition(d) \in {p, c.got}
<1> DEFINE p == c.base + c.headerEnd + c.lastBodyLength
           n == ConsumedLength(c)
           consumed == ConsumeBuffer(c, n)
           emptied == [consumed EXCEPT !.base = c.got, !.readOffset = 0]
           trimmed == IF BufferLength(consumed) = 0 THEN emptied
                      ELSE IF consumed.readOffset > BUFFER_COMPACT_THRESHOLD
                           THEN CompactBuffer(consumed) ELSE consumed
           d == [NewClient EXCEPT !.base = trimmed.base, !.got = trimmed.got,
                                  !.readOffset = trimmed.readOffset]
<1>1. /\ c.base \in Nat /\ c.readOffset \in Nat /\ c.got \in Nat /\ c.base <= c.got
      /\ c.headerEnd \in Nat /\ c.lastBodyLength \in Nat
  BY ClientFields DEF WellFormed
<1>2. n \in Nat /\ ReadPosition(c) + n = p
  BY <1>1 DEF ConsumedLength, ReadPosition
<1>3. ResetForNextRequest(c) = d
  BY DEF ResetForNextRequest
<1>4. ResetForNextRequest(c).got = c.got /\ WellFormed(ResetForNextRequest(c))
  BY ResetKeeps DEF Keeps
<1> HIDE DEF n
<1>5. WellFormed(consumed) /\ consumed.got = c.got
  BY <1>2, ConsumeKeeps DEF Keeps
<1>6. IF p <= c.got THEN ReadPosition(consumed) = p ELSE ReadPosition(consumed) \in {p, c.got}
  BY <1>2, ConsumePosition
<1> HIDE DEF consumed
<1>7. /\ consumed.base \in Nat /\ consumed.readOffset \in Nat /\ consumed.base <= c.got
      /\ SIZE_MAX \in Nat \ {0} /\ p \in Nat
  BY <1>1, <1>5, ClientFields, SizesAssumption DEF WellFormed
<1>8. IF p <= c.got THEN trimmed.base + trimmed.readOffset = p
                    ELSE trimmed.base + trimmed.readOffset \in {p, c.got}
  <2>1. CASE BufferLength(consumed) = 0
    <3>1. trimmed.base = c.got /\ trimmed.readOffset = 0
      <4>1. trimmed = emptied
        BY <2>1
      <4>2. emptied.base = c.got /\ emptied.readOffset = 0
        BY <1>5 DEF WellFormed, ClientType
      <4> QED
        BY <4>1, <4>2
    <3>2. p <= c.got => p = c.got
      <4>1. CASE consumed.readOffset <= RawLength(consumed)
        <5>1. ReadPosition(consumed) = c.got
          BY <1>1, <1>5, <1>7, <2>1, <4>1 DEF BufferLength, RawLength, ReadPosition
        <5> QED
          BY <1>6, <5>1
      <4>2. CASE ~(consumed.readOffset <= RawLength(consumed))
        <5>1. ReadPosition(consumed) > c.got
          BY <1>1, <1>5, <1>7, <4>2 DEF RawLength, ReadPosition
        <5>2. ~(p <= c.got)
          BY <1>1, <1>6, <1>7, <5>1
        <5> QED
          BY <5>2
      <4> QED
        BY <4>1, <4>2
    <3>3. trimmed.base + trimmed.readOffset = c.got
      BY <1>1, <3>1
    <3> QED
      BY <3>2, <3>3
  <2>2. CASE BufferLength(consumed) # 0 /\ consumed.readOffset > BUFFER_COMPACT_THRESHOLD
    <3>1. trimmed = CompactBuffer(consumed)
      BY <2>2
    <3> HIDE DEF trimmed
    <3>2. ReadPosition(trimmed) = IF ReadPosition(consumed) <= c.got
                                  THEN ReadPosition(consumed) ELSE c.got
      BY <1>5, <3>1, CompactPosition
    <3>3. IF p <= c.got THEN ReadPosition(trimmed) = p ELSE ReadPosition(trimmed) \in {p, c.got}
      BY <1>1, <1>6, <1>7, <3>2
    <3> QED
      BY <3>3 DEF ReadPosition
  <2>3. CASE BufferLength(consumed) # 0 /\ ~(consumed.readOffset > BUFFER_COMPACT_THRESHOLD)
    BY <1>6, <2>3 DEF ReadPosition
  <2> QED
    BY <2>1, <2>2, <2>3
<1> HIDE DEF trimmed
<1>9. /\ d.base = trimmed.base /\ d.readOffset = trimmed.readOffset
      /\ Differs(NewClient, d, {"base", "got", "readOffset"})
  BY NewClientWellFormed DEF WellFormed, ClientType, Differs, Fields
<1> HIDE DEF d
<1>10. ReadingStage(d)
  <2>1. /\ NewClient.state = "READING_REQUEST" /\ NewClient.headerState = "HEADER_INCOMPLETE"
        /\ NewClient.request = Fresh /\ NewClient.response = NoResponse
        /\ NewClient.responseBuffer = NoResponse /\ NewClient.responseSent = 0
        /\ NewClient.headerEnd = 0 /\ NewClient.lastBodyLength = 0 /\ NewClient.conf = FALSE
    BY DEF NewClient
  <2> QED
    BY <1>9, <2>1 DEF Differs, Fields, ReadingStage, Unanswered
<1>11. ReadPosition(d) = trimmed.base + trimmed.readOffset
  BY <1>9 DEF ReadPosition
<1> HIDE DEF p
<1> QED
  BY <1>3, <1>4, <1>8, <1>10, <1>11 DEF p

\* The bytes one send puts on the wire.
Parts(c, n) ==
    [i \in 1..n |-> [response |-> Buffered(c), part |-> c.responseSent + i]]

Framed(w) ==
    \A i \in DOMAIN w :
        IF i = 1 \/ w[i-1].part = RESPONSE_LENGTH
        THEN /\ w[i].part = 1
             /\ i > 1 => w[i-1].response.to < w[i].response.to
        ELSE w[i] = [w[i-1] EXCEPT !.part = @ + 1]

\* What is sent is the response in the buffer, made when nothing was sent yet.
LEMMA BufferedIs ==
    ASSUME NEW c, WellFormed(c), NEW l, Writing(c, l)
    PROVE  /\ Buffered(c).status # 0 /\ Buffered(c) \in Response
           /\ c.responseBuffer.status # 0 => Buffered(c) = c.responseBuffer
           /\ Buffered(c) = Serialize(c) \/ c.response.status = 405
           /\ Serialize(c).status = c.response.status /\ Serialize(c).to = c.response.to
           /\ Serialize(c).asked = c.request.keep
           /\ Serialize(c).own = "none" => Serialize(c).keep = c.request.keep
<1>1. c.response \in Response
  BY ClientFields DEF WellFormed
<1>2. /\ Serialize(c).status = c.response.status /\ Serialize(c).to = c.response.to
      /\ Serialize(c).asked = c.request.keep
      /\ Serialize(c).own = "none" => Serialize(c).keep = c.request.keep
  BY <1>1 DEF Serialize, Announces, Response
<1>3. Buffered(c) \in Response
  BY BufferedType DEF WellFormed
<1> QED
  BY <1>2, <1>3 DEF Buffered, Writing

\* Sending n bytes.
LEMMA SendFields ==
    ASSUME NEW c, WellFormed(c), NEW n \in Nat
    PROVE  /\ Send(c, n).responseBuffer = Buffered(c)
           /\ Send(c, n).responseSent = c.responseSent + n
           /\ Differs(c, Send(c, n), {"responseBuffer", "responseSent"})
<1> DEFINE b == Buffered(c)
           m == c.responseSent + n
<1>1. Send(c, n) = [c EXCEPT !.responseBuffer = b, !.responseSent = m]
  BY DEF Send
<1> HIDE DEF b, m
<1>2. /\ Send(c, n).responseBuffer = b /\ Send(c, n).responseSent = m
      /\ Differs(c, Send(c, n), {"responseBuffer", "responseSent"})
  BY <1>1 DEF WellFormed, ClientType, Differs, Fields
<1> QED
  BY <1>2 DEF b, m

\* A concatenation of sequences.
LEMMA Concatenation ==
    ASSUME NEW T, NEW s \in Seq(T), NEW t \in Seq(T)
    PROVE  /\ s \o t \in Seq(T) /\ Len(s \o t) = Len(s) + Len(t)
           /\ \A i \in 1..Len(s) : (s \o t)[i] = s[i]
           /\ \A i \in 1..Len(t) : (s \o t)[Len(s) + i] = t[i]
OBVIOUS

\* What is on the wire then: the histories stay framed, the last byte is the
\* last one sent, and a closing response is the one in the buffer.
LEMMA SendInv ==
    ASSUME NEW c, WellFormed(c), NEW n \in 1..RESPONSE_LENGTH, NEW l,
           NEW w \in Seq([response : Response, part : Nat]),
           Writing(c, l), SentInv(c, l, w), ClosingInv(c, w), n <= RESPONSE_LENGTH - c.responseSent,
           "replaced" \notin l => Framed(w)
    PROVE  LET d == Send(c, n)
               v == w \o Parts(c, n)
           IN  /\ d.responseSent > 0 /\ SentInv(d, l, v) /\ ClosingInv(d, v)
               /\ "replaced" \notin l => Framed(v)
<1> DEFINE d == Send(c, n)
           b == Buffered(c)
           s == c.responseSent
           parts == Parts(c, n)
           v == w \o parts
<1>1. n \in Nat /\ n > 0 /\ s \in Nat /\ RESPONSE_LENGTH \in Nat /\ s + n <= RESPONSE_LENGTH
  <2>1. s \in Nat /\ RESPONSE_LENGTH \in Nat
    BY SizesAssumption, ClientFields DEF WellFormed
  <2> QED
    BY <2>1
<1>2. /\ d.responseBuffer = b /\ d.responseSent = s + n
      /\ Differs(c, d, {"responseBuffer", "responseSent"})
  BY <1>1, SendFields
<1>3. /\ b.status # 0 /\ b \in Response
      /\ c.responseBuffer.status # 0 => b = c.responseBuffer
      /\ b = Serialize(c) \/ c.response.status = 405
      /\ Serialize(c).to = ReadPosition(c)
  <2>1. c.response.to = ReadPosition(c)
    BY DEF Writing
  <2> QED
    BY <2>1, BufferedIs
<1> HIDE DEF d, b, s
<1> DEFINE T == [response : Response, part : Nat]
           k == Len(w)
<1>4. /\ parts \in Seq(T) /\ Len(parts) = n
      /\ \A i \in 1..n : parts[i] = [response |-> b, part |-> s + i]
  <2>1. parts = [i \in 1..n |-> [response |-> b, part |-> s + i]]
    BY DEF Parts, b, s
  <2>2. \A i \in 1..n : [response |-> b, part |-> s + i] \in T
    BY <1>1, <1>3
  <2> HIDE DEF parts, T
  <2>3. parts \in [1..n -> T]
    BY <2>1, <2>2
  <2>4. parts \in Seq(T) /\ Len(parts) = n
    BY <1>1, <2>3
  <2>5. \A i \in 1..n : parts[i] = [response |-> b, part |-> s + i]
    BY <2>1
  <2> QED
    BY <2>4, <2>5
<1>5. /\ k \in Nat /\ DOMAIN w = 1..k /\ (k # 0 <=> w # <<>>)
      /\ v \in Seq(T) /\ DOMAIN v = 1..(k + n) /\ Len(v) = k + n /\ v # <<>>
      /\ \A i \in 1..k : v[i] = w[i]
      /\ \A i \in 1..n : v[k + i] = parts[i]
  <2>1. w \in Seq(T)
    OBVIOUS
  <2> HIDE DEF T, parts
  <2>2. k \in Nat /\ DOMAIN w = 1..k /\ (k # 0 <=> w # <<>>)
    BY <2>1
  <2>3. v \in Seq(T) /\ Len(v) = k + n /\ DOMAIN v = 1..(k + n)
    <3>1. v \in Seq(T)
      BY <1>4, <2>1
    <3>2. Len(v) = k + n
      BY <1>4, <2>1, Concatenation
    <3>3. DOMAIN v = 1..Len(v)
      BY <3>1
    <3> QED
      BY <3>1, <3>2, <3>3
  <2>4. v # <<>>
    BY <1>1, <2>2, <2>3
  <2>5. \A i \in 1..k : v[i] = w[i]
    BY <1>4, <2>1
  <2>6. \A i \in 1..n : v[k + i] = parts[i]
    BY <1>1, <1>4, <2>1
  <2> QED
    BY <2>2, <2>3, <2>4, <2>5, <2>6
<1> HIDE DEF parts, v, T, k
<1>6. \A i \in 1..n : v[k + i] = [response |-> b, part |-> s + i]
  BY <1>4, <1>5
<1>7. ASSUME NEW i \in DOMAIN v, i > k
      PROVE  i \in Nat /\ i - k \in 1..n /\ v[i] = [response |-> b, part |-> s + (i - k)]
  <2>1. i \in Nat /\ i - k \in 1..n /\ k + (i - k) = i
    BY <1>1, <1>5, <1>7
  <2>2. v[k + (i - k)] = [response |-> b, part |-> s + (i - k)]
    BY <1>6, <2>1
  <2> QED
    BY <2>1, <2>2
<1>8. ASSUME NEW i \in DOMAIN v
      PROVE  i \in 1..k \/ i > k
  BY <1>5
<1>9. d.responseSent > 0 /\ d.responseSent # 0
  BY <1>1, <1>2
<1>10. SentInv(d, l, v)
  <2>1. n \in 1..n
    BY <1>1
  <2>2. v[k + n] = [response |-> b, part |-> s + n]
    BY <1>6, <2>1
  <2> QED
    BY <1>2, <1>5, <1>9, <2>2 DEF SentInv
<1>11. ClosingInv(d, v)
  <2>1. ASSUME NEW i \in DOMAIN v, Final(v[i].response)
        PROVE  d.responseBuffer.status # 0 /\ v[i].response = d.responseBuffer
    <3>1. CASE i \in 1..k
      BY <1>2, <1>3, <1>5, <2>1, <3>1 DEF ClosingInv
    <3>2. CASE i > k
      <4>1. v[i].response = b
        BY <1>7, <3>2
      <4> QED
        BY <1>2, <1>3, <4>1
    <3> QED
      BY <1>8, <3>1, <3>2
  <2> QED
    BY <2>1 DEF ClosingInv
<1>12. ASSUME "replaced" \notin l
       PROVE  Framed(v)
  <2> DEFINE F(u, i) == IF i = 1 \/ u[i-1].part = RESPONSE_LENGTH
                        THEN u[i].part = 1 /\ (i > 1 => u[i-1].response.to < u[i].response.to)
                        ELSE u[i] = [u[i-1] EXCEPT !.part = @ + 1]
  <2>1. Framed(w)
    BY <1>12
  <2>2. ASSUME NEW i \in 1..k PROVE F(v, i)
    <3>1. v[i] = w[i] /\ (i # 1 => i - 1 \in 1..k /\ v[i-1] = w[i-1])
      BY <1>5
    <3> QED
      BY <1>5, <2>1, <3>1 DEF Framed
  <2>3. ASSUME NEW i \in DOMAIN v, i > k, i # k + 1 PROVE F(v, i)
    <3>1. i - 1 \in DOMAIN v /\ i - 1 > k /\ i \in Nat /\ i # 1
      BY <1>1, <1>5, <2>3
    <3>2. v[i] = [response |-> b, part |-> s + (i - k)] /\ i - k \in 1..n
      BY <1>7, <2>3
    <3>3. v[i-1] = [response |-> b, part |-> s + ((i-1) - k)]
      BY <1>7, <3>1
    <3>4. s + ((i-1) - k) + 1 = s + (i - k) /\ s + ((i-1) - k) # RESPONSE_LENGTH
      <4>1. k \in Nat /\ i \in Nat /\ i - k <= n
        BY <1>5, <3>1, <3>2
      <4> QED
        BY <1>1, <4>1
    <3> QED
      BY <3>1, <3>2, <3>3, <3>4
  <2>4. F(v, k + 1)
    <3>1. v[k + 1] = [response |-> b, part |-> s + 1]
      BY <1>1, <1>6
    <3>2. k # 0 => w # <<>> /\ v[(k + 1) - 1] = w[k]
      BY <1>5
    <3>3. CASE s = 0
      <4>1. b = Serialize(c)
        <5>1. c.responseBuffer.status = 0
          BY <1>1, <1>12, <3>3 DEF Writing, s
        <5> QED
          BY <5>1 DEF b, Buffered
      <4>2. k # 0 => w[k].part = RESPONSE_LENGTH /\ w[k].response.to < b.to
        BY <1>3, <1>12, <3>2, <3>3, <4>1 DEF SentInv, s, k
      <4>3. v[k + 1].part = 1 /\ v[k + 1].response = b
        BY <3>1, <3>3
      <4>4. k + 1 = 1 \/ k # 0
        BY <1>5
      <4> QED
        BY <1>5, <3>2, <4>2, <4>3, <4>4
    <3>4. CASE s # 0
      <4>1. b = c.responseBuffer
        BY <1>1, <1>3, <3>4 DEF Writing, s
      <4>2. w # <<>> /\ w[k] = [response |-> b, part |-> s]
        BY <1>12, <3>4, <4>1 DEF SentInv, s, k
      <4>3. s # RESPONSE_LENGTH /\ k + 1 # 1
        BY <1>1, <1>5, <4>2
      <4>4. v[(k + 1) - 1] = [response |-> b, part |-> s]
        BY <1>5, <3>2, <4>2
      <4> QED
        BY <3>1, <4>3, <4>4
    <3> QED
      BY <3>3, <3>4
  <2>5. ASSUME NEW i \in DOMAIN v PROVE F(v, i)
    BY <1>8, <2>2, <2>3, <2>4
  <2> QED
    BY <2>5 DEF Framed
<1> QED
  BY <1>9, <1>10, <1>11, <1>12 DEF d, v, parts

\* A response that is partly sent: the object is where it was.
LEMMA UnfinishedInv ==
    ASSUME NEW c, WellFormed(c), NEW n \in 1..RESPONSE_LENGTH, NEW l, NEW h, NEW w, NEW v,
           RefusedStage(c, l) \/ AnsweredStage(c, l), ClientInv(c, l, h, w),
           SentInv(Send(c, n), l, v), ClosingInv(Send(c, n), v), Send(c, n).responseSent > 0,
           Unfinished(Send(c, n))
    PROVE  Stages(Send(c, n), l) /\ ClientInv(Send(c, n), l, h, v)
<1> DEFINE d == Send(c, n)
           b == Buffered(c)
<1>1. d.responseBuffer = b /\ Differs(c, d, {"responseBuffer", "responseSent"})
  <2>1. n \in Nat
    BY SizesAssumption
  <2> QED
    BY <2>1, SendFields
<1>2. Writing(c, l)
  BY DEF RefusedStage, AnsweredStage
<1>3. /\ b.status # 0
      /\ b = Serialize(c) \/ c.response.status = 405
  BY <1>2, BufferedIs
<1> HIDE DEF b
<1>4. Unfinished(d) /\ d.responseSent > 0 /\ SentInv(d, l, v) /\ ClosingInv(d, v)
  OBVIOUS
<1> HIDE DEF d
<1>5. /\ d.base = c.base /\ d.readOffset = c.readOffset /\ d.got = c.got
      /\ d.state = c.state /\ d.headerState = c.headerState /\ d.request = c.request
      /\ d.response = c.response /\ d.conf = c.conf
      /\ d.headerEnd = c.headerEnd /\ d.lastBodyLength = c.lastBodyLength
  BY <1>1 DEF Differs, Fields
<1>6. ReadPosition(d) = ReadPosition(c) /\ Serialize(d) = Serialize(c)
  BY <1>5 DEF ReadPosition, Serialize
<1>7. Writing(d, l)
  BY <1>1, <1>2, <1>3, <1>4, <1>5, <1>6 DEF Writing, Unfinished
<1>8. Stages(d, l)
  <2>1. CASE RefusedStage(c, l)
    BY <1>5, <1>7, <2>1 DEF RefusedStage, Disconnects, Stages
  <2>2. CASE AnsweredStage(c, l)
    <3>1. HeaderRead(d) /\ BodyTaken(d, l)
      BY <1>5, <1>6, <2>2 DEF AnsweredStage, HeaderRead, BodyTaken
    <3> QED
      BY <1>5, <1>7, <2>2, <3>1 DEF AnsweredStage, Stages
  <2> QED
    BY <2>1, <2>2
<1>9. PlaceInv(d, l) /\ RefusalInv(d, l)
  BY <1>5, <1>6 DEF ClientInv, PlaceInv, RefusalInv
<1>10. OrderInv(d, h)
  BY <1>5, <1>6 DEF ClientInv, OrderInv
<1> QED
  BY <1>4, <1>8, <1>9, <1>10 DEF ClientInv, d

\* The last byte of a response that keeps the connection is sent: the object
\* is between requests, behind what it has just answered.
LEMMA FinishedInv ==
    ASSUME input \in Seq(Request), Row, NEW c, WellFormed(c), NEW n \in 1..RESPONSE_LENGTH,
           NEW l, NEW m, NEW h, NEW w, NEW v, l \subseteq m,
           RefusedStage(c, l) \/ AnsweredStage(c, l), ClientInv(c, l, h, w),
           SentInv(Send(c, n), l, v), ClosingInv(Send(c, n), v),
           Send(c, n).responseSent = RESPONSE_LENGTH, ~Disconnects(Send(c, n)),
           c.response.status = 413 /\ c.got < EndOf(c.request) => "early413" \in m,
           \A i \in DOMAIN h : h[i].request \in Request
    PROVE  LET e == ResetForNextRequest(Send(c, n))
           IN  ReadingStage(e) /\ ClientInv(e, m, h, v)
<1> DEFINE d == Send(c, n)
           e == ResetForNextRequest(d)
           b == Buffered(c)
           q == c.request
           p == BodyStart(q) + c.lastBodyLength
<1>1. n \in Nat /\ RESPONSE_LENGTH \in Nat \ {0}
  BY SizesAssumption
<1>2. d.responseBuffer = b /\ Differs(c, d, {"responseBuffer", "responseSent"}) /\ WellFormed(d)
  BY <1>1, SendFields, SendKeeps DEF Keeps
<1>3. /\ d.responseSent = RESPONSE_LENGTH /\ ~Disconnects(d)
      /\ SentInv(d, l, v) /\ ClosingInv(d, v)
  OBVIOUS
<1> HIDE DEF d
<1>4. /\ d.base = c.base /\ d.readOffset = c.readOffset /\ d.got = c.got
      /\ d.state = c.state /\ d.headerState = c.headerState /\ d.request = c.request
      /\ d.response = c.response /\ d.conf = c.conf
      /\ d.headerEnd = c.headerEnd /\ d.lastBodyLength = c.lastBodyLength
  BY <1>2 DEF Differs, Fields
<1>5. AnsweredStage(c, l) /\ ~Disconnects(c)
  BY <1>3, <1>4 DEF RefusedStage, Disconnects
<1>6. Writing(c, l) /\ HeaderRead(c) /\ BodyTaken(c, l)
  BY <1>5 DEF AnsweredStage
<1>7. /\ b.to = ReadPosition(c) /\ ~Final(b)
  <2>1. /\ b = Serialize(c) \/ c.response.status = 405
        /\ Serialize(c).status = c.response.status /\ Serialize(c).to = c.response.to
        /\ Serialize(c).asked = c.request.keep
        /\ Serialize(c).own = "none" => Serialize(c).keep = c.request.keep
    BY <1>6, BufferedIs
  <2> HIDE DEF b
  <2>2. b = Serialize(c)
    BY <1>5, <2>1 DEF Disconnects, Fatal
  <2>3. b.to = ReadPosition(c)
    BY <1>6, <2>1, <2>2 DEF Writing
  <2> QED
    BY <1>5, <2>1, <2>2, <2>3 DEF Final, Disconnects
<1>8. /\ q.at \in Nat /\ q.body \in Nat /\ BodyStart(q) \in Nat /\ EndOf(q) \in Nat
      /\ EndOf(q) = BodyStart(q) + q.body /\ q.at < BodyStart(q) /\ EndOf(q) \in Boundaries
  BY <1>6, RequestOfHeader
<1>9. q.at = ReadPosition(c) /\ c.base + c.headerEnd = BodyStart(q) /\ BodyStart(q) <= c.got
  BY <1>6 DEF HeaderRead
<1>10. /\ c.base \in Nat /\ c.readOffset \in Nat /\ c.headerEnd \in Nat /\ c.got \in Nat
       /\ c.lastBodyLength \in Nat
  BY ClientFields DEF WellFormed
<1>11. d.headerEnd > d.readOffset
  BY <1>4, <1>8, <1>9, <1>10 DEF ReadPosition
<1>12. /\ ReadingStage(e) /\ e.got = c.got
       /\ IF p <= c.got THEN ReadPosition(e) = p ELSE ReadPosition(e) \in {p, c.got}
  <2>1. /\ ReadingStage(e) /\ e.got = d.got
        /\ LET r == d.base + d.headerEnd + d.lastBodyLength
           IN  IF r <= d.got THEN ReadPosition(e) = r ELSE ReadPosition(e) \in {r, d.got}
    BY <1>2, <1>11, ResetPosition
  <2> QED
    BY <1>4, <1>9, <2>1
<1> HIDE DEF e, b, q
<1>13. p \in Nat /\ p >= BodyStart(q)
  BY <1>8, <1>10
<1>14. /\ c.lastBodyLength >= q.body
       /\ "outOfWindow" \notin l => c.lastBodyLength = q.body
       /\ p <= c.got \/ (c.response.status = 413 /\ c.headerState # "REQUEST_COMPLETE"
                          /\ c.lastBodyLength = q.body)
  BY <1>6 DEF BodyTaken, q
<1>15. "early413" \notin m => p <= c.got
  <2> SUFFICES ASSUME "early413" \notin m, ~(p <= c.got) PROVE FALSE
    OBVIOUS
  <2>1. c.response.status = 413 /\ p = EndOf(q)
    BY <1>8, <1>14
  <2>2. c.got < EndOf(q)
    BY <1>8, <1>10, <2>1
  <2> QED
    BY <2>1, <2>2 DEF q
<1>16. ReadPosition(e) \in Nat /\ ReadPosition(e) >= BodyStart(q)
  BY <1>8, <1>9, <1>10, <1>12, <1>13
<1>17. p <= c.got => ReadPosition(e) = p
  BY <1>12
<1> HIDE DEF p
<1>18. PlaceInv(e, m)
  <2>1. "early413" \notin m => ReadPosition(e) <= e.got
    BY <1>12, <1>15, <1>17
  <2>2. ASSUME m \cap {"early413", "outOfWindow"} = {} PROVE ReadPosition(e) \in Boundaries
    <3>1. "early413" \notin m /\ "outOfWindow" \notin l
      BY <2>2
    <3>2. p = EndOf(q)
      BY <1>8, <1>14, <3>1 DEF p
    <3> QED
      BY <1>8, <1>15, <1>17, <3>1, <3>2
  <2> QED
    BY <2>1, <2>2 DEF PlaceInv
<1>19. RefusalInv(e, m)
  BY <1>12 DEF ReadingStage, Unanswered, NewResponse, NoResponse, RefusalInv
<1>20. OrderInv(e, h)
  <2>1. ASSUME NEW i \in DOMAIN h PROVE EndOf(h[i].request) <= ReadPosition(e)
    <3>1. CASE EndOf(h[i].request) <= ReadPosition(c)
      <4>1. EndOf(h[i].request) \in Nat
        BY RequestFields DEF EndOf
      <4> QED
        BY <1>8, <1>9, <1>16, <3>1, <4>1
    <3>2. CASE c.headerState = "REQUEST_COMPLETE" /\ h[i].request = q
      <4>1. p <= c.got /\ p >= EndOf(q)
        BY <1>8, <1>10, <1>14, <3>2 DEF p
      <4> QED
        BY <1>17, <3>2, <4>1
    <3> QED
      BY <3>1, <3>2 DEF ClientInv, OrderInv, q
  <2> QED
    BY <2>1 DEF OrderInv
<1>21. SentInv(e, m, v)
  <2>1. e.responseSent = 0
    BY <1>12 DEF ReadingStage, Unanswered
  <2>2. ASSUME "replaced" \notin m
        PROVE  /\ v[Len(v)].part = RESPONSE_LENGTH
               /\ v[Len(v)].response.to < ReadPosition(e)
    <3>1. v[Len(v)] = [response |-> b, part |-> RESPONSE_LENGTH]
      BY <1>1, <1>2, <1>3, <2>2 DEF SentInv
    <3>2. b.to < ReadPosition(e)
      BY <1>7, <1>8, <1>9, <1>16
    <3> QED
      BY <3>1, <3>2
  <2> QED
    BY <2>1, <2>2 DEF SentInv
<1>22. ClosingInv(e, v)
  BY <1>2, <1>3, <1>7 DEF ClosingInv
<1> QED
  BY <1>12, <1>18, <1>19, <1>20, <1>21, <1>22 DEF ClientInv, e, d

-----------------------------------------------------------------------------
(***************************************************************************)
(* The invariant is inductive.                                             *)
(***************************************************************************)
\* While the stream stays, what was said of the next object holds next.
LEMMA StreamStays ==
    ASSUME input' = input, Stages(client', lapses'),
           ClientInv(client', lapses', handled', wire')
    PROVE  Stages(client, lapses)' /\ ClientInv(client, lapses, handled, wire)'
<1>1. Boundaries' = Boundaries
  BY DEF Boundaries
<1>2. HeaderRead(client') => HeaderRead(client)'
  BY DEF HeaderRead
<1>3. Stages(client, lapses)'
  BY <1>2 DEF Stages, ReadingStage, BodyStage, RefusedStage, AnsweredStage
<1>4. ClientInv(client, lapses, handled, wire)'
  BY <1>1 DEF ClientInv, PlaceInv
<1> QED
  BY <1>3, <1>4

\* What the peer does not touch.
LEMMA StreamInvStays ==
    ASSUME StreamInv, UNCHANGED <<input, sent>>
    PROVE  StreamInv'
BY DEF StreamInv, Row, StreamEnd

\* An object that nothing happens to.
LEMMA NothingHappens ==
    ASSUME Inv, UNCHANGED <<input, sent, client, open, writable, wire, handled, lapses>>,
           ev' \subseteq ev \/ (open /\ ev' \subseteq Events)
    PROVE  Inv'
<1>1. StreamInv'
  BY StreamInvStays DEF Inv
<1>2. open' => Stages(client, lapses)' /\ ClientInv(client, lapses, handled, wire)'
  BY StreamStays DEF Inv
<1>3. BodyWhole' /\ HandledInOrder' /\ WireFramed' /\ CloseHonoured'
  BY DEF Inv, BodyWhole, HandledInOrder, WireFramed, CloseHonoured
<1>4. GoneInv'
  BY DEF Inv, GoneInv
<1> QED
  BY <1>1, <1>2, <1>3, <1>4 DEF Inv

\* Server::cleanupClient.
LEMMA CleanupInv ==
    ASSUME Inv, Cleanup, UNCHANGED <<input, sent, handled>>, ev' \subseteq {"OUT", "RDHUP"},
           WireFramed', CloseHonoured'
    PROVE  Inv'
<1>1. StreamInv'
  BY StreamInvStays DEF Inv
<1>2. BodyWhole' /\ HandledInOrder'
  BY DEF Inv, BodyWhole, HandledInOrder
<1>3. open' = FALSE /\ GoneInv'
  BY DEF Cleanup, GoneInv
<1> QED
  BY <1>1, <1>2, <1>3 DEF Inv

\* An accepted connection.
LEMMA InitInv == Init => Inv
<1> SUFFICES ASSUME Init PROVE Inv
  OBVIOUS
<1>1. StreamInv
  BY DEF Init, StreamInv, Row, StreamEnd
<1>2. /\ client.state = "READING_REQUEST" /\ client.headerState = "HEADER_INCOMPLETE"
      /\ client.request = Fresh /\ client.response = NoResponse
      /\ client.responseBuffer = NoResponse /\ client.responseSent = 0
      /\ client.headerEnd = 0 /\ client.lastBodyLength = 0 /\ client.conf = FALSE
      /\ client.base = 0 /\ client.readOffset = 0 /\ client.got = 0
  BY DEF Init, NewClient
<1>3. ReadPosition(client) = 0 /\ NoResponse.status = 0
  BY <1>2 DEF ReadPosition, NewResponse, NoResponse
<1>4. ReadingStage(client)
  BY <1>2 DEF ReadingStage, Unanswered
<1>5. handled = <<>> /\ wire = <<>> /\ open
  BY DEF Init
<1>6. PlaceInv(client, lapses) /\ RefusalInv(client, lapses)
  BY <1>2, <1>3 DEF PlaceInv, RefusalInv, Boundaries
<1>7. OrderInv(client, handled) /\ SentInv(client, lapses, wire) /\ ClosingInv(client, wire)
  BY <1>2, <1>5 DEF OrderInv, SentInv, ClosingInv
<1>8. BodyWhole /\ HandledInOrder /\ WireFramed /\ CloseHonoured
  BY <1>5 DEF BodyWhole, HandledInOrder, WireFramed, CloseHonoured
<1>9. GoneInv
  BY <1>5 DEF GoneInv
<1> QED
  BY <1>1, <1>4, <1>6, <1>7, <1>8, <1>9 DEF Inv, ClientInv, Stages

\* The peer decides to send one more request: the row grows at its end.
LEMMA ComposeInv ==
    ASSUME TypeOK, Inv, NEW q \in Shapes, Compose(q)
    PROVE  Inv'
<1> DEFINE r == [q EXCEPT !.at = StreamEnd]
           n == Len(input)
<1>1. /\ input \in Seq(Request) /\ Row /\ sent \in Nat /\ sent <= StreamEnd
      /\ StreamEnd \in Nat
  BY StreamEndType DEF TypeOK, Inv, StreamInv
<1>2. q \in Request /\ q.hdr > 0 /\ (q.chunked => q.body > 0)
  BY LoopAssumption
<1>3. /\ r \in Request /\ r.at = StreamEnd /\ r.hdr = q.hdr /\ r.body = q.body
      /\ r.chunked = q.chunked
  BY <1>1, <1>2 DEF Request
<1>4. input' = Append(input, r) /\ n \in Nat /\ DOMAIN input = 1..n
  BY <1>1 DEF Compose
<1> HIDE DEF r
<1>5. /\ input' \in Seq(Request) /\ DOMAIN input' = 1..(n + 1) /\ Len(input') = n + 1
      /\ input'[n + 1] = r /\ \A i \in 1..n : input'[i] = input[i]
  BY <1>1, <1>3, <1>4
<1>6. EndOf(r) \in Nat /\ StreamEnd <= EndOf(r)
  <2>1. r.at \in Nat /\ r.hdr \in Nat /\ r.body \in Nat
    BY <1>3, RequestFields
  <2> QED
    BY <1>3, <2>1 DEF EndOf
<1>7. n # 0 => StreamEnd = EndOf(input[n])
  BY <1>1, <1>4 DEF StreamEnd
<1>8. n = 0 => StreamEnd = 0
  BY <1>1, <1>4 DEF StreamEnd
<1>9. Row'
  <2>1. ASSUME NEW i \in DOMAIN input'
        PROVE  /\ input'[i].hdr > 0 /\ (input'[i].chunked => input'[i].body > 0)
    <3>1. CASE i \in 1..n
      BY <1>1, <1>4, <1>5, <3>1 DEF Row
    <3>2. CASE i = n + 1
      BY <1>2, <1>3, <1>5, <3>2
    <3> QED
      BY <1>4, <1>5, <3>1, <3>2
  <2>2. ASSUME NEW i \in DOMAIN input', NEW j \in DOMAIN input', i < j
        PROVE  EndOf(input'[i]) <= input'[j].at
    <3>1. i \in 1..n
      BY <1>4, <1>5, <2>2
    <3>2. CASE j \in 1..n
      BY <1>1, <1>4, <1>5, <2>2, <3>1, <3>2 DEF Row
    <3>3. CASE j = n + 1
      <4>1. EndOf(input[i]) <= StreamEnd
        BY <1>1, <1>4, <3>1, WithinStream
      <4> QED
        BY <1>3, <1>5, <3>1, <3>3, <4>1
    <3> QED
      BY <1>4, <1>5, <3>2, <3>3
  <2>3. ASSUME NEW i \in DOMAIN input'
        PROVE  input'[i].at = IF i = 1 THEN 0 ELSE EndOf(input'[i-1])
    <3>1. CASE i \in 1..n
      <4>1. i # 1 => i - 1 \in 1..n
        BY <1>4, <3>1
      <4> QED
        BY <1>1, <1>4, <1>5, <3>1, <4>1 DEF Row
    <3>2. CASE i = n + 1
      <4>1. i # 1 => n # 0 /\ i - 1 = n /\ n \in 1..n
        BY <1>4, <3>2
      <4>2. i = 1 => n = 0
        BY <1>4, <3>2
      <4> QED
        BY <1>3, <1>5, <1>7, <1>8, <3>2, <4>1, <4>2
    <3> QED
      BY <1>4, <1>5, <3>1, <3>2
  <2> QED
    BY <2>1, <2>2, <2>3 DEF Row
<1>10. StreamInv'
  <2>1. StreamEnd' = EndOf(r)
    BY <1>4, <1>5 DEF StreamEnd
  <2>2. sent' <= StreamEnd'
    BY <1>1, <1>6, <2>1 DEF Compose
  <2> QED
    BY <1>9, <2>2 DEF StreamInv
<1>11. \A x : (\E i \in DOMAIN input : input[i] = x) => (\E i \in DOMAIN input' : input'[i] = x)
  BY <1>4, <1>5
<1>12. Boundaries \subseteq Boundaries'
  BY <1>4, <1>5 DEF Boundaries
<1>13. UNCHANGED <<client, open, writable, ev, wire, handled, lapses>>
  BY DEF Compose, loopVars, historyVars
<1>14. open' => Stages(client, lapses)'
  <2>1. HeaderRead(client) => HeaderRead(client)'
    BY <1>11, <1>13 DEF HeaderRead
  <2> QED
    BY <1>13, <2>1 DEF Inv, Stages, ReadingStage, BodyStage, RefusedStage, AnsweredStage
<1>15. open' => ClientInv(client, lapses, handled, wire)'
  <2>1. PlaceInv(client, lapses) => PlaceInv(client, lapses)'
    BY <1>12, <1>13 DEF PlaceInv
  <2> QED
    BY <1>13, <2>1 DEF Inv, ClientInv
<1>16. BodyWhole'
  BY <1>11, <1>13 DEF Inv, BodyWhole
<1>17. HandledInOrder' /\ WireFramed' /\ CloseHonoured' /\ GoneInv'
  BY <1>13 DEF Inv, HandledInOrder, WireFramed, CloseHonoured, GoneInv
<1> QED
  BY <1>10, <1>14, <1>15, <1>16, <1>17 DEF Inv

\* Server::handleClientData, and the branches where recv returns 0 or fails.
LEMMA OnReadableInv ==
    ASSUME TypeOK, Inv, OnReadable
    PROVE  Inv'
<1>1. /\ UNCHANGED <<input, sent, peer, pc, wire>> /\ "ERR" \notin ev /\ "IN" \in ev
      /\ ev' = ev \ {"IN"}
  BY DEF OnReadable, peerVars
<1>2. open
  BY <1>1 DEF Inv, GoneInv
<1>3. CASE Cleanup /\ UNCHANGED <<idle, handled, lapses>>
  <2>1. ev' \subseteq {"OUT", "RDHUP"}
    BY <1>1 DEF TypeOK, Events
  <2>2. WireFramed' /\ CloseHonoured'
    BY <1>1, <1>3 DEF Inv, WireFramed, CloseHonoured
  <2> QED
    BY <1>1, <1>3, <2>1, <2>2, CleanupInv
<1>4. ASSUME client.got < sent,
             HandleClientData(IF sent - client.got > BUFFER_SIZE
                              THEN BUFFER_SIZE ELSE sent - client.got)
      PROVE  Inv'
  <2> DEFINE n == IF sent - client.got > BUFFER_SIZE THEN BUFFER_SIZE ELSE sent - client.got
  <2>1. n \in Nat
    BY <1>4, LoopAssumption, ClientFields DEF TypeOK
  <2>2. HandleClientData(n)
    BY <1>4
  <2> HIDE DEF n
  <2>3. /\ Stages(client', lapses') /\ ClientInv(client', lapses', handled', wire)
        /\ BodyWhole' /\ HandledInOrder' /\ WireFramed' /\ CloseHonoured'
    BY <1>1, <1>2, <2>1, <2>2, HandleClientDataInv
  <2>4. Stages(client, lapses)' /\ ClientInv(client, lapses, handled, wire)'
    BY <1>1, <2>3, StreamStays
  <2>5. StreamInv'
    BY <1>1, StreamInvStays DEF Inv
  <2>6. open'
    BY <1>2, <2>2 DEF HandleClientData
  <2> QED
    BY <2>3, <2>4, <2>5, <2>6 DEF Inv, GoneInv
<1> QED
  BY <1>3, <1>4 DEF OnReadable

\* Server::onWritable.
LEMMA OnWritableInv ==
    ASSUME TypeOK, Inv, NEW n \in 0..RESPONSE_LENGTH, OnWritable(n)
    PROVE  Inv'
<1> DEFINE c == client
           d == Send(client, n)
           after == HandleWrite(client, n)
           lost == client.response.status = 413 /\ after.state = "READING_REQUEST"
                     /\ client.got < EndOf(client.request)
           v == wire \o Parts(client, n)
           P == [response : Response, part : Nat]
<1>1. /\ UNCHANGED <<input, sent, peer, pc, handled>> /\ ev' \subseteq {"OUT", "RDHUP"}
      /\ wire' = v /\ n <= RESPONSE_LENGTH - c.responseSent
      /\ lapses' = lapses \cup (IF lost THEN {"early413"} ELSE {})
      /\ (n = 0) = (peer = "reset" \/ ~NeedsWriteEvent(c))
      /\ IF after.state = "DISCONNECTED" THEN Cleanup
         ELSE client' = after /\ writable' = (writable /\ NeedsWriteEvent(after)) /\ open' = open
  BY DEF OnWritable, peerVars, TypeOK, Events, Parts
<1>2. input \in Seq(Request) /\ Row /\ WellFormed(c) /\ wire \in Seq(P)
  BY DEF TypeOK, Inv, StreamInv, WellFormed
<1>3. StreamInv' /\ BodyWhole' /\ HandledInOrder'
  <2>1. StreamInv'
    BY <1>1, StreamInvStays DEF Inv
  <2>2. BodyWhole'
    BY <1>1 DEF Inv, BodyWhole
  <2>3. HandledInOrder'
    BY <1>1 DEF Inv, HandledInOrder
  <2> QED
    BY <2>1, <2>2, <2>3
<1>4. n = 0 => v = wire
  <2>1. ASSUME n = 0 PROVE Parts(c, n) = <<>>
    <3>1. Parts(c, n) = [i \in 1..0 |-> [response |-> Buffered(c), part |-> c.responseSent + i]]
      BY <2>1 DEF Parts
    <3>2. 1..0 = {}
      OBVIOUS
    <3> QED
      BY <3>1, <3>2
  <2>2. wire \o <<>> = wire
    <3> HIDE DEF P
    <3> QED
      BY <1>2
  <2> QED
    BY <2>1, <2>2
<1>5. lapses \subseteq lapses'
  <2> HIDE DEF lost
  <2> QED
    BY <1>1
<1> HIDE DEF v
<1>6. ASSUME n = 0
      PROVE  WireFramed' /\ CloseHonoured'
  <2>1. wire' = wire
    BY <1>1, <1>4, <1>6
  <2>2. WireFramed'
    BY <1>5, <2>1 DEF Inv, WireFramed
  <2>3. CloseHonoured'
    BY <2>1 DEF Inv, CloseHonoured
  <2> QED
    BY <2>2, <2>3
<1>7. CASE ~NeedsWriteEvent(c)
  <2>1. after = c
    BY <1>7 DEF HandleWrite
  <2>2. n = 0 /\ wire' = wire
    BY <1>1, <1>4, <1>7
  <2>3. /\ open => ReadingStage(c) \/ BodyStage(c)
        /\ c.response.status # 413 /\ c.state # "DISCONNECTED"
    <3>1. CASE open
      <4>1. ReadingStage(c) \/ BodyStage(c)
        BY <1>7, <3>1 DEF Inv, Stages, RefusedStage, AnsweredStage, Writing, NeedsWriteEvent
      <4> QED
        BY <4>1 DEF ReadingStage, BodyStage, Unanswered, NewResponse, NoResponse
    <3>2. CASE ~open
      <4>1. c = NewClient
        BY <3>2 DEF Inv, GoneInv
      <4> QED
        BY <3>2, <4>1 DEF NewClient, NewResponse, NoResponse
    <3> QED
      BY <3>1, <3>2
  <2>4. lapses' = lapses
    BY <1>1, <2>3
  <2>5. client' = client /\ open' = open
    BY <1>1, <2>1, <2>3
  <2>6. open' => Stages(client, lapses)' /\ ClientInv(client, lapses, handled, wire)'
    BY <1>1, <2>2, <2>4, <2>5, StreamStays DEF Inv
  <2>7. GoneInv'
    BY <1>1, <2>1, <2>3, <2>5 DEF Inv, GoneInv
  <2> QED
    BY <1>3, <1>6, <2>2, <2>6, <2>7 DEF Inv
<1>8. CASE NeedsWriteEvent(c) /\ n = 0
  <2>1. after = [d EXCEPT !.state = "DISCONNECTED"]
    BY <1>8 DEF HandleWrite
  <2>2. after.state = "DISCONNECTED"
    <3>1. d \in ClientType
      BY <1>2, <1>8, SendKeeps DEF Keeps, WellFormed
    <3> HIDE DEF d
    <3> QED
      BY <2>1, <3>1 DEF ClientType
  <2> QED
    BY <1>1, <1>6, <1>8, <2>2, CleanupInv
<1>9. CASE NeedsWriteEvent(c) /\ n # 0
  <2>1. open /\ (RefusedStage(c, lapses) \/ AnsweredStage(c, lapses)) /\ Writing(c, lapses)
        /\ ClientInv(c, lapses, handled, wire)
    <3>1. open
      <4>1. NewClient.state # "WRITING_RESPONSE"
        BY DEF NewClient
      <4> QED
        BY <1>9, <4>1 DEF Inv, GoneInv, NeedsWriteEvent
    <3>2. RefusedStage(c, lapses) \/ AnsweredStage(c, lapses)
      BY <1>9, <3>1 DEF Inv, Stages, ReadingStage, BodyStage, NeedsWriteEvent
    <3> QED
      BY <3>1, <3>2 DEF Inv, RefusedStage, AnsweredStage
  <2>2. n \in 1..RESPONSE_LENGTH /\ n \in Nat
    BY <1>9, SizesAssumption
  <2>3. /\ d.responseSent > 0 /\ SentInv(d, lapses, v) /\ ClosingInv(d, v)
        /\ "replaced" \notin lapses => Framed(v)
    <3>1. SentInv(c, lapses, wire) /\ ClosingInv(c, wire)
      BY <2>1 DEF ClientInv
    <3>2. "replaced" \notin lapses => Framed(wire)
      BY DEF Inv, WireFramed, Framed
    <3> QED
      BY <1>1, <1>2, <2>1, <2>2, <3>1, <3>2, SendInv DEF v
  <2>4. WireFramed'
    <3>1. "replaced" \notin lapses' => Framed(wire')
      BY <1>1, <1>5, <2>3
    <3> QED
      BY <3>1 DEF WireFramed, Framed
  <2>5. CloseHonoured'
    <3>1. ASSUME NEW i \in DOMAIN v, NEW j \in DOMAIN v, i < j, Final(v[i].response)
          PROVE  v[j].response = v[i].response
      <4>1. d.responseBuffer.status # 0 /\ v[i].response = d.responseBuffer
        BY <2>3, <3>1 DEF ClosingInv
      <4> DEFINE parts == Parts(c, n)
      <4>2. /\ parts \in Seq(P) /\ Len(parts) = n
            /\ \A k \in 1..n : parts[k].response = Buffered(c)
        <5>1. Buffered(c) \in Response /\ c.responseSent \in Nat
          BY <1>2, BufferedType, ClientFields DEF WellFormed
        <5>2. \A k \in 1..n : [response |-> Buffered(c), part |-> c.responseSent + k] \in P
          BY <2>2, <5>1
        <5> HIDE DEF P
        <5>3. parts \in [1..n -> P]
          BY <5>2 DEF Parts
        <5>4. parts \in Seq(P) /\ Len(parts) = n
          BY <2>2, <5>3
        <5>5. \A k \in 1..n : parts[k].response = Buffered(c)
          BY DEF Parts
        <5> QED
          BY <5>4, <5>5
      <4> HIDE DEF parts, P
      <4>3. /\ DOMAIN v = 1..(Len(wire) + n) /\ Len(wire) \in Nat
            /\ \A k \in 1..Len(wire) : v[k] = wire[k]
            /\ \A k \in 1..n : v[Len(wire) + k] = parts[k]
        <5>1. v = wire \o parts
          BY DEF v, parts
        <5>2. v \in Seq(P) /\ Len(v) = Len(wire) + n
          BY <1>2, <4>2, <5>1, Concatenation
        <5>3. \A k \in 1..Len(wire) : v[k] = wire[k]
          BY <1>2, <4>2, <5>1, Concatenation
        <5>4. \A k \in 1..n : v[Len(wire) + k] = parts[k]
          BY <1>2, <4>2, <5>1, Concatenation
        <5> QED
          BY <1>2, <5>2, <5>3, <5>4
      <4>4. CASE j \in 1..Len(wire)
        <5>1. i \in DOMAIN wire /\ j \in DOMAIN wire /\ v[i] = wire[i] /\ v[j] = wire[j]
          BY <1>2, <3>1, <4>3, <4>4
        <5> QED
          BY <3>1, <5>1 DEF Inv, CloseHonoured, Final
      <4>5. CASE j \notin 1..Len(wire)
        <5>1. j - Len(wire) \in 1..n /\ Len(wire) + (j - Len(wire)) = j
          BY <2>2, <4>3, <4>5
        <5>2. v[j].response = Buffered(c)
          BY <4>2, <4>3, <5>1
        <5>3. d.responseBuffer = Buffered(c)
          BY <1>2, <2>2, SendFields
        <5> QED
          BY <4>1, <5>2, <5>3
      <4> QED
        BY <4>4, <4>5
    <3> QED
      BY <1>1, <3>1 DEF CloseHonoured, Final
  <2>6. CASE Unfinished(d)
    <3>1. after = d
      BY <1>9, <2>6 DEF HandleWrite
    <3>2. Stages(d, lapses) /\ ClientInv(d, lapses, handled, v)
      BY <1>2, <2>1, <2>2, <2>3, <2>6, UnfinishedInv
    <3>3. d.state = "WRITING_RESPONSE"
      <4>1. Differs(c, d, {"responseBuffer", "responseSent"})
        BY <1>2, <2>2, SendFields
      <4> HIDE DEF d
      <4> QED
        BY <2>1, <4>1 DEF Differs, Fields, Writing
    <3>4. client' = d /\ open' = open /\ lapses' = lapses
      BY <1>1, <3>1, <3>3
    <3>5. Stages(client, lapses)' /\ ClientInv(client, lapses, handled, wire)'
      BY <1>1, <3>2, <3>4, StreamStays
    <3>6. open'
      BY <2>1, <3>4
    <3> QED
      BY <1>3, <2>4, <2>5, <3>5, <3>6 DEF Inv, GoneInv
  <2>7. CASE ~Unfinished(d) /\ Disconnects(d)
    <3>1. after = [d EXCEPT !.state = "DISCONNECTED"]
      BY <1>9, <2>7 DEF HandleWrite
    <3>2. after.state = "DISCONNECTED"
      <4>1. d \in ClientType
        BY <1>2, <2>2, SendKeeps DEF Keeps, WellFormed
      <4> HIDE DEF d
      <4> QED
        BY <3>1, <4>1 DEF ClientType
    <3> QED
      BY <1>1, <2>4, <2>5, <3>2, CleanupInv
  <2>8. CASE ~Unfinished(d) /\ ~Disconnects(d)
    <3>1. after = ResetForNextRequest(d)
      BY <1>9, <2>8 DEF HandleWrite
    <3>2. d.responseSent = RESPONSE_LENGTH
      <4>1. d.responseSent = c.responseSent + n
        BY <1>2, <2>2, SendFields
      <4>2. c.responseSent \in Nat /\ RESPONSE_LENGTH \in Nat
        BY <1>2, ClientFields, SizesAssumption DEF WellFormed
      <4> HIDE DEF d
      <4> QED
        BY <1>1, <2>2, <2>8, <4>1, <4>2 DEF Unfinished
    <3>3. after.state = "READING_REQUEST"
      BY <3>1 DEF ResetForNextRequest, NewClient
    <3>4. c.response.status = 413 /\ c.got < EndOf(c.request) => "early413" \in lapses'
      BY <1>1, <3>3
    <3>5. \A i \in DOMAIN handled : handled[i].request \in Request
      <4> DEFINE Given == [request : Request, from : Nat, raw : Nat, got : Nat]
      <4>1. handled \in Seq(Given)
        BY DEF TypeOK
      <4>2. \A h \in Given : h.request \in Request
        OBVIOUS
      <4> HIDE DEF Given
      <4>3. \A i \in DOMAIN handled : handled[i] \in Given
        BY <4>1
      <4> QED
        BY <4>2, <4>3
    <3>6. ReadingStage(after) /\ ClientInv(after, lapses', handled, v)
      BY <1>2, <1>5, <2>1, <2>2, <2>3, <2>8, <3>1, <3>2, <3>4, <3>5, FinishedInv
    <3>7. client' = after /\ open' = open
      BY <1>1, <3>3
    <3>8. Stages(client, lapses)' /\ ClientInv(client, lapses, handled, wire)'
      BY <1>1, <3>6, <3>7, StreamStays DEF Stages
    <3>9. open'
      BY <2>1, <3>7
    <3> QED
      BY <1>3, <2>4, <2>5, <3>8, <3>9 DEF Inv, GoneInv
  <2> QED
    BY <2>6, <2>7, <2>8
<1> QED
  BY <1>7, <1>8, <1>9

\* Every step keeps the invariant.
LEMMA InvStep == TypeOK /\ Inv /\ [Next]_vars => Inv'
<1> SUFFICES ASSUME TypeOK, Inv, [Next]_vars PROVE Inv'
  OBVIOUS
<1>1. ASSUME NEW q \in Shapes, Compose(q) PROVE Inv'
  BY <1>1, ComposeInv
<1>2. ASSUME NEW n \in 1..StreamEnd, Deliver(n) PROVE Inv'
  <2>1. UNCHANGED <<input, client, open, writable, ev, wire, handled, lapses>>
    BY <1>2 DEF Deliver, loopVars, historyVars
  <2>2. StreamInv'
    BY <1>2, <2>1 DEF Deliver, Inv, StreamInv, Row, StreamEnd
  <2>3. open' => Stages(client, lapses)' /\ ClientInv(client, lapses, handled, wire)'
    BY <2>1, StreamStays DEF Inv
  <2>4. BodyWhole' /\ HandledInOrder' /\ WireFramed' /\ CloseHonoured' /\ GoneInv'
    BY <2>1 DEF Inv, BodyWhole, HandledInOrder, WireFramed, CloseHonoured, GoneInv
  <2> QED
    BY <2>2, <2>3, <2>4 DEF Inv
<1>3. ASSUME NEW how, HangUp(how) PROVE Inv'
  BY <1>3, NothingHappens DEF HangUp, loopVars, historyVars
<1>4. CASE Elapse
  BY <1>4, NothingHappens DEF Elapse, peerVars, loopVars, historyVars
<1>5. ASSUME NEW canWrite, Poll(canWrite) PROVE Inv'
  BY <1>5, NothingHappens DEF Poll, peerVars, historyVars
<1>6. CASE OnError \/ OnHangup
  <2>1. WireFramed' /\ CloseHonoured'
    BY <1>6 DEF OnError, OnHangup, historyVars, Inv, WireFramed, CloseHonoured
  <2> QED
    BY <1>6, <2>1, CleanupInv DEF OnError, OnHangup, peerVars, historyVars
<1>7. CASE OnReadable
  BY <1>7, OnReadableInv
<1>8. ASSUME NEW n \in 0..RESPONSE_LENGTH, OnWritable(n) PROVE Inv'
  BY <1>8, OnWritableInv
<1>9. CASE OnTick
  <2>1. WireFramed' /\ CloseHonoured' /\ ev' = {} /\ ev = {}
    BY <1>9 DEF OnTick, historyVars, Inv, WireFramed, CloseHonoured
  <2>2. CASE Cleanup
    BY <1>9, <2>1, <2>2, CleanupInv DEF OnTick, peerVars, historyVars
  <2>3. CASE UNCHANGED <<open, writable, client>>
    BY <1>9, <2>1, <2>3, NothingHappens DEF OnTick, peerVars, historyVars
  <2> QED
    BY <1>9, <2>2, <2>3 DEF OnTick
<1>10. CASE UNCHANGED vars
  BY <1>10, NothingHappens DEF vars, peerVars, loopVars, historyVars
<1> QED
  BY <1>1, <1>2, <1>3, <1>4, <1>5, <1>6, <1>7, <1>8, <1>9, <1>10 DEF Next, Peer, Loop

\* The invariant, for every peer, every buffer size and every result.
THEOREM InvCorrect == Spec => []Inv
BY InitInv, InvStep, TypeCorrect, PTL DEF Spec

-----------------------------------------------------------------------------
(***************************************************************************)
(* What it is for.                                                         *)
(***************************************************************************)
\* The parser always stands at the first byte of a request, unless a 413 came
\* too early or a chunked body's end was searched for too late.
THEOREM FramingCorrect == Spec => []Framing
<1>1. Inv => Framing
  BY DEF Inv, ClientInv, PlaceInv, Boundaries, Framing
<1> QED
  BY <1>1, InvCorrect, PTL

\* processRequest is given requests of the peer's, each with its whole body.
THEOREM BodyCorrect == Spec => []BodyWhole
<1>1. Inv => BodyWhole
  BY DEF Inv
<1> QED
  BY <1>1, InvCorrect, PTL

\* Pipelined requests are handled once each, in order.
THEOREM OrderCorrect == Spec => []HandledInOrder
<1>1. Inv => HandledInOrder
  BY DEF Inv
<1> QED
  BY <1>1, InvCorrect, PTL

\* What the peer reads is a sequence of whole responses, unless Step 2 of
\* handleClientData replaced one that was partly sent.
THEOREM WireCorrect == Spec => []WireFramed
<1>1. Inv => WireFramed
  BY DEF Inv
<1> QED
  BY <1>1, InvCorrect, PTL

\* The response that closes the connection is the last one sent.
THEOREM CloseCorrect == Spec => []CloseHonoured
<1>1. Inv => CloseHonoured
  BY DEF Inv
<1> QED
  BY <1>1, InvCorrect, PTL

\* A 431 of the parser's is about the header block being read alone.
THEOREM RefusalCorrect == Spec => []HeaderRefusal
<1>1. Inv => HeaderRefusal
  BY DEF Inv, ClientInv, RefusalInv, HeaderRefusal
<1> QED
  BY <1>1, InvCorrect, PTL

-----------------------------------------------------------------------------
(***************************************************************************)
(* The refinement: what module EventLoop assumes of a client.  Each stage  *)
(* is one phase of ClientPhase, but that an answer may be a refusal of the *)
(* parser's that left the header state inside the body.                    *)
(***************************************************************************)
\* The phase of each stage, and whether it waits to write.
LEMMA StagePhase ==
    ASSUME NEW c, NEW l
    PROVE  /\ ReadingStage(c) => PhaseOf(c) = "reading" /\ ~NeedsWriteEvent(c)
           /\ BodyStage(c) => PhaseOf(c) = "body" /\ ~NeedsWriteEvent(c)
           /\ Writing(c, l) =>
                /\ NeedsWriteEvent(c)
                /\ PhaseOf(c) = IF c.headerState = "BODY_RECEIVING" THEN "refusing" ELSE "writing"
<1>1. ReadingStage(c) => PhaseOf(c) = "reading" /\ ~NeedsWriteEvent(c)
  BY DEF ReadingStage, PhaseOf, NeedsWriteEvent
<1>2. BodyStage(c) => PhaseOf(c) = "body" /\ ~NeedsWriteEvent(c)
  BY DEF BodyStage, PhaseOf, NeedsWriteEvent
<1>3. Writing(c, l) => NeedsWriteEvent(c)
  BY DEF Writing, NeedsWriteEvent
<1> QED
  BY <1>1, <1>2, <1>3 DEF PhaseOf

\* Between two handler calls an object is in one of the phases, and waits in
\* the two that say so.
LEMMA PhaseWaits ==
    ASSUME NEW c, NEW l, Stages(c, l)
    PROVE  /\ PhaseOf(c) \in Abstract!Phases
           /\ NeedsWriteEvent(c) <=> Abstract!Waiting(PhaseOf(c))
<1>1. CASE ReadingStage(c)
  BY <1>1, StagePhase DEF Abstract!Phases, Abstract!Waiting
<1>2. CASE BodyStage(c)
  BY <1>2, StagePhase DEF Abstract!Phases, Abstract!Waiting
<1>3. CASE Writing(c, l)
  BY <1>3, StagePhase DEF Abstract!Phases, Abstract!Waiting
<1> QED
  BY <1>1, <1>2, <1>3 DEF Stages, RefusedStage, AnsweredStage

\* Where handleClientData may leave a client of each phase.
LEMMA AfterReadIs ==
    /\ Abstract!AfterRead["reading"] = {"reading", "body", "writing"}
    /\ Abstract!AfterRead["body"] = {"body", "writing", "refusing"}
    /\ Abstract!AfterRead["writing"] = {"writing"}
    /\ Abstract!AfterRead["refusing"] = {"refusing"}
BY DEF Abstract!AfterRead

\* A request whose header arrives is read on, refused or answered, but never
\* refused with the header state inside its body.
LEMMA ReadingNotRefusing ==
    ASSUME input \in Seq(Request), Row, NEW c, WellFormed(c), ReadingStage(c)
    PROVE  Parsed(c).headerState = "BODY_RECEIVING" => Parsed(c).state = "READING_REQUEST"
<1> DEFINE one == TryParseHeaders(input, c)
<1>1. /\ WellFormed(one)
      /\ one = c \/ HeaderStage(one) \/ RefusedStage(one, Lapses)
  <2>1. "early413" \in Lapses
    BY DEF Lapses
  <2>2. WellFormed(one)
    BY TryParseHeadersKeeps DEF Keeps
  <2> HIDE DEF one
  <2> QED
    BY <2>1, <2>2, TryParseHeadersStages DEF one
<1>2. Step1(c) = one
  BY DEF Step1, ReadingStage
<1> HIDE DEF one
<1>3. CASE one = c \/ RefusedStage(one, Lapses)
  <2>1. ReturnsAfterStep1(c, one) /\ one.headerState # "BODY_RECEIVING"
    BY <1>3 DEF ReadingStage, RefusedStage, Writing, ReturnsAfterStep1
  <2> QED
    BY <1>2, <2>1 DEF Parsed
<1>4. CASE HeaderStage(one)
  <2>1. ~ReturnsAfterStep1(c, one) /\ one.headerState = "HEADER_COMPLETE" /\ ~one.conf
        /\ one.state = "READING_REQUEST" /\ one.responseBuffer.status = 0
    BY <1>4 DEF HeaderStage, ReturnsAfterStep1, Unanswered, NewResponse, NoResponse
  <2>2. CASE NotAllowed(one)
    <3>1. Parsed(c) = Forbids(one)
      BY <1>2, <2>1, <2>2 DEF Parsed, Step2, Forbids
    <3>2. RefusedStage(Forbids(one), Lapses)
      BY <1>1, <2>1, NotAllowedRefuses
    <3> QED
      BY <3>1, <3>2 DEF RefusedStage
  <2>3. CASE ~NotAllowed(one)
    <3> DEFINE two == Step2(one)
    <3>1. WellFormed(two) /\ Differs(one, two, {"conf"})
      BY <1>1, <2>3, AllowedKeeps
    <3> HIDE DEF two
    <3>2. two.state = one.state /\ two.headerState = one.headerState
      BY <3>1 DEF Differs, Fields
    <3>3. Step3(two) = TryParseBody(input, two)
      BY <2>1, <3>2 DEF Step3
    <3>4. Parsed(c) = TryParseBody(input, two)
      BY <1>2, <2>1, <2>3, <3>3 DEF Parsed, two
    <3> QED
      BY <2>1, <3>1, <3>2, <3>4, TryParseBodyFields
  <2> QED
    BY <2>2, <2>3
<1> QED
  BY <1>1, <1>3, <1>4

\* Steps 1 to 3 take a client to a phase that ClientPhase allows, or to a
\* complete request, and that only while it is receiving one.
LEMMA ParsedPhase ==
    ASSUME input \in Seq(Request), Row, NEW c, WellFormed(c),
           NEW k, k \subseteq Lapses, Stages(c, k), RefusalInv(c, k)
    PROVE  LET d == Parsed(c)
           IN  \/ d.state # "PROCESSING_REQUEST"
                  /\ PhaseOf(d) \in Abstract!AfterRead[PhaseOf(c)]
               \/ d.state = "PROCESSING_REQUEST" /\ d.headerState = "REQUEST_COMPLETE"
                  /\ PhaseOf(c) \in {"reading", "body"}
<1> DEFINE d == Parsed(c)
<1>1. {"early413", "outOfWindow", "replaced"} \subseteq Lapses
  BY DEF Lapses
<1>2. ReadingStage(d) \/ BodyStage(d) \/ Writing(d, Lapses) => d.state # "PROCESSING_REQUEST"
  BY DEF ReadingStage, BodyStage, Writing
<1>3. CASE ReadingStage(c)
  <2>1. Stages(d, Lapses) \/ CompleteStage(d, Lapses)
    BY <1>1, <1>3, ReadingParsed
  <2>2. d.headerState = "BODY_RECEIVING" => d.state = "READING_REQUEST"
    BY <1>3, ReadingNotRefusing
  <2> HIDE DEF d
  <2>3. Writing(d, Lapses) => d.headerState # "BODY_RECEIVING"
    BY <2>2 DEF Writing
  <2>4. ReadingStage(d) \/ BodyStage(d) \/ Writing(d, Lapses)
        => PhaseOf(d) \in Abstract!AfterRead[PhaseOf(c)]
    <3>1. PhaseOf(c) = "reading"
      BY <1>3, StagePhase
    <3>2. Abstract!AfterRead[PhaseOf(c)] = {"reading", "body", "writing"}
      BY <3>1, AfterReadIs
    <3> QED
      BY <2>3, <3>2, StagePhase
  <2> QED
    BY <1>2, <1>3, <2>1, <2>4, StagePhase
       DEF d, Stages, RefusedStage, AnsweredStage, CompleteStage
<1>4. CASE BodyStage(c)
  <2>1. BodyStage(d) \/ AnsweredStage(d, Lapses) \/ CompleteStage(d, Lapses)
    BY <1>1, <1>4, BodyParsed
  <2> HIDE DEF d
  <2>2. BodyStage(d) \/ Writing(d, Lapses) => PhaseOf(d) \in Abstract!AfterRead[PhaseOf(c)]
    <3>1. PhaseOf(c) = "body"
      BY <1>4, StagePhase
    <3>2. Abstract!AfterRead[PhaseOf(c)] = {"body", "writing", "refusing"}
      BY <3>1, AfterReadIs
    <3> QED
      BY <3>2, StagePhase
  <2> QED
    BY <1>2, <1>4, <2>1, <2>2, StagePhase DEF d, AnsweredStage, CompleteStage
<1>5. CASE RefusedStage(c, k) \/ AnsweredStage(c, k)
  <2>1. \/ RefusedStage(d, Lapses) /\ d.headerState = c.headerState
        \/ AnsweredStage(d, Lapses) /\ d = c
    BY <1>1, <1>5, WritingParsed
  <2> HIDE DEF d
  <2>2. Writing(c, k) /\ Writing(d, Lapses) /\ d.headerState = c.headerState
    BY <1>5, <2>1 DEF RefusedStage, AnsweredStage
  <2>3. PhaseOf(d) \in Abstract!AfterRead[PhaseOf(c)]
    BY <2>2, StagePhase, AfterReadIs
  <2> QED
    BY <1>2, <2>2, <2>3 DEF d
<1> QED
  BY <1>3, <1>4, <1>5 DEF Stages

\* Server::handleClientData is a Receive of ClientPhase.
LEMMA ReceivePhase ==
    ASSUME TypeOK, Inv, Inv', InterestMatches', open, NEW n \in Nat, HandleClientData(n)
    PROVE  Abstract!Receive
<1> DEFINE c == AppendRawBuffer(client, n)
           d == Parsed(c)
<1>1. /\ input \in Seq(Request) /\ Row /\ WellFormed(client) /\ lapses \subseteq Lapses
      /\ Stages(client, lapses) /\ ClientInv(client, lapses, handled, wire)
  BY DEF TypeOK, Inv, StreamInv, WellFormed
<1>2. /\ WellFormed(c) /\ Differs(client, c, {"got"})
      /\ Stages(c, lapses) /\ RefusalInv(c, lapses)
  <2> HIDE DEF c
  <2> QED
    BY <1>1, ReceivedInv DEF c, ClientInv
<1>3. PhaseOf(c) = PhaseOf(client)
  <2> HIDE DEF c
  <2>1. c.state = client.state /\ c.response = client.response
        /\ c.headerState = client.headerState
    BY <1>2 DEF Differs, Fields
  <2> QED
    BY <2>1 DEF PhaseOf, NeedsWriteEvent
<1>4. /\ WellFormed(d)
      /\ \/ d.state # "PROCESSING_REQUEST"
              /\ PhaseOf(d) \in Abstract!AfterRead[PhaseOf(c)]
         \/ d.state = "PROCESSING_REQUEST" /\ d.headerState = "REQUEST_COMPLETE"
              /\ PhaseOf(c) \in {"reading", "body"}
  <2> HIDE DEF c
  <2> QED
    BY <1>1, <1>2, ParsedPhase, ParsedKeeps DEF Keeps
<1>5. /\ open' = open
      /\ \/ d.state # "PROCESSING_REQUEST" /\ client' = d
         \/ d.state = "PROCESSING_REQUEST" /\ \E status \in Results, own \in ProgramHeaders \cup {"none"} :
               client' = WithConnection(SetResponse(d, status), own)
  BY DEF HandleClientData
<1> HIDE DEF c, d
<1>6. PhaseOf(client') \in Abstract!AfterRead[PhaseOf(client)]
  <2>1. CASE d.state # "PROCESSING_REQUEST"
    BY <1>3, <1>4, <1>5, <2>1
  <2>2. CASE d.state = "PROCESSING_REQUEST"
    <3>1. PICK status \in Results, own \in ProgramHeaders \cup {"none"} :
              client' = WithConnection(SetResponse(d, status), own)
      BY <1>5, <2>2
    <3>2. status \in Nat \ {0}
      BY LoopAssumption
    <3> DEFINE a == Answer(d, status)
               b == SetResponse(d, status)
    <3>0. WellFormed(b) /\ NeedsWriteEvent(b)
      BY <1>4, <3>2, AnswerKeeps, AnswerWaits DEF Keeps
    <3>3. NeedsWriteEvent(client')
      <4> HIDE DEF b
      <4> QED
        BY <3>0, <3>1, ConnectionKeeps DEF b
    <3>4. client'.headerState = d.headerState
      <4>1. Differs(d, a, {"state", "response"}) /\ Differs(a, b, {"responseSent"})
        BY <1>4, <3>2, AnswerFields
      <4>2. Differs(b, client', {"response"})
        BY <3>0, <3>1, ConnectionFields
      <4> HIDE DEF a, b
      <4> QED
        BY <4>1, <4>2 DEF Differs, Fields
    <3>5. PhaseOf(client') = "writing"
      BY <1>4, <2>2, <3>1, <3>3, <3>4 DEF PhaseOf
    <3> QED
      BY <1>3, <1>4, <2>2, <3>5, AfterReadIs
  <2> QED
    BY <2>1, <2>2
<1>7. writable' = Abstract!Waiting(PhaseOf(client)')
  <2>1. open' /\ writable' = NeedsWriteEvent(client')
    BY <1>5 DEF InterestMatches
  <2>2. NeedsWriteEvent(client') <=> Abstract!Waiting(PhaseOf(client'))
    <3>1. Stages(client, lapses)'
      BY <2>1 DEF Inv
    <3>2. PhaseOf(client') \in Abstract!Phases
      <4>1. Abstract!AfterRead[PhaseOf(client)] \subseteq Abstract!Phases
        <5>1. PhaseOf(client) \in Abstract!Phases
          BY <1>1, PhaseWaits
        <5> QED
          BY <5>1, AfterReadIs DEF Abstract!Phases
      <4> QED
        BY <1>6, <4>1
    <3> QED
      BY DEF PhaseOf, Abstract!Waiting
  <2> QED
    BY <2>1, <2>2 DEF Abstract!Waiting, NeedsWriteEvent
<1> QED
  BY <1>5, <1>6, <1>7 DEF Abstract!Receive

\* cleanupClient is a Leave, and does nothing to a connection that has left.
LEMMA CleanupPhase ==
    ASSUME Cleanup
    PROVE  Abstract!Leave
BY DEF Cleanup, Abstract!Leave, PhaseOf, NeedsWriteEvent, NewClient

\* Server::onWritable leaves the phase alone, or is a Finish or a Leave.
LEMMA OnWritablePhase ==
    ASSUME TypeOK, Inv, InterestMatches, NEW n \in 0..RESPONSE_LENGTH, OnWritable(n)
    PROVE  [Abstract!Next]_(Abstract!phaseVars)
<1> DEFINE d == Send(client, n)
           after == HandleWrite(client, n)
<1>1. /\ IF after.state = "DISCONNECTED" THEN Cleanup
         ELSE client' = after /\ writable' = (writable /\ NeedsWriteEvent(after)) /\ open' = open
  BY DEF OnWritable
<1>2. CASE Cleanup
  BY <1>2, CleanupPhase DEF Abstract!Next
<1>3. CASE /\ client' = after /\ open' = open /\ after.state # "DISCONNECTED"
           /\ writable' = (writable /\ NeedsWriteEvent(after))
  <2>1. open => Stages(client, lapses) /\ (writable = NeedsWriteEvent(client))
    BY DEF Inv, InterestMatches
  <2>2. ~open => ~NeedsWriteEvent(client) /\ ~writable
    BY DEF Inv, GoneInv, NewClient, NeedsWriteEvent
  <2>3. CASE ~NeedsWriteEvent(client)
    <3>1. after = client
      BY <2>3 DEF HandleWrite
    <3>2. writable = FALSE
      BY <2>1, <2>2, <2>3 DEF TypeOK
    <3>3. writable' = FALSE
      BY <1>3, <3>2
    <3>4. client' = client /\ open' = open
      BY <1>3, <3>1
    <3> HIDE DEF after
    <3> QED
      BY <3>2, <3>3, <3>4 DEF Abstract!phaseVars, PhaseOf, NeedsWriteEvent
  <2>4. CASE NeedsWriteEvent(client)
    <3>1. open /\ writable /\ Stages(client, lapses)
      BY <2>1, <2>2, <2>4
    <3>2. WellFormed(client) /\ n \in Nat
      BY SizesAssumption DEF TypeOK, WellFormed
    <3>3. /\ d \in ClientType
          /\ d.state = client.state /\ d.response = client.response
          /\ d.headerState = client.headerState
      <4>1. Differs(client, d, {"responseBuffer", "responseSent"})
        BY <3>2, SendFields
      <4>2. d \in ClientType
        BY <2>4, <3>2, SendKeeps DEF Keeps, WellFormed
      <4> HIDE DEF d
      <4> QED
        BY <4>1, <4>2 DEF Differs, Fields
    <3> HIDE DEF d
    <3>4. [d EXCEPT !.state = "DISCONNECTED"].state = "DISCONNECTED"
      BY <3>3 DEF ClientType
    <3>5. after = d \/ after = ResetForNextRequest(d)
      BY <1>3, <2>4, <3>4 DEF HandleWrite, d
    <3>6. CASE after = d
      <4>1. NeedsWriteEvent(after) /\ PhaseOf(after) = PhaseOf(client)
        BY <2>4, <3>3, <3>6 DEF NeedsWriteEvent, PhaseOf
      <4> HIDE DEF after
      <4>2. PhaseOf(client)' = PhaseOf(client) /\ open' = open
        BY <1>3, <4>1
      <4>3. writable' = writable
        BY <1>3, <3>1, <4>1
      <4> QED
        BY <4>2, <4>3 DEF Abstract!phaseVars
    <3>7. CASE after = ResetForNextRequest(d)
      <4>1. ~NeedsWriteEvent(after) /\ PhaseOf(after) = "reading"
        BY <3>7 DEF ResetForNextRequest, NewClient, NeedsWriteEvent, PhaseOf
      <4> HIDE DEF after
      <4>2. Abstract!Waiting(PhaseOf(client))
        BY <2>4, <3>1, PhaseWaits
      <4>3. writable' = FALSE
        BY <1>3, <4>1
      <4>4. Abstract!Finish
        BY <1>3, <3>1, <4>1, <4>2, <4>3 DEF Abstract!Finish
      <4> QED
        BY <4>4 DEF Abstract!Next
    <3> QED
      BY <3>5, <3>6, <3>7
  <2> QED
    BY <2>3, <2>4
<1> QED
  BY <1>1, <1>2, <1>3

\* Every step of the connection is a step of ClientPhase or changes nothing
\* the event loop depends on.
LEMMA PhaseStep ==
    TypeOK /\ Inv /\ Inv' /\ InterestMatches /\ InterestMatches' /\ [Next]_vars
        => [Abstract!Next]_(Abstract!phaseVars)
<1> SUFFICES ASSUME TypeOK, Inv, Inv', InterestMatches, InterestMatches', [Next]_vars
             PROVE  [Abstract!Next]_(Abstract!phaseVars)
  OBVIOUS
<1>1. CASE UNCHANGED <<open, client, writable>>
  BY <1>1 DEF Abstract!phaseVars, PhaseOf, NeedsWriteEvent
<1>2. CASE Cleanup
  BY <1>2, CleanupPhase DEF Abstract!Next
<1>3. CASE OnReadable
  <2> DEFINE n == IF sent - client.got > BUFFER_SIZE THEN BUFFER_SIZE ELSE sent - client.got
  <2>1. open
    BY <1>3 DEF OnReadable, Inv, GoneInv
  <2>2. ASSUME client.got < sent, HandleClientData(n) PROVE Abstract!Receive
    <3>1. n \in Nat
      BY <2>2, LoopAssumption, ClientFields DEF TypeOK
    <3> HIDE DEF n
    <3> QED
      BY <2>1, <2>2, <3>1, ReceivePhase
  <2> QED
    BY <1>2, <1>3, <2>2 DEF OnReadable, Abstract!Next
<1>4. ASSUME NEW n \in 0..RESPONSE_LENGTH, OnWritable(n) PROVE [Abstract!Next]_(Abstract!phaseVars)
  BY <1>4, OnWritablePhase
<1>5. CASE Peer \/ Elapse
  BY <1>1, <1>5 DEF Peer, Elapse, Compose, Deliver, HangUp
<1>6. ASSUME NEW canWrite, Poll(canWrite) PROVE UNCHANGED <<open, client, writable>>
  BY <1>6 DEF Poll
<1>7. CASE OnError \/ OnHangup \/ OnTick
  BY <1>1, <1>2, <1>7 DEF OnError, OnHangup, OnTick
<1>8. CASE UNCHANGED vars
  BY <1>1, <1>8 DEF vars
<1> QED
  BY <1>1, <1>3, <1>4, <1>5, <1>6, <1>7, <1>8 DEF Next, Loop

\* A Client driven by the handlers of Server implements ClientPhase, which is
\* all that module EventLoop knows of it.
THEOREM PhaseCorrect == Spec => ImplementsClientPhase
<1>1. Init => Abstract!Init
  BY DEF Init, Abstract!Init, PhaseOf, NeedsWriteEvent, NewClient
<1> QED
  BY <1>1, PhaseStep, TypeCorrect, InvCorrect, InterestCorrect, PTL
     DEF Spec, ImplementsClientPhase, Abstract!Spec
=============================================================================
