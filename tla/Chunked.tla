------------------------------ MODULE Chunked ------------------------------
(***************************************************************************)
(* A body with chunked transfer encoding, symbol by symbol: the search for *)
(* its end in what has arrived (Client::tryParseChunkedBody) and the loop  *)
(* that decodes it (HttpRequest::decodeChunkedBody), one step per chunk.   *)
(***************************************************************************)
EXTENDS Text

CONSTANTS
    Transfers,      \* the bodies a peer may send, each cut into chunks
    HexDigits,      \* the digits of a chunk size, in the order of their values
    SIZE_MAX,       \* the largest size_t
    SEARCH_WINDOW,  \* how much of the body is searched for its end: 200
    MAX_BODY_SIZE   \* client_max_body_size of the location

VARIABLES
    transfer,       \* the body being received, as the peer means it
    raw,            \* the same as it is on the wire
    got,            \* how much of it has arrived
    phase,
    end,            \* the length of bodyPart, once it has been found
    pos,            \* the position of decodeChunkedBody in bodyPart
    decoded

chunkedVars == <<transfer, raw, got, phase, end, pos, decoded>>

-----------------------------------------------------------------------------
(***************************************************************************)
(* The peer. A transfer is a sequence of chunks, a chunk extension for its *)
(* size lines (or none), and a place where a symbol is lost (or 0).        *)
(***************************************************************************)
Base == Len(HexDigits)

HexText(n) ==
    LET digits[k \in 0..n] ==
          IF k = 0 THEN <<>> ELSE Append(digits[k \div Base], HexDigits[(k % Base) + 1])
    IN  IF n = 0 THEN <<HexDigits[1]>> ELSE digits[n]

EncodedChunk(data, extension) == HexText(Len(data)) \o extension \o CRLF \o data \o CRLF

\* The text from the k-th chunk on, and the data from there on.
EncodedFrom(chunks, extension) ==
    LET from[k \in 1..(Len(chunks) + 1)] ==
          IF k > Len(chunks) THEN HexText(0) \o extension \o CRLF \o CRLF
          ELSE EncodedChunk(chunks[k], extension) \o from[k + 1]
    IN  from

ConcatenatedFrom(chunks) ==
    LET from[k \in 1..(Len(chunks) + 1)] ==
          IF k > Len(chunks) THEN <<>> ELSE chunks[k] \o from[k + 1]
    IN  from

Encoded(chunks, extension) == EncodedFrom(chunks, extension)[1]
Concatenated(chunks) == ConcatenatedFrom(chunks)[1]

Without(text, k) == IF k = 0 THEN text ELSE SubSeq(text, 1, k - 1) \o SubSeq(text, k + 1, Len(text))

OnTheWire(t) == Without(Encoded(t.chunks, t.extension), t.lost)

\* A chunk has data, as an empty one would be the last. The extension is set off
\* from the size and stays on its line. No string is longer than SIZE_MAX.
ASSUME ChunkedAssumption ==
    /\ SIZE_MAX \in Nat /\ SEARCH_WINDOW \in Nat /\ MAX_BODY_SIZE \in Nat
    /\ {"r", "n"} \subseteq STRING
    /\ HexDigits \in Seq(STRING \ {"r", "n"}) /\ Len(HexDigits) > 1
    /\ \A i, j \in DOMAIN HexDigits : HexDigits[i] = HexDigits[j] => i = j
    /\ \A t \in Transfers :
         /\ t.chunks \in Seq(Seq(STRING) \ {<<>>})
         /\ t.extension \in Seq(STRING \ {"r"})
         /\ t.extension # <<>> => \A d \in DOMAIN HexDigits : t.extension[1] # HexDigits[d]
         /\ t.lost \in 0..Len(Encoded(t.chunks, t.extension)) /\ Len(OnTheWire(t)) <= SIZE_MAX

-----------------------------------------------------------------------------
(***************************************************************************)
(* tryParseChunkedBody, with `length` symbols of the body in the buffer    *)
(***************************************************************************)
LastChunk == <<HexDigits[1]>> \o CRLF \o CRLF

\* Mutant: the blank line is enough.
EndOfBodyAtBlankLine(text) ==
    LET blank == find(text, BlankLine, 0)
    IN  IF blank = npos THEN npos ELSE blank + Len(BlankLine)

\* Where bodyPart ends, or npos while that has not arrived.
EndOfBody(text) ==
    LET searchStart == IF Len(text) > SEARCH_WINDOW THEN Len(text) - SEARCH_WINDOW ELSE 0
        lastChunkPos == find(text, <<HexDigits[1]>> \o CRLF, searchStart)
        finalCrlfPos == find(text, BlankLine, lastChunkPos)
    IN  CASE Len(text) < Len(LastChunk) -> npos
          [] Len(text) = Len(LastChunk) /\ text = LastChunk -> Len(text)
          [] OTHER -> IF lastChunkPos = npos \/ finalCrlfPos = npos THEN npos
                      ELSE finalCrlfPos + Len(BlankLine)

Receive(n) ==
    /\ phase = "receiving" /\ n \in (got + 1)..Len(raw)
    /\ got' = n
    /\ LET found == EndOfBody(SubSeq(raw, 1, n))
       IN  IF found = npos THEN UNCHANGED <<phase, end>>
           ELSE phase' = "decoding" /\ end' = found
    /\ UNCHANGED <<transfer, raw, pos, decoded>>

-----------------------------------------------------------------------------
(***************************************************************************)
(* decodeChunkedBody(bodyPart)                                             *)
(***************************************************************************)
bodyPart == SubSeq(raw, 1, end)

\* The digits that a chunk's line starts with. What follows them is skipped,
\* the extension first.
SizeDigits(line) ==
    LET stops == {k \in DOMAIN line : \A d \in DOMAIN HexDigits : line[k] # HexDigits[d]}
    IN  IF stops = {} THEN line
        ELSE SubSeq(line, 1, (CHOOSE k \in stops : \A m \in stops : k <= m) - 1)

DigitValue(digit) == (CHOOSE v \in DOMAIN HexDigits : HexDigits[v] = digit) - 1

HexValue(digits) ==
    LET value[k \in 0..Len(digits)] ==
          IF k = 0 THEN 0 ELSE value[k - 1] * Base + DigitValue(digits[k])
    IN  value[Len(digits)]

crlfPos == find(bodyPart, CRLF, pos)
Digits == SizeDigits(substr(bodyPart, pos, crlfPos - pos))
HasSize == crlfPos # npos /\ Digits # <<>> /\ HexValue(Digits) <= SIZE_MAX
chunkSize == HexValue(Digits)

Wrapped(n) == n % (SIZE_MAX + 1)
DataStart == crlfPos + 2
AfterData == Wrapped(DataStart + chunkSize)

\* The data of the chunk is there, with a line break after it.
HasData == AfterData <= Len(bodyPart) /\ substr(bodyPart, AfterData, 2) = CRLF

\* What tryParseChunkedBody makes of the text it gets back.
Verdict(text) ==
    CASE text = <<>> /\ end > Len(LastChunk) -> "badRequest"
      [] Len(text) > MAX_BODY_SIZE -> "tooLarge"
      [] OTHER -> "accepted"

Return(text) ==
    /\ decoded' = text /\ phase' = Verdict(text)
    /\ UNCHANGED <<transfer, raw, got, end, pos>>

DecodeChunk ==
    /\ phase = "decoding" /\ pos < end
    /\ HasSize /\ chunkSize > 0 /\ HasData
    /\ decoded' = decoded \o substr(bodyPart, DataStart, chunkSize)
    /\ pos' = AfterData + 2
    /\ UNCHANGED <<transfer, raw, got, phase, end>>

DecodeLastChunk ==
    /\ phase = "decoding" /\ pos < end
    /\ HasSize /\ chunkSize = 0
    /\ Return(decoded)

DecodeFails ==
    /\ phase = "decoding" /\ pos < end
    /\ HasSize => chunkSize > 0 /\ ~HasData
    /\ Return(<<>>)

\* bodyPart is used up without a last chunk.
DecodeRunsOut ==
    /\ phase = "decoding" /\ pos >= end
    /\ Return(decoded)

-----------------------------------------------------------------------------
ChunkedInit ==
    /\ transfer \in Transfers
    /\ raw = OnTheWire(transfer) /\ got = 0
    /\ phase = "receiving"
    /\ end = 0 /\ pos = 0 /\ decoded = <<>>

ChunkedNext ==
    \/ \E n \in 1..Len(raw) : Receive(n)
    \/ DecodeChunk
    \/ DecodeLastChunk
    \/ DecodeFails
    \/ DecodeRunsOut
=============================================================================
