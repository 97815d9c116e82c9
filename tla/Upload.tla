------------------------------- MODULE Upload -------------------------------
(***************************************************************************)
(* An upload from the wire to the disk: a chunked body is received and     *)
(* decoded (Chunked), the part with the file is taken out of it            *)
(* (Multipart) and stored (Files), where later requests find it.           *)
(***************************************************************************)
EXTENDS Chunked, Files

VARIABLE sent   \* history: the content the peer meant to be stored, and whether
                \* the text of its body can be taken for its own end

uploadVars == <<chunkedVars, vars, sent>>

\* A transfer is sent by POST. It has the parts of a multipart body, or none.
NoTransfer == [chunks |-> <<>>, extension |-> <<>>, lost |-> 0, parts |-> <<>>, path |-> <<>>]

FileParts(parts) == {k \in DOMAIN parts : parts[k].header = "file"}

\* The part of a request that the body is not: a path, and the parts that were
\* put into the body, in none of which the boundary occurs.
ASSUME UploadAssumption ==
    /\ {"f", "-", dashBoundary} \cup {Disposition[h] : h \in DOMAIN Disposition} \subseteq STRING
    /\ \A t \in Transfers :
         /\ t.path \in Paths \cup {NoPath}
         /\ t.parts \in Seq([header : DOMAIN Disposition, data : Seq(STRING \ {dashBoundary})])
         /\ t.parts # <<>> => Concatenated(t.chunks) = MultipartBody(t.parts)

\* What the peer of a transfer wants to have stored, <<>> for nothing.
Meant(t) ==
    LET files == FileParts(t.parts)
        first == CHOOSE k \in files : \A m \in files : k <= m
    IN  CASE t.parts = <<>> -> Concatenated(t.chunks)
          [] t.parts # <<>> /\ files = {} -> <<>>
          [] OTHER -> t.parts[first].data

\* No "0" CRLF before the one of the last chunk is followed by a blank line
\* before the end of the body: as there is when a chunk has a blank line in its
\* data, and in front of that a line, its size included, that ends in 0.
Unmistakable(text) ==
    \A p \in Places(text, <<HexDigits[1]>> \o CRLF, 0) :
    \A b \in Places(text, BlankLine, p) : b + Len(BlankLine) = Len(text)

UploadRequest ==
    [method |-> "POST", path |-> transfer.path, body |-> decoded,
     multipart |-> transfer.parts # <<>>, filename |-> "f"]

Idle ==
    /\ transfer = NoTransfer /\ raw = <<>> /\ got = 0 /\ phase = "handled"
    /\ end = 0 /\ pos = 0 /\ decoded = <<>>

UploadInit ==
    /\ ChunkedInit \/ Idle
    /\ FilesInit
    /\ sent = <<>>

\* processRequest gets the request, and the buffer moves on.
HandOver ==
    /\ phase = "accepted"
    /\ Accept(UploadRequest)
    /\ transfer' = NoTransfer /\ raw' = <<>> /\ got' = 0 /\ phase' = "handled"
    /\ end' = 0 /\ pos' = 0 /\ decoded' = <<>>
    /\ sent' = IF transfer.lost = 0 /\ Unmistakable(raw) THEN Meant(transfer) ELSE <<"?">>

UploadNext ==
    \/ ChunkedNext /\ UNCHANGED <<vars, sent>>
    \/ HandOver
    \/ phase = "handled" /\ FilesNext /\ UNCHANGED <<chunkedVars, sent>>

Spec == UploadInit /\ [][UploadNext]_uploadVars

-----------------------------------------------------------------------------
(***************************************************************************)
(* Properties                                                              *)
(***************************************************************************)
Decided == phase \in {"accepted", "badRequest", "tooLarge"}

\* tryParseChunkedBody: "the whole chunked body part". However the body arrives,
\* what is decoded and taken off the buffer is all of it, up to the last byte.
ChunkedBodyIsWhole == Decided /\ transfer.lost = 0 => end = Len(raw)

\* tryParseChunkedBody, decodeChunkedBody: the same of a body whose text cannot
\* be taken for its own end; it then is decoded to what was put into the chunks,
\* cut up as they may be, and refused only if it is too large or if it is empty
\* and longer than its last chunk alone.
ChunksAreUndone ==
    Decided /\ transfer.lost = 0 /\ Unmistakable(raw)
    => /\ end = Len(raw)
       /\ LET data == Concatenated(transfer.chunks)
          IN  CASE data = <<>> -> phase = (IF Len(raw) > Len(LastChunk) THEN "badRequest" ELSE "accepted")
                [] Len(data) > MAX_BODY_SIZE -> phase = "tooLarge"
                [] OTHER -> phase = "accepted" /\ decoded = data

\* From the wire to the disk: the file of an upload that was answered with 201
\* has exactly the content of the first file part that was sent (or of the whole
\* body), whatever parts are around it and however it was cut into chunks; all
\* but its last block when the close of the file failed, of which the 201 says
\* nothing.
StoredIsSent ==
    served = 1 /\ Answered({"POST"}) /\ sent # <<>> /\ sent # <<"?">>
    => /\ answer.status # 400
       /\ answer.status = 201 /\ filePath \notin witness.touched
          => Node(tree, filePath) = File(Left(sent, witness.failed # "close"))
=============================================================================
