----------------------------- MODULE Multipart -----------------------------
(***************************************************************************)
(* MultipartFormDataParser over a body of symbols. The text "--boundary"   *)
(* is one symbol, and so is the header line of a part that names a file, a *)
(* Content-Disposition without a name, and any other header line.          *)
(***************************************************************************)
EXTENDS Text

dashBoundary == "--boundary"
Disposition == [file |-> "disposition file", field |-> "disposition", other |-> "header"]

-----------------------------------------------------------------------------
(***************************************************************************)
(* What a peer makes of a sequence of parts, each with a header and data.  *)
(***************************************************************************)
EncodedPart(part) ==
    <<dashBoundary>> \o CRLF \o <<Disposition[part.header]>> \o BlankLine \o part.data \o CRLF

\* The text from the k-th part on.
MultipartFrom(parts) ==
    LET from[k \in 1..(Len(parts) + 1)] ==
          IF k > Len(parts) THEN <<dashBoundary, "-", "-">> \o CRLF
          ELSE EncodedPart(parts[k]) \o from[k + 1]
    IN  from

MultipartBody(parts) == MultipartFrom(parts)[1]

-----------------------------------------------------------------------------
(***************************************************************************)
(* parse                                                                   *)
(***************************************************************************)
NoFile == [isValid |-> FALSE, filename |-> "", content |-> <<>>]

\* getFilename of the Content-Disposition line among the headers, or "".
FilenameIn(partHeaders, filename) ==
    IF find(partHeaders, <<Disposition["file"]>>, 0) # npos THEN filename ELSE ""

\* Mutant: the line break before the boundary is kept.
PartContentWithBreak(part, headerEndPos) ==
    substr(part, headerEndPos + Len(BlankLine), Len(part))

\* What follows the headers, up to the line break before the next boundary.
PartContent(part, headerEndPos) ==
    LET contentStart == headerEndPos + Len(BlankLine)
    IN  substr(part, contentStart,
               IF Len(part) > contentStart + 2 THEN Len(part) - contentStart - 2 ELSE 0)

\* The text from a boundary to the next.
PartAt(body, startPos) ==
    substr(body, startPos, find(body, <<dashBoundary>>, startPos + 1) - startPos)

\* There is a next boundary, and headers, one of which names a file.
IsFilePart(body, filename, startPos) ==
    LET part == PartAt(body, startPos)
        headerEndPos == find(part, BlankLine, 0)
    IN  /\ find(body, <<dashBoundary>>, startPos + 1) # npos
        /\ headerEndPos # npos
        /\ FilenameIn(substr(part, 0, headerEndPos), filename) # ""

\* The first part with a file name; `filename` stands for the name it gives.
parse(body, filename) ==
    LET starts == {p \in Places(body, <<dashBoundary>>, 0) : IsFilePart(body, filename, p)}
        part == PartAt(body, CHOOSE p \in starts : \A q \in starts : p <= q)
    IN  IF starts = {} THEN NoFile
        ELSE [isValid |-> TRUE, filename |-> filename,
              content |-> PartContent(part, find(part, BlankLine, 0))]
=============================================================================
