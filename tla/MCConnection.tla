---------------------------- MODULE MCConnection ----------------------------
(***************************************************************************)
(* Values of Connection's constants for TLC.                               *)
(***************************************************************************)
EXTENDS Connection

Shape(hdr, body) == [Fresh EXCEPT !.hdr = hdr, !.body = body, !.allowed = TRUE, !.keep = TRUE]

Get == Shape(1, 0)
LongGet == Shape(4, 0)
GetClose == [Get EXCEPT !.keep = FALSE]
Post == Shape(1, 2)
TooLarge == Shape(1, 4)
Forbidden == [Shape(1, 1) EXCEPT !.allowed = FALSE]
Malformed == [Get EXCEPT !.error = 505, !.allowed = FALSE]
Chunked == [Shape(1, 2) EXCEPT !.chunked = TRUE, !.zero = TRUE]
ChunkedEmpty == [Shape(1, 1) EXCEPT !.chunked = TRUE]
ChunkedLarge == [Shape(1, 4) EXCEPT !.chunked = TRUE]
GetZero == [Get EXCEPT !.zero = TRUE]

AllShapes ==
    {Get, GetClose, Post, TooLarge, LongGet, Forbidden, Malformed,
     Chunked, ChunkedEmpty, ChunkedLarge, GetZero}
KeepAliveShapes == {Get, GetClose, Post, TooLarge}
LockstepShapes == {Post, TooLarge, Chunked}
=============================================================================
