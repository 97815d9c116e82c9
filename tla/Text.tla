-------------------------------- MODULE Text --------------------------------
(***************************************************************************)
(* std::string as a sequence of symbols: the members that the parsers of   *)
(* bodies use. Positions count from 0, as they do in the code.             *)
(***************************************************************************)
EXTENDS Integers, Sequences

npos == -1

OccursAt(text, pattern, k) ==
    /\ k + Len(pattern) <= Len(text)
    /\ \A i \in 1..Len(pattern) : text[k + i] = pattern[i]

Places(text, pattern, from) ==
    {k \in from..(Len(text) - Len(pattern)) : OccursAt(text, pattern, k)}

find(text, pattern, from) ==
    LET places == Places(text, pattern, from)
    IN  IF places = {} THEN npos ELSE CHOOSE k \in places : \A m \in places : k <= m

substr(text, from, length) ==
    SubSeq(text, from + 1, IF from + length > Len(text) THEN Len(text) ELSE from + length)

CRLF == <<"r", "n">>
BlankLine == CRLF \o CRLF
=============================================================================
