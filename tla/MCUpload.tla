------------------------------ MODULE MCUpload ------------------------------
(***************************************************************************)
(* Bodies and trees for module Upload. Chunk sizes are binary here, as a   *)
(* chunk of 16 bytes is what it takes for a hexadecimal size to end in 0.  *)
(***************************************************************************)
EXTENDS Upload

MCPaths == {<<>>, <<"up">>, <<"up", "f">>, <<"up", "g">>}
MCDigits == <<"0", "1">>
MCIndexFiles == <<"f", "g">>
MCForeignData == {<<"z", "z">>}

Empty == [path \in MCPaths |-> IF path = <<>> THEN Directory ELSE Nothing]
Up == [Empty EXCEPT ![<<"up">>] = Directory]
MCTrees ==
    {Empty, Up, [Empty EXCEPT ![<<"up">>] = File(<<"o">>)],
     [Up EXCEPT ![<<"up", "f">>] = File(<<"o", "p">>)],
     [Up EXCEPT ![<<"up", "f">>] = Directory, ![<<"up", "g">>] = File(<<"o", "p">>)],
     [Up EXCEPT ![<<"up", "f">>] = Directory, ![<<"up", "g">>] = Directory]}

GetOf(path, slash, autoindex) == [method |-> "GET", path |-> path, slash |-> slash, autoindex |-> autoindex]
DeleteOf(path) == [method |-> "DELETE", path |-> path]
PostOf(path, body) == [method |-> "POST", path |-> path, body |-> body, multipart |-> FALSE, filename |-> ""]
PartOf(header, data) == [header |-> header, data |-> data]
MCRequests ==
    {GetOf(<<"up">>, slash, TRUE) : slash \in BOOLEAN}
      \cup {GetOf(<<"up">>, TRUE, FALSE), GetOf(<<"up", "f">>, FALSE, FALSE), GetOf(<<>>, TRUE, TRUE)}
      \cup {DeleteOf(<<"up">>), DeleteOf(<<"up", "f">>)}
      \cup {PostOf(<<"up">>, <<"x", "y">>), PostOf(NoPath, <<"x">>), PostOf(<<"up">>, <<>>)}
      \cup {[PostOf(<<"up">>, MultipartBody(<<PartOf("file", <<"y">>)>>))
               EXCEPT !.multipart = TRUE, !.filename = "f"]}

\* All ways to cut a body into at most two chunks.
Cuts(body) ==
    {<<SubSeq(body, 1, n), SubSeq(body, n + 1, Len(body))>> : n \in 1..(Len(body) - 1)}
      \cup {IF body = <<>> THEN <<>> ELSE <<body>>}

Transfer(chunks, extension, lost, parts) ==
    [chunks |-> chunks, extension |-> extension, lost |-> lost, parts |-> parts, path |-> <<"up">>]

Bodies == {<<>>, <<"x">>, <<"x", "0">>, <<"0", "r", "n">>, <<"x", "r", "n", "x">>, <<"r", "n", "r", "n">>}
Parts ==
    {<<PartOf("file", data)>> : data \in {<<>>, <<"x">>, <<"x", "0", "r", "n">>}}
      \cup {<<PartOf("field", <<"x">>), PartOf("file", <<"y">>)>>, <<PartOf("other", <<>>)>>,
            <<PartOf("file", <<"x">>), PartOf("file", <<"y">>)>>}

Extension == <<";", "1">>
Long == [k \in 1..28 |-> "x"]

MCTransfers ==
    {Transfer(<<Long>>, <<>>, 0, <<>>)} \cup
    UNION {{Transfer(chunks, extension, 0, <<>>) :
              chunks \in Cuts(body), extension \in {<<>>, Extension}} : body \in Bodies}
      \cup {Transfer(<<<<"x", "y">>>>, <<>>, lost, <<>>) : lost \in 1..Len(Encoded(<<<<"x", "y">>>>, <<>>))}
      \cup UNION {{Transfer(chunks, <<>>, 0, parts) : chunks \in Cuts(MultipartBody(parts))} : parts \in Parts}
=============================================================================
