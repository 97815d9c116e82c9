------------------------------ MODULE MCRouter ------------------------------
(***************************************************************************)
(* Configurations and requests for module Router: two or three server      *)
(* blocks of every kind without locations, and one server block with up to *)
(* three locations in every order.                                         *)
(***************************************************************************)
EXTENDS Router

MCNames == {"/", "?", "a", "b", ".b", ".x", "root", "alias"}
MCRoot == <<"/", "root">>
MCMethods == {"GET", "POST", "HEAD"}

Block(port, default, name, locations) ==
    [port |-> port, isDefault |-> default, name |-> name, locations |-> locations]

Blocks == {Block(port, default, name, <<>>) :
             port \in {80, 81}, default \in BOOLEAN, name \in {"here", None}}

Location(type, path, allowed, serves, alias) ==
    [type |-> type, path |-> path, allowed |-> allowed, serves |-> serves,
     alias |-> alias, root |-> IF alias = None THEN MCRoot ELSE None]

Alias == <<"/", "alias", "/">>
Pool ==
    {Location("exact", <<"/", "a">>, {"POST"}, "files", None),
     Location("exact", <<"/", "a", ".x">>, MCMethods, "redirect", None),
     Location("extension", <<".x">>, {"POST"}, "cgi", None),
     Location("extension", <<".b", ".x">>, {"GET"}, "files", None),
     Location("prefix", <<"/">>, {"GET"}, "files", None),
     Location("prefix", <<"/", "a">>, MCMethods, "files", Alias),
     Location("prefix", <<"/", "a", "/">>, {"GET"}, "files", Alias),
     Location("prefix", <<"/", "a", "/", "b">>, MCMethods, "cgi", Alias)}

UpTo(n, S) == UNION {[1..m -> S] : m \in 0..n}

MCConfigs ==
    UpTo(3, Blocks) \cup {<<Block(80, FALSE, None, locations)>> : locations \in UpTo(3, Pool)}

Paths == {<<"/">>, <<"/", "a">>, <<"/", "a", "/">>, <<"/", "a", "b">>, <<"/", "a", ".x">>,
          <<"/", "a", "/", "b">>, <<"/", "a", "/", "b", ".x">>, <<"/", "a", ".b", ".x">>,
          <<"/", "a", "/", "/", "b">>, <<"b">>}

MCRequests ==
    [port : {80}, host : {"here"}, path : Paths, query : BOOLEAN, method : MCMethods]

=============================================================================
