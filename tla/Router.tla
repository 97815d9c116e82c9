------------------------------- MODULE Router -------------------------------
(***************************************************************************)
(* How a request finds the server block, the location, the file name and   *)
(* the handler that serve it: RequestRouter, the method check of           *)
(* Server::handleClientData, PathResolver and the dispatch of              *)
(* HttpController::processRequest, one step per turn of a loop.            *)
(*                                                                         *)
(* Paths are sequences of "/" and names; a suffix such as <<".x">> is a    *)
(* name of its own, so that <<"/", "f", ".x">> is the path /f.x.           *)
(***************************************************************************)
EXTENDS Naturals, Sequences, SequencesExt

CONSTANTS
    Configs,    \* the sequences of server blocks a configuration may have
    Requests,   \* the requests
    Names,      \* what paths consist of, "/" and "?" included
    Methods,    \* the methods requests may have
    DefaultRoot,
    None        \* a directive that is absent

Texts == Seq(Names)

\* The parser allows at most one directive of a kind in a block: root, alias,
\* listen and server_name are values, and root is the one the cascade left.
LocationType ==
    [type : {"exact", "extension", "prefix"}, path : Texts \ {<<>>},
     allowed : SUBSET Methods,  \* every method without limit_except
     serves : {"files", "cgi", "redirect"},
     alias : Texts \cup {None}, root : Texts \cup {None}]

ServerType == [port : Nat, isDefault : BOOLEAN, name : STRING \cup {None}, locations : Seq(LocationType)]

\* "query": a query string follows the path.
RequestType == [port : Nat, host : STRING, path : Texts, query : BOOLEAN, method : Methods]

ASSUME RouterAssumption ==
    /\ Configs \subseteq Seq(ServerType) /\ Requests \subseteq RequestType
    /\ {"/", "?"} \subseteq Names /\ None \notin STRING /\ DefaultRoot \in Texts

VARIABLES
    servers, request,
    pc, at,             \* the loop and the block it is about to look at
    defaultServer,      \* default_server, as an index, 0 for NULL
    firstPortMatch,     \* first_port_match
    server,             \* what findServerForRequest returned
    exactMatch, extensionMatch, longestPrefixMatch,
    location,           \* what findLocationForRequest returned
    outcome             \* a status the request is refused with, or who answers it

fixedVars == <<servers, request>>
serverVars == <<defaultServer, firstPortMatch, server>>
matchVars == <<exactMatch, extensionMatch, longestPrefixMatch>>
vars == <<fixedVars, pc, at, serverVars, matchVars, location, outcome>>

OnPort(i) == servers[i].port = request.port
Named(i) == servers[i].name = request.host

\* A port has connections only because a server block listens on it.
Init ==
    /\ servers \in Configs /\ request \in Requests
    /\ \E i \in DOMAIN servers : OnPort(i)
    /\ pc = "servers" /\ at = 1
    /\ defaultServer = 0 /\ firstPortMatch = 0 /\ server = 0
    /\ exactMatch = 0 /\ extensionMatch = 0 /\ longestPrefixMatch = 0
    /\ location = 0 /\ outcome = "none"

-----------------------------------------------------------------------------
(***************************************************************************)
(* findServerForRequest                                                    *)
(***************************************************************************)
\* Mutant: a later default_server replaces an earlier one.
LastDefault(old, i) == IF servers[i].isDefault THEN i ELSE old

FirstDefault(old, i) == IF servers[i].isDefault /\ old = 0 THEN i ELSE old

ExamineServer ==
    /\ pc = "servers" /\ at <= Len(servers)
    /\ \/ /\ ~OnPort(at)
          /\ at' = at + 1
          /\ UNCHANGED <<pc, serverVars>>
       \/ /\ OnPort(at) /\ Named(at)
          /\ server' = at
          /\ pc' = "locations" /\ at' = 1
          /\ UNCHANGED <<defaultServer, firstPortMatch>>
       \/ /\ OnPort(at) /\ ~Named(at)
          /\ defaultServer' = FirstDefault(defaultServer, at)
          /\ firstPortMatch' = IF firstPortMatch = 0 THEN at ELSE firstPortMatch
          /\ at' = at + 1
          /\ UNCHANGED <<pc, server>>
    /\ UNCHANGED <<fixedVars, matchVars, location, outcome>>

\* Mutant: the block at which the loop ended.
BlockAtEnd == at

DefaultOrFirst == IF defaultServer # 0 THEN defaultServer ELSE firstPortMatch

ChooseServer ==
    /\ pc = "servers" /\ at = Len(servers) + 1
    /\ server' = DefaultOrFirst
    /\ IF server' = 0 THEN pc' = "done" /\ outcome' = "500"
                      ELSE pc' = "locations" /\ UNCHANGED outcome
    /\ at' = 1
    /\ UNCHANGED <<fixedVars, defaultServer, firstPortMatch, matchVars, location>>

-----------------------------------------------------------------------------
(***************************************************************************)
(* findLocationForRequest.  The query is not part of what is compared.     *)
(***************************************************************************)
Locations == servers[server].locations

EndsWithSlash(path) == path # <<>> /\ Last(path) = "/"

ExtensionMatches(path, uri) ==
    /\ Len(uri) >= Len(path)
    /\ SubSeq(uri, Len(uri) - Len(path) + 1, Len(uri)) = path

PrefixMatches(path, uri) ==
    IF EndsWithSlash(path)
    THEN IsPrefix(path, uri) \/ Append(uri, "/") = path
    ELSE IsPrefix(path, uri) /\ (Len(uri) = Len(path) \/ uri[Len(path) + 1] = "/")

LongestPrefixLength ==
    IF longestPrefixMatch = 0 THEN 0 ELSE Len(Locations[longestPrefixMatch].path)

ExamineLocation ==
    LET loc == Locations[at]
    IN  /\ pc = "locations" /\ at <= Len(Locations) /\ exactMatch = 0
        /\ exactMatch' = IF loc.type = "exact" /\ request.path = loc.path THEN at ELSE 0
        /\ extensionMatch' =
             IF loc.type = "extension" /\ ExtensionMatches(loc.path, request.path)
             THEN at ELSE extensionMatch
        /\ longestPrefixMatch' =
             IF /\ loc.type = "prefix" /\ PrefixMatches(loc.path, request.path)
                /\ Len(loc.path) > LongestPrefixLength
             THEN at ELSE longestPrefixMatch
        /\ at' = at + 1
        /\ UNCHANGED <<fixedVars, pc, serverVars, location, outcome>>

Allows(i) == request.method \in Locations[i].allowed

\* Mutant: an extension wins whatever its methods.
SelectedWithoutFallback ==
    CASE exactMatch # 0 -> exactMatch
      [] exactMatch = 0 /\ extensionMatch # 0 -> extensionMatch
      [] exactMatch = 0 /\ extensionMatch = 0 -> longestPrefixMatch

\* An extension location that refuses the method leaves the request to the
\* longest prefix, if there is one.
Selected ==
    CASE exactMatch # 0 -> exactMatch
      [] exactMatch = 0 /\ extensionMatch # 0 ->
           IF Allows(extensionMatch) \/ longestPrefixMatch = 0
           THEN extensionMatch ELSE longestPrefixMatch
      [] exactMatch = 0 /\ extensionMatch = 0 -> longestPrefixMatch

ChooseLocation ==
    /\ pc = "locations" /\ (exactMatch # 0 \/ at = Len(Locations) + 1)
    /\ location' = Selected
    /\ pc' = "dispatch"
    /\ UNCHANGED <<fixedVars, at, serverVars, matchVars, outcome>>

-----------------------------------------------------------------------------
(***************************************************************************)
(* PathResolver::resolvePath; <<>> is the empty string.                    *)
(***************************************************************************)
\* What stands at some places of a path.
Kept(path, places) ==
    LET text[i \in 0..Len(path)] ==
          IF i = 0 THEN <<>> ELSE IF i \in places THEN Append(text[i - 1], path[i]) ELSE text[i - 1]
    IN  text[Len(path)]

\* A slash after a slash is dropped.
normalizePath(path) ==
    Kept(path, {i \in 1..Len(path) : ~(path[i] = "/" /\ i > 1 /\ path[i - 1] = "/")})

Root(loc) == IF loc.root = None THEN DefaultRoot ELSE loc.root

resolveExactPath(loc, uri) ==
    CASE loc.alias # None -> normalizePath(loc.alias)
      [] loc.alias = None /\ loc.root # None -> normalizePath(loc.root \o uri)
      [] loc.alias = None /\ loc.root = None -> <<>>

\* What follows the last slash.
FileName(uri) ==
    SubSeq(uri, 1 + (CHOOSE i \in 0..Len(uri) :
                       /\ i = 0 \/ uri[i] = "/"
                       /\ \A j \in (i + 1)..Len(uri) : uri[j] # "/"), Len(uri))

resolveExtensionPath(loc, uri) == normalizePath(Root(loc) \o <<"/">> \o FileName(uri))

\* Mutant: a path without the location's last slash is not recognised.
AliasOfPrefix(loc, uri) ==
    IF IsPrefix(loc.path, uri)
    THEN normalizePath(loc.alias \o <<"/">> \o SubSeq(uri, Len(loc.path) + 1, Len(uri)))
    ELSE <<>>

resolveWithAlias(loc, uri) ==
    CASE IsPrefix(loc.path, uri) ->
           normalizePath(loc.alias \o <<"/">> \o SubSeq(uri, Len(loc.path) + 1, Len(uri)))
      [] ~IsPrefix(loc.path, uri) /\ Append(uri, "/") = loc.path -> normalizePath(loc.alias)
      [] ~IsPrefix(loc.path, uri) /\ Append(uri, "/") # loc.path -> <<>>

resolvePath(loc, uri) ==
    CASE loc.type = "exact"     -> resolveExactPath(loc, uri)
      [] loc.type = "extension" -> resolveExtensionPath(loc, uri)
      [] loc.type = "prefix"    ->
           IF loc.alias # None THEN resolveWithAlias(loc, uri)
           ELSE normalizePath(Root(loc) \o <<"/">> \o uri)

\* The handlers pass the whole URI on; a CGI script is looked up without query.
Uri(loc) ==
    IF request.query /\ loc.serves # "cgi" THEN Append(request.path, "?") ELSE request.path

FilePath == resolvePath(Locations[location], Uri(Locations[location]))

-----------------------------------------------------------------------------
(***************************************************************************)
(* The method check of handleClientData and processRequest.  Whether a CGI *)
(* script's name is that of a directory is the environment's choice.       *)
(***************************************************************************)
CgiOutcomes == IF FilePath = <<>> THEN {"404"} ELSE {"CgiExecutor", "404"}

Dispatch ==
    LET loc == Locations[location]
    IN  /\ pc = "dispatch" /\ pc' = "done"
        /\ \/ location = 0 /\ outcome' = "404"
           \/ location # 0 /\ ~Allows(location) /\ outcome' = "405"
           \/ /\ location # 0 /\ Allows(location)
              /\ \/ loc.serves = "redirect" /\ outcome' = "redirect"
                 \/ loc.serves = "cgi" /\ outcome' \in CgiOutcomes
                 \/ /\ loc.serves = "files"
                    /\ outcome' = CASE request.method = "GET" -> "GetHandler"
                                    [] request.method = "POST" -> "PostHandler"
                                    [] request.method = "DELETE" -> "DeleteHandler"
                                    [] request.method \notin {"GET", "POST", "DELETE"} -> "501"
        /\ UNCHANGED <<fixedVars, at, serverVars, matchVars, location>>

Next == ExamineServer \/ ChooseServer \/ ExamineLocation \/ ChooseLocation \/ Dispatch

Spec == Init /\ [][Next]_vars

-----------------------------------------------------------------------------
(***************************************************************************)
(* Properties                                                              *)
(***************************************************************************)
\* Indices point into the configuration, and a location is only looked for in a
\* server block that was found.
TypeOK ==
    /\ servers \in Configs /\ request \in Requests
    /\ pc \in {"servers", "locations", "dispatch", "done"} /\ at \in Nat \ {0}
    /\ {defaultServer, firstPortMatch, server} \subseteq 0..Len(servers)
    /\ pc = "servers" => server = 0
    /\ pc \in {"locations", "dispatch"} => server # 0
    /\ IF server = 0 THEN {exactMatch, extensionMatch, longestPrefixMatch, location} = {0}
       ELSE {exactMatch, extensionMatch, longestPrefixMatch, location} \subseteq 0..Len(Locations)

\* RequestRouter.cpp:66-86: the block with the host's name before the default
\* one, and that before the others, each time the first of them.
ServerRank(i) == IF Named(i) THEN 1 ELSE IF servers[i].isDefault THEN 2 ELSE 3

\* findServerForRequest finds the best block on the port, wherever it stands in
\* the configuration.
ServerIsBest ==
    pc # "servers" =>
        LET candidates == {i \in DOMAIN servers : OnPort(i)}
        IN  /\ server \in candidates
            /\ \A i \in candidates \ {server} :
                 \/ ServerRank(server) < ServerRank(i)
                 \/ ServerRank(server) = ServerRank(i) /\ server < i

\* What a location stands for: a prefix for a directory and all that is in it,
\* whether it is written with a slash at its end or without.
Directory(path) == IF EndsWithSlash(path) THEN Front(path) ELSE path
IsIn(path, uri) ==
    LET dir == Directory(path)
    IN  IsPrefix(dir, uri) /\ (Len(uri) > Len(dir) => uri[Len(dir) + 1] = "/")

Matches(i) ==
    LET loc == Locations[i]
    IN  CASE loc.type = "exact"     -> loc.path = request.path
          [] loc.type = "extension" -> ExtensionMatches(loc.path, request.path)
          [] loc.type = "prefix"    -> IsIn(loc.path, request.path)

\* Which of two matching locations serves a request better, without regard to
\* where they stand in the configuration.
IsBetter(i, j) ==
    LET a == Locations[i].type
        b == Locations[j].type
    IN  \/ a = "exact" /\ b # "exact"
        \/ a = "extension" /\ b = "prefix" /\ Allows(i)
        \/ a = "prefix" /\ b = "extension" /\ ~Allows(j)
        \/ a = "prefix" /\ b = "prefix" /\ Len(Locations[i].path) > Len(Locations[j].path)

\* Of several matching extensions (.gz and .tar.gz) the code takes the last one
\* and asks only that one for the method.
OneExtension ==
    LET matching == {i \in DOMAIN Locations : Locations[i].type = "extension" /\ Matches(i)}
    IN  \A i, j \in matching : i = j

\* findLocationForRequest returns a location that matches, if one does, and no
\* matching location would be better, in whatever order they are written.
LocationIsBest ==
    pc \in {"dispatch", "done"} /\ OneExtension =>
        LET candidates == {i \in DOMAIN Locations : Matches(i)}
        IN  IF candidates = {} THEN location = 0
            ELSE location \in candidates /\ \A i \in candidates : ~IsBetter(i, location)

\* A path but for its slashes.
NamesIn(path) == Kept(path, {i \in 1..Len(path) : path[i] # "/"})

\* The file name in the alias of a prefix location is what follows the
\* location's own directory in the path: the resolver finds in its location
\* every path that the router sent there.
AliasReplacesLocation ==
    pc = "dispatch" /\ location # 0 =>
        LET loc == Locations[location]
        IN  loc.type = "prefix" /\ loc.alias # None /\ Uri(loc) = request.path =>
                NamesIn(FilePath) =
                    NamesIn(loc.alias) \o
                    SubSeq(NamesIn(request.path), Len(NamesIn(loc.path)) + 1, Len(NamesIn(request.path)))
=============================================================================
