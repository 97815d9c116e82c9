------------------------------ MODULE Startup ------------------------------
(***************************************************************************)
(* main: a configuration file is parsed (ConfSyntax), its settings come    *)
(* together (Cascade), and ConfApplicator has Server::addListenPort make a *)
(* listening socket for every server block, before the event loop runs.    *)
(***************************************************************************)
EXTENDS Cascade, ConfSyntax

CONSTANTS
    Parts,      \* of words with a colon: the two words around the first
    PortWords,  \* words that start with a digit and have no dot and no colon
    atoi(_),    \* the number a word starts with, 0 if none
    Addresses   \* the words inet_pton takes

NoConfig == [single |-> [d \in HttpDirectives |-> None], errorPages |-> <<>>, servers |-> <<>>]

\* What directives and error pages may be set to includes the words of the
\* files, and what the parser makes of some of them.
ASSUME StartupAssumption ==
    /\ Configs = {NoConfig} /\ "0.0.0.0" \in Addresses
    /\ \A file \in Files : file.tokens \in Seq(Values) /\ file.tokens \in Seq(Pages)
    /\ StatusCodes \subseteq Codes /\ {"on", "off", "80"} \subseteq Values

\* What may be written as the arguments of a directive.
CanBeGiven(directive, words) ==
    /\ words \in Seq(Values) /\ Accepts(directive, words)
    /\ \A k \in DOMAIN words : words[k] # Ending(directive)

\* What may be written between "location" and the brace.
CanBeNamed(name) ==
    \/ \E path \in Values \ {"", "=", "."} : name = <<path>>
    \/ \E path \in Values \ {""} : name = <<"=", path>>

\* A block as the syntax of configuration files has it.
IsWritten(block, kind) ==
    /\ block = [kind |-> kind, name |-> block.name, set |-> block.set,
                errorPages |-> block.errorPages, inside |-> block.inside]
    /\ IF kind = "location" THEN CanBeNamed(block.name) ELSE block.name = <<>>
    /\ block.set = [d \in DOMAIN block.set |-> block.set[d]] /\ DOMAIN block.set \subseteq Directives[kind]
    /\ \A d \in DOMAIN block.set : CanBeGiven(d, block.set[d])
    /\ block.errorPages \in Seq(Seq(Values))
    /\ \A k \in DOMAIN block.errorPages : CanBeGiven("error_page", block.errorPages[k])
    /\ kind = "location" => ~({"root", "alias"} \subseteq DOMAIN block.set)

IsWrittenLocation(block) == IsWritten(block, "location") /\ block.inside = <<>>
IsWrittenServer(block) ==
    /\ IsWritten(block, "server") /\ block.inside \in Seq({block.inside[k] : k \in DOMAIN block.inside})
    /\ \A k \in DOMAIN block.inside : IsWrittenLocation(block.inside[k])
IsWrittenHttp(block) ==
    /\ IsWritten(block, "http") /\ block.inside \in Seq({block.inside[k] : k \in DOMAIN block.inside})
    /\ \A k \in DOMAIN block.inside : IsWrittenServer(block.inside[k])

\* A file that was written from a block is the text of such a block.
ASSUME FilesAssumption ==
    \A file \in Files : file.block # Unwritten =>
        IsWrittenHttp(file.block) /\ file.tokens = HttpText(file.block)

VARIABLES
    stage,          \* of main
    server,         \* the loop of ConfApplicator::applyConfig
    sockets,        \* of the process: what each open listening socket is bound to
    interest,       \* the epoll set
    _server_fds,
    _server_ports

serverVars == <<sockets, interest, _server_fds, _server_ports>>
startupVars == <<vars, parserVars, stage, server, serverVars>>

-----------------------------------------------------------------------------
(***************************************************************************)
(* What the parser leaves in the ConfigDTO                                 *)
(***************************************************************************)
parseBoolean(word) == IF word \in {"on", "true", "1"} THEN "on" ELSE "off"

ValueOf(block, d) ==
    CASE d \notin DOMAIN block.set -> None
      [] d \in DOMAIN block.set /\ d = "autoindex" -> parseBoolean(block.set[d][1])
      [] d \in DOMAIN block.set /\ d # "autoindex" -> block.set[d][1]

\* Of the words of an error_page directive the last is the page.
ErrorPageDirective(words) ==
    [code \in {words[k] : k \in 1..(Len(words) - 1)} |-> words[Len(words)]]

Single(block, directives) == [d \in directives |-> ValueOf(block, d)]
ErrorPagesOf(block) == [k \in DOMAIN block.errorPages |-> ErrorPageDirective(block.errorPages[k])]

LocationDTO(block) ==
    [single |-> Single(block, ServerDirectives), errorPages |-> ErrorPagesOf(block)]
ServerDTO(block) ==
    [single |-> Single(block, ServerDirectives), errorPages |-> ErrorPagesOf(block),
     locations |-> [k \in DOMAIN block.inside |-> LocationDTO(block.inside[k])]]
HttpDTO(block) ==
    [single |-> Single(block, HttpDirectives), errorPages |-> ErrorPagesOf(block),
     servers |-> [k \in DOMAIN block.inside |-> ServerDTO(block.inside[k])]]

parseListenAddress(address) ==
    CASE address \in DOMAIN Parts ->
           [host |-> Parts[address][1], port |-> atoi(Parts[address][2])]
      [] address \in PortWords -> [host |-> "0.0.0.0", port |-> atoi(address)]
      [] address \notin PortWords \cup DOMAIN Parts -> [host |-> address, port |-> 80]

\* The server blocks in the file, and where each is to listen.
serverContexts == httpContext.inside
ListenOf(s) == parseListenAddress(serverContexts[s].set["listen"][1])

-----------------------------------------------------------------------------
(***************************************************************************)
(* The system calls                                                        *)
(***************************************************************************)
htons(port) == port % 65536

\* An empty host is every address, like 0.0.0.0.
HostOf(listen) == IF listen.host = "" THEN "0.0.0.0" ELSE listen.host
Endpoint(listen) == [host |-> HostOf(listen), port |-> htons(listen.port)]

\* Two sockets may not have the same address and port, or the same port when
\* one has every address; for port 0 the system picks a free one.
Clash(a, b) ==
    /\ a.port = b.port /\ a.port # 0
    /\ a.host = b.host \/ "0.0.0.0" \in {a.host, b.host}

CanBind(endpoint) ==
    /\ endpoint.host \in Addresses
    /\ \A fd \in DOMAIN sockets : ~Clash(sockets[fd], endpoint)

\* The lowest number that is free.
NewSocket ==
    CHOOSE fd \in (0..Len(_server_fds)) \ DOMAIN sockets : 0..(fd - 1) \subseteq DOMAIN sockets

-----------------------------------------------------------------------------
(***************************************************************************)
(* main                                                                    *)
(***************************************************************************)
Parsing ==
    /\ stage = "parse" /\ ParserNext
    /\ UNCHANGED <<vars, stage, server, serverVars>>

\* The parser throws: main ends.
ParseFails ==
    /\ stage = "parse" /\ parser = "error" /\ stage' = "failed"
    /\ UNCHANGED <<vars, parserVars, server, serverVars>>

CallApplyCascade ==
    /\ stage = "parse" /\ parser = "parsed" /\ stage' = "cascade"
    /\ originalConfig' = HttpDTO(httpContext) /\ config' = HttpDTO(httpContext)
    /\ UNCHANGED <<pc, i, j, parserVars, server, serverVars>>

Cascading ==
    /\ stage = "cascade" /\ Next
    /\ UNCHANGED <<parserVars, stage, server, serverVars>>

\* Server::init: epoll_create may fail.
InitServer ==
    /\ stage = "cascade" /\ pc = "done" /\ stage' \in {"apply", "failed"}
    /\ UNCHANGED <<vars, parserVars, server, serverVars>>

\* Mutant: a port that some block already listens on is not taken again.
SkippedWhenPortTaken(s) ==
    ListenOf(s).port = 0 \/ \E fd \in DOMAIN _server_ports : _server_ports[fd] = ListenOf(s).port

\* ConfApplicator leaves out a block whose port is 0, or is not a number.
Skipped(s) == ListenOf(s).port = 0

Applying == stage = "apply" /\ server <= Len(serverContexts)

SkipServer ==
    /\ Applying /\ Skipped(server) /\ server' = server + 1
    /\ UNCHANGED <<vars, parserVars, stage, serverVars>>

addListenPort ==
    /\ Applying /\ ~Skipped(server)
    /\ LET endpoint == Endpoint(ListenOf(server))
           fd == NewSocket
       IN  /\ CanBind(endpoint)
           /\ sockets' = [x \in DOMAIN sockets \cup {fd} |-> IF x = fd THEN endpoint ELSE sockets[x]]
           /\ interest' = interest \cup {fd}
           /\ _server_fds' = Append(_server_fds, fd)
           /\ _server_ports' = [x \in DOMAIN _server_ports \cup {fd} |->
                                   IF x = fd THEN ListenOf(server).port ELSE _server_ports[x]]
    /\ server' = server + 1
    /\ UNCHANGED <<vars, parserVars, stage>>

\* Any of the calls may fail, bind when another program has the port: the
\* socket is closed, and main ends.
ListenFails ==
    /\ Applying /\ ~Skipped(server) /\ stage' = "failed"
    /\ UNCHANGED <<vars, parserVars, server, serverVars>>

\* Server::run, which returns at once when there is no socket.
Run ==
    /\ stage = "apply" /\ server > Len(serverContexts)
    /\ stage' = IF _server_fds = <<>> THEN "ended" ELSE "running"
    /\ UNCHANGED <<vars, parserVars, server, serverVars>>

Ended == stage \in {"failed", "ended", "running"} /\ UNCHANGED startupVars

StartupInit ==
    /\ Init /\ ParserInit
    /\ stage = "parse" /\ server = 1
    /\ sockets = << >> /\ interest = {} /\ _server_fds = <<>> /\ _server_ports = << >>

StartupNext ==
    \/ Parsing \/ ParseFails \/ CallApplyCascade \/ Cascading \/ InitServer
    \/ SkipServer \/ addListenPort \/ ListenFails \/ Run \/ Ended

StartupSpec == StartupInit /\ [][StartupNext]_startupVars

-----------------------------------------------------------------------------
(***************************************************************************)
(* Properties                                                              *)
(***************************************************************************)
\* The parser's, the cascade's and the server's state; Server's two tables and
\* the epoll set have the same sockets, all of them open.
StartupTypeOK ==
    /\ TypeOK /\ ParserTypeOK
    /\ stage \in {"parse", "cascade", "apply", "failed", "ended", "running"}
    /\ server \in Nat \ {0} /\ interest = DOMAIN sockets
    /\ DOMAIN _server_ports = DOMAIN sockets
    /\ {_server_fds[k] : k \in DOMAIN _server_fds} = DOMAIN sockets

\* ConfApplicator and Server: when the event loop runs, every server block of the
\* file has a socket of its own, bound to its address and port and known by its
\* port, unless its port is 0; and no other socket is open. Blocks that differ
\* only in their address each have one.
ListensWhereConfigured ==
    stage = "running" =>
        LET listening == {s \in DOMAIN serverContexts : ListenOf(s).port # 0}
        IN  /\ Cardinality(DOMAIN sockets) = Cardinality(listening)
            /\ \A s \in listening : \E fd \in interest :
                 /\ sockets[fd] = Endpoint(ListenOf(s)) /\ _server_ports[fd] = ListenOf(s).port
=============================================================================
