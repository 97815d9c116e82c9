------------------------------ MODULE Cascade ------------------------------
(***************************************************************************)
(* How the settings of http, server and location blocks come together:     *)
(* ConfCascader::applyCascade, one step per block, which copies directives *)
(* downwards and merges error_page directives, and the look-up of error    *)
(* pages in the result by ConfigManager::findErrorPagePath.                *)
(***************************************************************************)
EXTENDS Naturals, Sequences

CONSTANTS
    Configs,    \* the configurations the parser may produce
    Values,     \* what directives are set to
    Codes,      \* status codes
    Pages,      \* the paths of error pages
    None        \* a directive that is absent, or a page that is not found

\* The directives a block has at most one of, and to which the cascade applies.
HttpDirectives == {"client_max_body_size", "root", "index"}
ServerDirectives == HttpDirectives \cup {"autoindex"}

\* An error_page directive names some codes and a page for them; a merged one
\* has its pages from several.
ErrorPageMap == UNION {[C -> Pages] : C \in SUBSET Codes}

SingleType(directives) == [directives -> Values \cup {None}]

LocationType == [single : SingleType(ServerDirectives), errorPages : Seq(ErrorPageMap)]
ServerType == [single : SingleType(ServerDirectives), errorPages : Seq(ErrorPageMap),
               locations : Seq(LocationType)]
HttpType == [single : SingleType(HttpDirectives), errorPages : Seq(ErrorPageMap),
             servers : Seq(ServerType)]

ASSUME CascadeAssumption ==
    Configs \subseteq HttpType /\ None \notin Pages \cup Values /\ "index.html" \in Values

VARIABLES
    originalConfig,
    config,     \* cascadedConfig
    pc, i, j    \* the two loops of applyCascade

vars == <<originalConfig, config, pc, i, j>>

Init ==
    /\ originalConfig \in Configs /\ config = originalConfig
    /\ pc = "servers" /\ i = 1 /\ j = 1

-----------------------------------------------------------------------------
(***************************************************************************)
(* What a block takes over from one around it.                             *)
(***************************************************************************)
\* Mutant: the block around it decides.
ParentsDirective(parent, child) == IF parent = None THEN child ELSE parent

cascadeDirective(parent, child) == IF child = None THEN parent ELSE child

NamesOf(code, errorPages) == {k \in DOMAIN errorPages : code \in DOMAIN errorPages[k]}
CodesOf(errorPages) == {code \in Codes : NamesOf(code, errorPages) # {}}

\* What several directives say together: the last one that names a code.
Collected(errorPages) ==
    [code \in CodesOf(errorPages) |->
        LET last == CHOOSE k \in NamesOf(code, errorPages) :
                      \A m \in NamesOf(code, errorPages) : m <= k
        IN  errorPages[last][code]]

\* Mutant: the parent's pages replace the child's.
MergedOverChild(parent, child) ==
    [code \in CodesOf(parent) \cup CodesOf(child) |->
        IF code \in CodesOf(parent) THEN Collected(parent)[code] ELSE Collected(child)[code]]

Merged(parent, child) ==
    [code \in CodesOf(parent) \cup CodesOf(child) |->
        IF code \in CodesOf(child) THEN Collected(child)[code] ELSE Collected(parent)[code]]

cascadeErrorPage(parent, child) ==
    CASE child = <<>> -> parent
      [] child # <<>> /\ parent = <<>> -> child
      [] child # <<>> /\ parent # <<>> -> <<Merged(parent, child)>>

\* Mutant: a block that sets nothing takes over all that its parent has.
CascadeWhole(parent, child) ==
    [child EXCEPT
        !.single = IF \A d \in DOMAIN @ : @[d] = None THEN parent.single
                   ELSE [d \in DOMAIN @ |-> IF d \in DOMAIN parent.single
                                            THEN cascadeDirective(parent.single[d], @[d]) ELSE @[d]],
        !.errorPages = cascadeErrorPage(parent.errorPages, @)]

\* cascadeHttpToServer, cascadeServerToLocation and cascadeHttpToLocation: each
\* passes on the directives that both blocks may have.
Cascade(parent, child) ==
    [child EXCEPT
        !.single = [d \in DOMAIN @ |-> IF d \in DOMAIN parent.single
                                       THEN cascadeDirective(parent.single[d], @[d]) ELSE @[d]],
        !.errorPages = cascadeErrorPage(parent.errorPages, @)]

-----------------------------------------------------------------------------
(***************************************************************************)
(* applyCascade                                                            *)
(***************************************************************************)
CascadeToServer ==
    /\ pc = "servers" /\ i <= Len(config.servers)
    /\ config' = [config EXCEPT !.servers[i] = Cascade(config, @)]
    /\ pc' = "locations" /\ j' = 1
    /\ UNCHANGED <<originalConfig, i>>

CascadeToLocation ==
    /\ pc = "locations" /\ j <= Len(config.servers[i].locations)
    /\ config' = [config EXCEPT !.servers[i].locations[j] =
                     Cascade(config, Cascade(config.servers[i], @))]
    /\ j' = j + 1
    /\ UNCHANGED <<originalConfig, pc, i>>

NextServer ==
    /\ pc = "locations" /\ j = Len(config.servers[i].locations) + 1
    /\ pc' = "servers" /\ i' = i + 1
    /\ UNCHANGED <<originalConfig, config, j>>

WithDefault(block) ==
    [block EXCEPT !.single["index"] = IF @ = None THEN "index.html" ELSE @]

\* A server block and the locations in it.
WithDefaults(block) ==
    [WithDefault(block) EXCEPT !.locations = [l \in DOMAIN @ |-> WithDefault(@[l])]]

applyDefaultValues ==
    /\ pc = "servers" /\ i = Len(config.servers) + 1
    /\ config' =
         [WithDefault(config) EXCEPT !.servers = [s \in DOMAIN @ |-> WithDefaults(@[s])]]
    /\ pc' = "done"
    /\ UNCHANGED <<originalConfig, i, j>>

Next == CascadeToServer \/ CascadeToLocation \/ NextServer \/ applyDefaultValues

Spec == Init /\ [][Next]_vars

-----------------------------------------------------------------------------
(***************************************************************************)
(* ConfigManager: the error page of a response, for a request that was     *)
(* routed to location l of server s (0 if to none).                        *)
(***************************************************************************)
lookupErrorPage(code, errorPages) ==
    IF code \notin CodesOf(errorPages) THEN None
    ELSE LET first == CHOOSE k \in NamesOf(code, errorPages) :
                        \A m \in NamesOf(code, errorPages) : k <= m
         IN  errorPages[first][code]

findErrorPagePath(code, s, l) ==
    LET server == config.servers[s]
        ofLocation == IF l = 0 THEN None ELSE lookupErrorPage(code, server.locations[l].errorPages)
        ofServer == lookupErrorPage(code, server.errorPages)
    IN  CASE ofLocation # None -> ofLocation
          [] ofLocation = None /\ ofServer # None -> ofServer
          [] ofLocation = None /\ ofServer = None -> lookupErrorPage(code, config.errorPages)

-----------------------------------------------------------------------------
(***************************************************************************)
(* Properties                                                              *)
(***************************************************************************)
\* The cascade keeps the shape of the configuration and gives no block a
\* directive it cannot have.
TypeOK ==
    /\ originalConfig \in HttpType /\ config \in HttpType
    /\ pc \in {"servers", "locations", "done"} /\ i \in Nat \ {0} /\ j \in Nat \ {0}

\* The blocks around location l of server s as they were written, innermost
\* first; l is 0 for the server itself.
Written(s, l) ==
    LET server == originalConfig.servers[s]
        outer == <<server, originalConfig>>
    IN  IF l = 0 THEN outer ELSE <<server.locations[l]>> \o outer

Sets(block, d) == d \in DOMAIN block.single /\ block.single[d] # None

\* The first of the blocks that satisfy a condition, given as the set of them.
IsInnermost(k, levels) == k \in levels /\ \A m \in levels : k <= m

\* applyCascade: every directive of a block has the value of the innermost block
\* around it that sets it, and index has its default if none does; what siblings
\* say does not matter.
InnermostWins ==
    pc = "done" =>
        \A s \in DOMAIN config.servers : \A l \in 0..Len(config.servers[s].locations) :
            LET block == IF l = 0 THEN config.servers[s] ELSE config.servers[s].locations[l]
                blocks == Written(s, l)
            IN  \A d \in ServerDirectives :
                  LET setting == {k \in DOMAIN blocks : Sets(blocks[k], d)}
                  IN  IF setting = {}
                      THEN block.single[d] = IF d = "index" THEN "index.html" ELSE None
                      ELSE \E k \in setting : /\ IsInnermost(k, setting)
                                              /\ block.single[d] = blocks[k].single[d]

\* findErrorPagePath: the page of a response is one that the innermost block
\* naming its code gives for it, and the only one if it names the code once.
\* A block that names a code twice gets the first of its pages, or the last if
\* it was merged with a block around it.
PageIsOfInnermost ==
    pc = "done" =>
        \A s \in DOMAIN config.servers : \A l \in 0..Len(config.servers[s].locations) :
        \A code \in Codes :
            LET blocks == Written(s, l)
                naming == {k \in DOMAIN blocks : code \in CodesOf(blocks[k].errorPages)}
                page == findErrorPagePath(code, s, l)
            IN  IF naming = {} THEN page = None
                ELSE \E k \in naming :
                       /\ IsInnermost(k, naming)
                       /\ \E m \in NamesOf(code, blocks[k].errorPages) :
                            page = blocks[k].errorPages[m][code]
=============================================================================
