----------------------------- MODULE ConfSyntax -----------------------------
(***************************************************************************)
(* ConfParser over the tokens of a configuration file: the blocks, which   *)
(* directives each may have and how often, and the arguments of each. One  *)
(* step per turn of a loop. parseHttpContext, parseServerContext and       *)
(* parseLocationContext call each other: the blocks they are in the middle *)
(* of are a stack. A word is what the tokenizer makes of a run of          *)
(* characters; the checks on single characters are sets of words.          *)
(***************************************************************************)
EXTENDS Integers, Sequences, FiniteSets

CONSTANTS
    Files,          \* the files: the tokens of each, and the block they were written from
    Absolute,       \* words that start with a slash
    Numbers,        \* words of digits
    StatusCodes,    \* the numbers StatusCode::isValidStatusCode takes
    ReturnCodes,    \* the numbers from 100 to 599
    Sizes,          \* words isValidBodySize takes
    Booleans,       \* words isBooleanValue takes
    Methods         \* words limit_except takes

Unwritten == [kind |-> "none"]

VARIABLES
    tokens,
    written,        \* history: the http block the file was written from, if any
    token_index,    \* in tokens, from 1
    contexts,       \* the blocks being parsed, outermost first
    httpContext,    \* what parseHttpContext returned, if it has
    parser,         \* "parsing", "parsed" or "error"
    parsed          \* history: the words the http block was made of, and the
                    \* default listen directives it got

parserVars == <<tokens, written, token_index, contexts, httpContext, parser, parsed>>

-----------------------------------------------------------------------------
(***************************************************************************)
(* Blocks. set has the directives that a block may have once, error pages  *)
(* may be given several times; values are the words of the arguments.      *)
(***************************************************************************)
Block(kind, name) ==
    [kind |-> kind, name |-> name, set |-> << >>, errorPages |-> <<>>, inside |-> <<>>]

Inner == [http |-> "server", server |-> "location"]

Everywhere == {"client_max_body_size", "root", "index"}
Directives ==
    [http |-> Everywhere,
     server |-> Everywhere \cup {"listen", "server_name", "return", "autoindex"},
     location |-> Everywhere \cup {"limit_except", "return", "alias", "autoindex", "cgi_pass"}]

With1(f, key, value) == [x \in DOMAIN f \cup {key} |-> IF x = key THEN value ELSE f[x]]

-----------------------------------------------------------------------------
(***************************************************************************)
(* Reading tokens                                                          *)
(***************************************************************************)
Token(k) == IF k \in DOMAIN tokens THEN tokens[k] ELSE ""
currentToken == Token(token_index)

\* The token that ends the directive at a position, or one past the last.
EndOfDirective(k) ==
    LET ends == {m \in (k + 1)..Len(tokens) :
                   tokens[m] = IF tokens[k] = "limit_except" THEN "}" ELSE ";"}
    IN  IF ends = {} THEN Len(tokens) + 1 ELSE CHOOSE m \in ends : \A n \in ends : m <= n

Arguments(k) == SubSeq(tokens, k + 1, EndOfDirective(k) - 1)

DenyAll == <<"deny", "all", ";">>
Denies(words) ==
    /\ words # <<>> /\ Len(words) % 3 = 0
    /\ \A k \in DOMAIN words : words[k] = DenyAll[((k - 1) % 3) + 1]

\* parseLimitExceptDirective: methods, and a block with "deny all;".
LimitsMethods(words) ==
    \E open \in DOMAIN words :
        /\ words[open] = "{"
        /\ \A k \in 1..(open - 1) : words[k] \in Methods
        /\ Denies(SubSeq(words, open + 1, Len(words)))

\* parseErrorPageDirective: numbers, then a path.
NamesErrorPage(words) ==
    /\ Len(words) >= 2 /\ words[Len(words)] \notin Numbers
    /\ \A k \in 1..(Len(words) - 1) : words[k] \in Numbers /\ words[k] \in StatusCodes

\* What the parse function of a directive accepts.
Accepts(directive, words) ==
    CASE directive \in {"index", "cgi_pass", "server_name"} -> Len(words) = 1
      [] directive \in {"root", "alias"} -> Len(words) = 1 /\ words[1] \in Absolute
      [] directive = "client_max_body_size" -> Len(words) = 1 /\ words[1] \in Sizes
      [] directive = "autoindex" -> Len(words) = 1 /\ words[1] \in Booleans
      [] directive = "listen" ->
           Len(words) = 1 \/ (Len(words) = 2 /\ words[2] = "default_server")
      [] directive = "return" -> Len(words) = 2 /\ words[1] \in ReturnCodes
      [] directive = "error_page" -> NamesErrorPage(words)
      [] directive = "limit_except" -> LimitsMethods(words)

-----------------------------------------------------------------------------
Top == contexts[Len(contexts)]
InBlock == parser = "parsing" /\ contexts # <<>>
AtFileLevel == parser = "parsing" /\ contexts = <<>>

Move(next) == token_index' = next /\ UNCHANGED <<tokens, written>>

\* A number of tokens become part of a block.
Parse(n) ==
    /\ Move(token_index + n)
    /\ parsed' = parsed \o SubSeq(tokens, token_index, token_index + n - 1)

\* parseString: what is not an http block is skipped, token by token.
SkipToken ==
    /\ AtFileLevel /\ token_index <= Len(tokens) /\ currentToken # "http"
    /\ Move(token_index + 1)
    /\ UNCHANGED <<contexts, httpContext, parser, parsed>>

OpenHttp ==
    /\ AtFileLevel /\ currentToken = "http" /\ httpContext = Unwritten
    /\ Token(token_index + 1) = "{"
    /\ contexts' = <<Block("http", <<>>)>>
    /\ Parse(2)
    /\ UNCHANGED <<httpContext, parser>>

\* Mutant: "=" is taken for the path.
PathOnly == <<Token(token_index + 1)>>

\* The words between "location" and the brace: a path, or = and a path.
LocationName ==
    IF Token(token_index + 1) = "=" THEN <<"=", Token(token_index + 2)>>
    ELSE <<Token(token_index + 1)>>

\* The path is not empty, and an extension is more than its dot.
IsLocationName(name) == name[Len(name)] # "" /\ name # <<".">>

BlockName == IF Top.kind = "server" THEN LocationName ELSE <<>>
OpensBlock ==
    /\ Top.kind \in DOMAIN Inner /\ currentToken = Inner[Top.kind]
    /\ Top.kind = "server" => IsLocationName(BlockName)
    /\ Token(token_index + 1 + Len(BlockName)) = "{"

OpenBlock ==
    /\ InBlock /\ OpensBlock
    /\ contexts' = Append(contexts, Block(Inner[Top.kind], BlockName))
    /\ Parse(2 + Len(BlockName))
    /\ UNCHANGED <<httpContext, parser>>

\* Mutant: the last of several wins.
MayBeSetAgain(directive) == directive \in Directives[Top.kind]

\* The block may have the directive, and does not have it yet.
MayBeSet(directive) == directive \in Directives[Top.kind] \ DOMAIN Top.set

IsDirective ==
    /\ MayBeSet(currentToken) \/ currentToken = "error_page"
    /\ EndOfDirective(token_index) <= Len(tokens)
    /\ Accepts(currentToken, Arguments(token_index))

WithDirective(block, directive, words) ==
    IF directive = "error_page" THEN [block EXCEPT !.errorPages = Append(@, words)]
    ELSE [block EXCEPT !.set = With1(@, directive, words)]

SetDirective ==
    /\ InBlock /\ IsDirective
    /\ LET words == Arguments(token_index)
       IN  /\ contexts' = [contexts EXCEPT ![Len(contexts)] =
                              WithDirective(@, currentToken, words)]
           /\ Parse(Len(words) + 2)
    /\ UNCHANGED <<httpContext, parser>>

HasDefaultListen == Top.kind = "server" /\ "listen" \notin DOMAIN Top.set

\* What a block is once its brace has come: a server listens on port 80.
Finished ==
    IF HasDefaultListen THEN [Top EXCEPT !.set = With1(@, "listen", <<"80">>)] ELSE Top

ClosesBlock ==
    /\ currentToken = "}"
    /\ ~(Top.kind = "location" /\ {"root", "alias"} \subseteq DOMAIN Top.set)

CloseBlock ==
    /\ InBlock /\ ClosesBlock
    /\ Move(token_index + 1)
    /\ parsed' = parsed \o <<"}">> \o IF HasDefaultListen THEN <<"listen", "80", ";">> ELSE <<>>
    /\ IF Len(contexts) = 1
       THEN httpContext' = Finished /\ contexts' = <<>>
       ELSE /\ httpContext' = httpContext
            /\ contexts' = [SubSeq(contexts, 1, Len(contexts) - 1)
                              EXCEPT ![Len(contexts) - 1].inside = Append(@, Finished)]
    /\ UNCHANGED parser

\* throwError
ThrowError ==
    /\ \/ AtFileLevel /\ token_index > Len(tokens) /\ httpContext = Unwritten
       \/ /\ AtFileLevel /\ currentToken = "http"
          /\ httpContext # Unwritten \/ Token(token_index + 1) # "{"
       \/ InBlock /\ ~OpensBlock /\ ~IsDirective /\ ~ClosesBlock
    /\ parser' = "error"
    /\ UNCHANGED <<tokens, written, token_index, contexts, httpContext, parsed>>

EndOfFile ==
    /\ AtFileLevel /\ token_index > Len(tokens) /\ httpContext # Unwritten
    /\ parser' = "parsed"
    /\ UNCHANGED <<tokens, written, token_index, contexts, httpContext, parsed>>

ParserInit ==
    /\ \E file \in Files : tokens = file.tokens /\ written = file.block
    /\ token_index = 1 /\ contexts = <<>> /\ httpContext = Unwritten
    /\ parser = "parsing" /\ parsed = <<>>

ParserNext ==
    \/ SkipToken \/ OpenHttp \/ OpenBlock \/ SetDirective \/ CloseBlock
    \/ ThrowError \/ EndOfFile

-----------------------------------------------------------------------------
(***************************************************************************)
(* How a block may be written: its directives, then the blocks inside.     *)
(***************************************************************************)
Flattened(parts) ==
    LET n == Len(parts)
        from[k \in 1..(n + 1)] == IF k > n THEN <<>> ELSE parts[k] \o from[k + 1]
    IN  from[1]

Ending(directive) == IF directive = "limit_except" THEN "}" ELSE ";"

DirectiveText(directive, words) == <<directive>> \o words \o <<Ending(directive)>>

Order ==
    <<"listen", "server_name", "client_max_body_size", "root", "alias", "index",
      "autoindex", "return", "limit_except", "cgi_pass">>

DirectiveTexts(block) ==
    [k \in DOMAIN Order |->
        IF Order[k] \in DOMAIN block.set THEN DirectiveText(Order[k], block.set[Order[k]]) ELSE <<>>]

ErrorPageTexts(block) ==
    [k \in DOMAIN block.errorPages |-> DirectiveText("error_page", block.errorPages[k])]

DirectivesText(block) == Flattened(DirectiveTexts(block)) \o Flattened(ErrorPageTexts(block))

BlockText(block, inside) ==
    <<block.kind>> \o block.name \o <<"{">> \o DirectivesText(block) \o inside \o <<"}">>

LocationText(block) == BlockText(block, <<>>)
ServerText(block) ==
    BlockText(block, Flattened([k \in DOMAIN block.inside |-> LocationText(block.inside[k])]))
HttpText(block) ==
    BlockText(block, Flattened([k \in DOMAIN block.inside |-> ServerText(block.inside[k])]))

-----------------------------------------------------------------------------
(***************************************************************************)
(* Properties                                                              *)
(***************************************************************************)
\* The blocks being parsed are an http block, a server in it and a location in
\* that, and each has only directives it may have.
BlockType(block, kind) ==
    /\ block.kind = kind /\ DOMAIN block.set \subseteq Directives[kind]
    /\ \A k \in DOMAIN block.errorPages : NamesErrorPage(block.errorPages[k])

ParserTypeOK ==
    /\ parser \in {"parsing", "parsed", "error"} /\ token_index \in 1..(Len(tokens) + 1)
    /\ Len(contexts) <= 3
    /\ \A k \in DOMAIN contexts : BlockType(contexts[k], <<"http", "server", "location">>[k])
    /\ httpContext # Unwritten => BlockType(httpContext, "http")

\* What a block that was written means: a server listens somewhere.
Listening(block) ==
    IF "listen" \in DOMAIN block.set THEN block ELSE WithDirective(block, "listen", <<"80">>)
Meaning(block) == [block EXCEPT !.inside = [k \in DOMAIN @ |-> Listening(@[k])]]

\* ConfParser: a configuration is parsed to the blocks it was written from,
\* whichever of the directives each has.
ParsedAsWritten ==
    (written # Unwritten /\ parser # "parsing") =>
        (parser = "parsed" /\ httpContext = Meaning(written))

Count(word, text) == Cardinality({k \in DOMAIN text : text[k] = word})

\* ConfParser: a file that is accepted has no word between "http" and the brace
\* that ends its block which did not become part of a block: the blocks, written
\* out again, have the same words, each as often. A directive that is misspelt,
\* misplaced, repeated or cut off is an error, never skipped.
NothingIsSkipped ==
    parser = "parsed" =>
        LET text == HttpText(httpContext)
        IN  /\ Len(parsed) = Len(text)
            /\ \A k \in DOMAIN text : Count(text[k], parsed) = Count(text[k], text)
=============================================================================
