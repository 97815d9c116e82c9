----------------------------- MODULE MCStartup -----------------------------
(***************************************************************************)
(* Configuration files for module Startup. The blocks of one family have   *)
(* all combinations of some directives, set or not; those of another up to *)
(* two error_page directives each; a third listens in various ways;        *)
(* and one file that uses every directive comes with all edits of a token. *)
(***************************************************************************)
EXTENDS Startup, TLC

MCParts == [word \in {"127.0.0.1:80", "127.0.0.2:80", "127.0.0.1:0", "localhost:80", ":81"} |->
    CASE word = "127.0.0.1:80" -> <<"127.0.0.1", "80">>
      [] word = "127.0.0.2:80" -> <<"127.0.0.2", "80">>
      [] word = "127.0.0.1:0" -> <<"127.0.0.1", "0">>
      [] word = "localhost:80" -> <<"localhost", "80">>
      [] word = ":81" -> <<"", "81">>]
MCPortWords == {"80", "81", "0", "65616", "65536", "404", "500", "301", "1", "2", "3"}
MCatoi(word) ==
    CASE word = "80" -> 80 [] word = "81" -> 81 [] word = "65616" -> 65616
      [] word = "65536" -> 65536 [] word = "404" -> 404 [] word = "500" -> 500
      [] word = "301" -> 301 [] word = "1" -> 1 [] word = "2" -> 2 [] word = "3" -> 3
      [] OTHER -> 0
MCNumbers == MCPortWords
MCAddresses == {"0.0.0.0", "127.0.0.1", "127.0.0.2"}
MCAbsolute == {"/h", "/s", "/l", "/p", "/a"}
MCBooleans == {"on", "off", "1", "0"}
MCSizes == {"1", "2", "3"}
MCStatusCodes == {"404", "500"}
MCReturnCodes == {"301", "404", "500"}
MCMethods == {"GET", "POST"}

-----------------------------------------------------------------------------
WithSet(block, set) == [block EXCEPT !.set = set]
With(block, set, errorPages, inside) ==
    [block EXCEPT !.set = set, !.errorPages = errorPages, !.inside = inside]

At(word, set) == ("listen" :> <<word>>) @@ set
Http == Block("http", <<>>)
Server == Block("server", <<>>)
Location == Block("location", <<"/p">>)

\* A block sets some of a few directives, to words of its own.
Subsets(words, few) == {[d \in set |-> <<words[d]>>] : set \in SUBSET (DOMAIN words \cap few)}
HttpWords == [client_max_body_size |-> "1", root |-> "/h", index |-> "h"]
ServerWords == [client_max_body_size |-> "2", root |-> "/s", index |-> "s", autoindex |-> "on"]
LocationWords == [client_max_body_size |-> "3", root |-> "/l", index |-> "l", autoindex |-> "0"]

OtherServer == With(Server, At("81", << >>), <<>>, <<Location>>)

Singles(few) ==
    {With(Http, h, <<>>,
          <<With(Server, s, <<>>, <<WithSet(Location, l), Location>>), OtherServer>>) :
       h \in Subsets(HttpWords, few), s \in Subsets(ServerWords, few), l \in Subsets(LocationWords, few)}
SingleFiles ==
    Singles({"root", "index", "autoindex"}) \cup Singles({"client_max_body_size", "index"})

\* At most one error_page directive for any codes, or two, with a page each.
CodeLists == {<<"404">>, <<"500">>, <<"404", "500">>}
OnePage(page) == {<<>>} \cup {<<Append(c, page)>> : c \in CodeLists}
TwoPages(page, other) ==
    OnePage(page) \cup {<<Append(c, page), Append(d, other)>> : c \in CodeLists, d \in CodeLists}

ErrorPages(https, servers, locations) ==
    {With(Http, << >>, h,
          <<With(Server, << >>, s, <<With(Location, << >>, l, <<>>), Location>>), OtherServer>>) :
       h \in https, s \in servers, l \in locations}
ErrorPageFiles ==
    ErrorPages(OnePage("/h1"), TwoPages("/s1", "/s2"), TwoPages("/l1", "/l2"))
      \cup ErrorPages(TwoPages("/h1", "/h2"), OnePage("/s1"), OnePage("/l1"))

\* One to three server blocks, each listening somewhere.
Listens == DOMAIN MCParts \cup {"80", "81", "0", "65616", "65536", "127.0.0.1"}
ServersAt(words) == With(Http, << >>, <<>>, [k \in DOMAIN words |-> WithSet(Server, At(words[k], << >>))])
ListenFiles ==
    {ServersAt(words) : words \in UNION {[1..n -> Listens] : n \in 1..3}}
      \cup {Http, With(Http, << >>, <<>>, <<WithSet(Server, ("listen" :> <<"80", "default_server">>))>>)}

Full ==
    With(Http, ("root" :> <<"/h">>), <<<<"404", "500", "/h1">>>>,
      <<With(Server, [listen |-> <<"80">>, server_name |-> <<"x">>], <<>>,
          <<With(Block("location", <<"=", "/p">>), [return |-> <<"301", "/a">>], <<>>, <<>>),
            WithSet(Block("location", <<".py">>),
                    [alias |-> <<"/a">>, cgi_pass |-> <<"/l">>,
                     limit_except |-> <<"GET", "POST", "{", "deny", "all", ";">>])>>),
        With(Server, [listen |-> <<"81">>, return |-> <<"301", "/a">>], <<>>, <<>>)>>)

\* One token is missing, or one more stands somewhere, or some stand twice.
FullText == HttpText(Full)
Before(k) == SubSeq(FullText, 1, k - 1)
From(k) == SubSeq(FullText, k, Len(FullText))
Edited ==
    {Before(k) \o From(k + 1) : k \in DOMAIN FullText}
      \cup {Before(k) \o <<word>> \o From(k) :
              k \in 1..(Len(FullText) + 1), word \in {"{", "}", ";", "x", "http", "location", "500"}}
      \cup {Before(k) \o <<word>> \o From(k + 1) :
              k \in DOMAIN FullText, word \in {"}", ";", "root", "alias"}}
      \cup {Before(k + n) \o From(k) : k \in 1..(Len(FullText) - 3), n \in 1..3}

MCFiles ==
    {[tokens |-> HttpText(block), block |-> block] :
       block \in SingleFiles \cup ErrorPageFiles \cup ListenFiles \cup {Full}}
      \cup {[tokens |-> text, block |-> Unwritten] : text \in Edited}

-----------------------------------------------------------------------------
MCConfigs == {NoConfig}
\* The words of all files: those of the full one, and what is in no edit of it.
MCWords ==
    {FullText[k] : k \in DOMAIN FullText} \cup Listens \cup MCBooleans \cup MCSizes \cup MCAbsolute
      \cup {"h", "s", "l", "index", "autoindex", "client_max_body_size", "default_server"}
      \cup {"/h1", "/h2", "/s1", "/s2", "/l1", "/l2"}
MCValues == MCWords \cup {"index.html"}
MCPages == MCWords
=============================================================================
