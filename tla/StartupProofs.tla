--------------------------- MODULE StartupProofs ---------------------------
(***************************************************************************)
(* Proofs about the way from a configuration file to listening sockets,    *)
(* for every file: what ConfParser leaves is a configuration, applyCascade *)
(* gives every block what the innermost block around it says, and main     *)
(* listens where the server blocks say.                                    *)
(***************************************************************************)
EXTENDS Startup, LeastNaturals, SequenceTheorems, FiniteSetTheorems, FunctionTheorems, TLAPS

-----------------------------------------------------------------------------
(***************************************************************************)
(* What the error_page directives of one block say.                        *)
(***************************************************************************)
PageMaps == Seq(ErrorPageMap)

\* A directive of the block gives this page for the code.
Says(code, errorPages, page) ==
    \E m \in NamesOf(code, errorPages) : page = errorPages[m][code]

\* A map of error pages is a function from some codes to pages.
LEMMA PageMapType ==
    ASSUME NEW map \in ErrorPageMap
    PROVE  /\ DOMAIN map \subseteq Codes /\ map = [code \in DOMAIN map |-> map[code]]
           /\ \A code \in DOMAIN map : map[code] \in Pages
<1>1. PICK C \in SUBSET Codes : map \in [C -> Pages]
  BY DEF ErrorPageMap
<1> QED
  BY <1>1

\* A function from some codes to pages is a map of error pages.
LEMMA IsPageMap ==
    ASSUME NEW C \in SUBSET Codes, NEW f \in [C -> Pages]
    PROVE  f \in ErrorPageMap
BY DEF ErrorPageMap

\* Of the directives that name a code there is a first and a last one, and each
\* gives it a page.
LEMMA NamesAreFound ==
    ASSUME NEW eps \in PageMaps, NEW code \in CodesOf(eps)
    PROVE  /\ \E k \in NamesOf(code, eps) : \A m \in NamesOf(code, eps) : k <= m
           /\ \E k \in NamesOf(code, eps) : \A m \in NamesOf(code, eps) : m <= k
           /\ \A k \in NamesOf(code, eps) : eps[k][code] \in Pages
<1> DEFINE N == NamesOf(code, eps)
<1>1. N # {} /\ N \subseteq 1..Len(eps) /\ Len(eps) \in Nat
  BY DEF CodesOf, NamesOf, PageMaps
<1>2. \A k \in N : eps[k] \in ErrorPageMap /\ code \in DOMAIN eps[k]
  BY DEF NamesOf, PageMaps
<1> HIDE DEF N
<1>3. N \subseteq Nat /\ \A x \in N : x <= Len(eps)
  BY <1>1
<1>4. \E k \in N : \A m \in N : k <= m
  BY <1>1, <1>3, LeastNatural
<1>5. \E k \in N : \A m \in N : m <= k
  BY <1>1, <1>3, GreatestNatural
<1>6. \A k \in N : eps[k][code] \in Pages
  BY <1>2, PageMapType
<1> QED
  BY <1>4, <1>5, <1>6 DEF N

\* What several directives say together is said by one of them.
LEMMA CollectedSays ==
    ASSUME NEW eps \in PageMaps, NEW code \in CodesOf(eps)
    PROVE  Says(code, eps, Collected(eps)[code]) /\ Collected(eps)[code] \in Pages
<1> DEFINE last == CHOOSE k \in NamesOf(code, eps) : \A m \in NamesOf(code, eps) : m <= k
<1>1. last \in NamesOf(code, eps)
  BY NamesAreFound
<1>2. Collected(eps)[code] = eps[last][code]
  BY DEF Collected
<1> QED
  BY <1>1, <1>2, NamesAreFound DEF Says

\* The page that is looked up is one the block gives, if it names the code.
LEMMA LookupSays ==
    ASSUME NEW eps \in PageMaps, NEW code \in Codes
    PROVE  /\ code \in CodesOf(eps) => /\ Says(code, eps, lookupErrorPage(code, eps))
                                       /\ lookupErrorPage(code, eps) \in Pages
           /\ code \notin CodesOf(eps) => lookupErrorPage(code, eps) = None
<1> DEFINE first == CHOOSE k \in NamesOf(code, eps) : \A m \in NamesOf(code, eps) : k <= m
<1>1. ASSUME code \in CodesOf(eps)
      PROVE  first \in NamesOf(code, eps) /\ lookupErrorPage(code, eps) = eps[first][code]
  <2>1. first \in NamesOf(code, eps)
    BY <1>1, NamesAreFound
  <2> QED
    BY <1>1, <2>1 DEF lookupErrorPage
<1> HIDE DEF first
<1>2. code \notin CodesOf(eps) => lookupErrorPage(code, eps) = None
  BY DEF lookupErrorPage
<1> QED
  BY <1>1, <1>2, NamesAreFound DEF Says

\* A block that holds one map says what the map says.
LEMMA OneMap ==
    ASSUME NEW map \in ErrorPageMap
    PROVE  /\ <<map>> \in PageMaps /\ CodesOf(<<map>>) = DOMAIN map
           /\ \A code, page : Says(code, <<map>>, page) <=> code \in DOMAIN map /\ page = map[code]
<1>1. <<map>> \in PageMaps /\ DOMAIN <<map>> = {1} /\ <<map>>[1] = map
  BY DEF PageMaps
<1>2. \A code : NamesOf(code, <<map>>) = IF code \in DOMAIN map THEN {1} ELSE {}
  BY <1>1 DEF NamesOf
<1> QED
  BY <1>1, <1>2, PageMapType DEF CodesOf, Says

\* cascadeErrorPage: a code that the block names has one of its own pages, any
\* other code what the block around it says.
LEMMA CascadedPages ==
    ASSUME NEW parent \in PageMaps, NEW child \in PageMaps
    PROVE  LET both == cascadeErrorPage(parent, child)
           IN  /\ both \in PageMaps
               /\ CodesOf(both) = CodesOf(parent) \cup CodesOf(child)
               /\ \A code \in Codes : \A page :
                    Says(code, both, page) =>
                        Says(code, IF code \in CodesOf(child) THEN child ELSE parent, page)
<1> DEFINE both == cascadeErrorPage(parent, child)
           merged == Merged(parent, child)
<1>1. CASE child = <<>>
  <2>1. both = parent /\ CodesOf(child) = {}
    BY <1>1 DEF cascadeErrorPage, CodesOf, NamesOf
  <2> QED
    BY <2>1
<1>2. CASE child # <<>> /\ parent = <<>>
  <2>1. both = child /\ CodesOf(parent) = {}
    BY <1>2 DEF cascadeErrorPage, CodesOf, NamesOf
  <2>2. \A code, page : Says(code, child, page) => (code \in Codes => code \in CodesOf(child))
    BY DEF Says, CodesOf
  <2> QED
    BY <2>1, <2>2
<1>3. CASE child # <<>> /\ parent # <<>>
  <2>1. both = <<merged>>
    BY <1>3 DEF cascadeErrorPage
  <2>2. /\ DOMAIN merged = CodesOf(parent) \cup CodesOf(child)
        /\ \A code \in DOMAIN merged :
             merged[code] = IF code \in CodesOf(child) THEN Collected(child)[code]
                                                      ELSE Collected(parent)[code]
    BY DEF Merged
  <2>3. merged \in [CodesOf(parent) \cup CodesOf(child) -> Pages]
    <3>1. \A code \in CodesOf(parent) : Collected(parent)[code] \in Pages
      BY CollectedSays
    <3>2. \A code \in CodesOf(child) : Collected(child)[code] \in Pages
      BY CollectedSays
    <3> QED
      BY <3>1, <3>2 DEF Merged
  <2>4. CodesOf(parent) \cup CodesOf(child) \in SUBSET Codes
    BY DEF CodesOf
  <2> HIDE DEF merged
  <2>5. merged \in ErrorPageMap
    BY <2>3, <2>4, IsPageMap
  <2>6. both \in PageMaps /\ CodesOf(both) = CodesOf(parent) \cup CodesOf(child)
    BY <2>1, <2>2, <2>5, OneMap
  <2>7. ASSUME NEW code \in Codes, NEW page, Says(code, both, page)
        PROVE  Says(code, IF code \in CodesOf(child) THEN child ELSE parent, page)
    <3>1. code \in DOMAIN merged /\ page = merged[code]
      BY <2>1, <2>5, <2>7, OneMap
    <3> QED
      BY <2>2, <3>1, CollectedSays
  <2> QED
    BY <2>6, <2>7
<1> QED
  BY <1>1, <1>2, <1>3

-----------------------------------------------------------------------------
(***************************************************************************)
(* One step of the cascade, field by field.                                *)
(***************************************************************************)
\* The directives of a block once those of one around it were passed down.
Singles(parent, child) ==
    [d \in DOMAIN child |-> IF d \in DOMAIN parent THEN cascadeDirective(parent[d], child[d])
                                                  ELSE child[d]]

\* A block of some type: what has directives and error pages.
IsBlock(block, directives) ==
    block.single \in SingleType(directives) /\ block.errorPages \in PageMaps

\* Cascade assigns the directives and the error pages, and keeps the rest.
LEMMA CascadeFields ==
    ASSUME NEW parent
    PROVE  /\ \A child \in LocationType :
                /\ Cascade(parent, child).single = Singles(parent.single, child.single)
                /\ Cascade(parent, child).errorPages
                     = cascadeErrorPage(parent.errorPages, child.errorPages)
                /\ Cascade(parent, child)
                     = [single |-> Cascade(parent, child).single,
                        errorPages |-> Cascade(parent, child).errorPages]
           /\ \A child \in ServerType :
                /\ Cascade(parent, child).single = Singles(parent.single, child.single)
                /\ Cascade(parent, child).errorPages
                     = cascadeErrorPage(parent.errorPages, child.errorPages)
                /\ Cascade(parent, child).locations = child.locations
                /\ Cascade(parent, child)
                     = [single |-> Cascade(parent, child).single,
                        errorPages |-> Cascade(parent, child).errorPages,
                        locations |-> child.locations]
<1> DEFINE single(child) == Singles(parent.single, child.single)
           pages(child) == cascadeErrorPage(parent.errorPages, child.errorPages)
<1>1. \A child : Cascade(parent, child)
                   = [child EXCEPT !.single = single(child), !.errorPages = pages(child)]
  BY DEF Cascade, Singles
<1> HIDE DEF single, pages
<1>2. ASSUME NEW child \in LocationType
      PROVE  Cascade(parent, child) = [single |-> single(child), errorPages |-> pages(child)]
  <2> DEFINE S == SingleType(ServerDirectives)
             E == Seq(ErrorPageMap)
             s == single(child)
             p == pages(child)
  <2>1. child \in [single : S, errorPages : E]
    BY DEF LocationType
  <2>2. Cascade(parent, child) = [child EXCEPT !.single = s, !.errorPages = p]
    BY <1>1
  <2> HIDE DEF S, E, s, p
  <2>3. [child EXCEPT !.single = s, !.errorPages = p] = [single |-> s, errorPages |-> p]
    <3> DEFINE a == [child EXCEPT !.single = s]
    <3>1. a = [single |-> s, errorPages |-> child.errorPages]
      BY <2>1
    <3> HIDE DEF a
    <3>2. [a EXCEPT !.errorPages = p] = [single |-> s, errorPages |-> p]
      BY <3>1
    <3> QED
      BY <3>2 DEF a
  <2> QED
    BY <2>2, <2>3 DEF s, p
<1>3. ASSUME NEW child \in ServerType
      PROVE  Cascade(parent, child) = [single |-> single(child), errorPages |-> pages(child),
                                       locations |-> child.locations]
  <2> DEFINE S == SingleType(ServerDirectives)
             E == Seq(ErrorPageMap)
             T == Seq(LocationType)
             s == single(child)
             p == pages(child)
  <2>1. child \in [single : S, errorPages : E, locations : T]
    BY DEF ServerType
  <2>2. Cascade(parent, child) = [child EXCEPT !.single = s, !.errorPages = p]
    BY <1>1
  <2> HIDE DEF S, E, T, s, p
  <2>3. [child EXCEPT !.single = s, !.errorPages = p]
          = [single |-> s, errorPages |-> p, locations |-> child.locations]
    <3> DEFINE a == [child EXCEPT !.single = s]
    <3>1. a = [single |-> s, errorPages |-> child.errorPages, locations |-> child.locations]
      BY <2>1
    <3> HIDE DEF a
    <3>2. [a EXCEPT !.errorPages = p]
            = [single |-> s, errorPages |-> p, locations |-> child.locations]
      BY <3>1
    <3> QED
      BY <3>2 DEF a
  <2> QED
    BY <2>2, <2>3 DEF s, p
<1> QED
  BY <1>2, <1>3 DEF single, pages

\* The directives keep their type, and each is the child's, or else the parent's
\* if the parent may have it.
LEMMA SinglesAre ==
    ASSUME NEW P, NEW C, NEW parent \in SingleType(P), NEW child \in SingleType(C)
    PROVE  /\ Singles(parent, child) \in SingleType(C)
           /\ \A d \in C : Singles(parent, child)[d] =
                CASE child[d] # None -> child[d]
                  [] child[d] = None /\ d \in P -> parent[d]
                  [] child[d] = None /\ d \notin P -> None
BY DEF SingleType, Singles, cascadeDirective

\* A cascade gives a block of the same type.
LEMMA CascadeType ==
    ASSUME NEW D, NEW parent, IsBlock(parent, D)
    PROVE  /\ \A child \in LocationType : Cascade(parent, child) \in LocationType
           /\ \A child \in ServerType : Cascade(parent, child) \in ServerType
<1>1. ASSUME NEW C, NEW child, IsBlock(child, C)
      PROVE  /\ Singles(parent.single, child.single) \in SingleType(C)
             /\ cascadeErrorPage(parent.errorPages, child.errorPages) \in PageMaps
  <2>1. Singles(parent.single, child.single) \in SingleType(C)
    BY <1>1, SinglesAre DEF IsBlock
  <2>2. cascadeErrorPage(parent.errorPages, child.errorPages) \in PageMaps
    BY <1>1, CascadedPages DEF IsBlock
  <2> QED
    BY <2>1, <2>2
<1>2. ASSUME NEW child \in LocationType PROVE Cascade(parent, child) \in LocationType
  <2>1. IsBlock(child, ServerDirectives)
    BY DEF LocationType, IsBlock, PageMaps
  <2>2. /\ Cascade(parent, child).single \in SingleType(ServerDirectives)
        /\ Cascade(parent, child).errorPages \in PageMaps
    BY <1>1, <2>1, CascadeFields
  <2>3. Cascade(parent, child) = [single |-> Cascade(parent, child).single,
                                  errorPages |-> Cascade(parent, child).errorPages]
    BY CascadeFields
  <2> QED
    BY <2>2, <2>3 DEF LocationType, PageMaps
<1>3. ASSUME NEW child \in ServerType PROVE Cascade(parent, child) \in ServerType
  <2>1. IsBlock(child, ServerDirectives) /\ child.locations \in Seq(LocationType)
    BY DEF ServerType, IsBlock, PageMaps
  <2>2. /\ Cascade(parent, child).single \in SingleType(ServerDirectives)
        /\ Cascade(parent, child).errorPages \in PageMaps
    BY <1>1, <2>1, CascadeFields
  <2>3. Cascade(parent, child) = [single |-> Cascade(parent, child).single,
                                  errorPages |-> Cascade(parent, child).errorPages,
                                  locations |-> child.locations]
    BY CascadeFields
  <2> QED
    BY <2>1, <2>2, <2>3 DEF ServerType, PageMaps
<1> QED
  BY <1>2, <1>3

\* Assigning one server block, and one location of a server block.
LEMMA UpdateServer ==
    ASSUME NEW c \in HttpType, NEW s \in DOMAIN c.servers, NEW x \in ServerType
    PROVE  LET d == [c EXCEPT !.servers[s] = x]
           IN  /\ d \in HttpType /\ d.single = c.single /\ d.errorPages = c.errorPages
               /\ Len(d.servers) = Len(c.servers) /\ d.servers[s] = x
               /\ \A t \in DOMAIN c.servers : t # s => d.servers[t] = c.servers[t]
<1> DEFINE d == [c EXCEPT !.servers[s] = x]
           servers == [c.servers EXCEPT ![s] = x]
<1>1. c.servers \in Seq(ServerType) /\ s \in 1..Len(c.servers)
  BY DEF HttpType
<1>2. /\ servers \in Seq(ServerType) /\ Len(servers) = Len(c.servers) /\ servers[s] = x
      /\ \A t \in DOMAIN c.servers : t # s => servers[t] = c.servers[t]
  BY <1>1, ExceptSeq
<1>3. d = [single |-> c.single, errorPages |-> c.errorPages, servers |-> servers]
  <2> DEFINE S == SingleType(HttpDirectives)
             E == Seq(ErrorPageMap)
             T == Seq(ServerType)
  <2>1. c \in [single : S, errorPages : E, servers : T]
    BY DEF HttpType
  <2> HIDE DEF S, E, T
  <2> QED
    BY <2>1
<1> HIDE DEF d, servers
<1> QED
  BY <1>2, <1>3 DEF HttpType, d

\* A location of a server block may be replaced by another, and nothing else changes.
LEMMA UpdateLocation ==
    ASSUME NEW b \in ServerType, NEW l \in DOMAIN b.locations, NEW x \in LocationType
    PROVE  LET d == [b EXCEPT !.locations[l] = x]
           IN  /\ d \in ServerType /\ d.single = b.single /\ d.errorPages = b.errorPages
               /\ Len(d.locations) = Len(b.locations) /\ d.locations[l] = x
               /\ \A m \in DOMAIN b.locations : m # l => d.locations[m] = b.locations[m]
<1> DEFINE d == [b EXCEPT !.locations[l] = x]
           locations == [b.locations EXCEPT ![l] = x]
<1>1. b.locations \in Seq(LocationType) /\ l \in 1..Len(b.locations)
  BY DEF ServerType
<1>2. /\ locations \in Seq(LocationType) /\ Len(locations) = Len(b.locations)
      /\ locations[l] = x
      /\ \A m \in DOMAIN b.locations : m # l => locations[m] = b.locations[m]
  BY <1>1, ExceptSeq
<1>3. d = [single |-> b.single, errorPages |-> b.errorPages, locations |-> locations]
  <2> DEFINE S == SingleType(ServerDirectives)
             E == Seq(ErrorPageMap)
             T == Seq(LocationType)
  <2>1. b \in [single : S, errorPages : E, locations : T]
    BY DEF ServerType
  <2> HIDE DEF S, E, T
  <2> QED
    BY <2>1
<1> HIDE DEF d, locations
<1> QED
  BY <1>2, <1>3 DEF ServerType, d

-----------------------------------------------------------------------------
(***************************************************************************)
(* applyDefaultValues                                                      *)
(***************************************************************************)
Defaulted(single) == [single EXCEPT !["index"] = IF @ = None THEN "index.html" ELSE @]

\* The default keeps the type and is seen only where index is not set.
LEMMA DefaultedIs ==
    ASSUME NEW C, "index" \in C, NEW single \in SingleType(C)
    PROVE  /\ Defaulted(single) \in SingleType(C)
           /\ \A d \in C : Defaulted(single)[d] =
                IF d = "index" /\ single[d] = None THEN "index.html" ELSE single[d]
BY CascadeAssumption DEF SingleType, Defaulted

\* Blocks keep everything but the index.
LEMMA DefaultFields ==
    /\ \A b \in LocationType :
         WithDefault(b) = [single |-> Defaulted(b.single), errorPages |-> b.errorPages]
    /\ \A b \in ServerType :
         WithDefault(b) = [single |-> Defaulted(b.single), errorPages |-> b.errorPages,
                           locations |-> b.locations]
    /\ \A b \in HttpType :
         WithDefault(b) = [single |-> Defaulted(b.single), errorPages |-> b.errorPages,
                           servers |-> b.servers]
<1>1. \A b : WithDefault(b) = [b EXCEPT !.single = Defaulted(b.single)]
  BY DEF WithDefault, Defaulted
<1>2. ASSUME NEW b \in LocationType
      PROVE  WithDefault(b) = [single |-> Defaulted(b.single), errorPages |-> b.errorPages]
  <2> DEFINE s == Defaulted(b.single)
  <2>1. WithDefault(b) = [b EXCEPT !.single = s]
    BY <1>1
  <2> HIDE DEF s
  <2>2. [b EXCEPT !.single = s] = [single |-> s, errorPages |-> b.errorPages]
    BY DEF LocationType
  <2> QED
    BY <2>1, <2>2 DEF s
<1>3. ASSUME NEW b \in ServerType
      PROVE  WithDefault(b) = [single |-> Defaulted(b.single), errorPages |-> b.errorPages,
                               locations |-> b.locations]
  <2> DEFINE s == Defaulted(b.single)
  <2>1. WithDefault(b) = [b EXCEPT !.single = s]
    BY <1>1
  <2> HIDE DEF s
  <2>2. [b EXCEPT !.single = s] = [single |-> s, errorPages |-> b.errorPages,
                                   locations |-> b.locations]
    BY DEF ServerType
  <2> QED
    BY <2>1, <2>2 DEF s
<1>4. ASSUME NEW b \in HttpType
      PROVE  WithDefault(b) = [single |-> Defaulted(b.single), errorPages |-> b.errorPages,
                               servers |-> b.servers]
  <2> DEFINE s == Defaulted(b.single)
  <2>1. WithDefault(b) = [b EXCEPT !.single = s]
    BY <1>1
  <2> HIDE DEF s
  <2>2. [b EXCEPT !.single = s] = [single |-> s, errorPages |-> b.errorPages,
                                   servers |-> b.servers]
    BY DEF HttpType
  <2> QED
    BY <2>1, <2>2 DEF s
<1> QED
  BY <1>2, <1>3, <1>4

\* The defaults of a location and of a server with its locations.
LEMMA DefaultTypes ==
    /\ \A b \in LocationType : WithDefault(b) \in LocationType
    /\ \A b \in ServerType :
         LET d == WithDefaults(b)
         IN  /\ d \in ServerType
             /\ d.single = Defaulted(b.single) /\ d.errorPages = b.errorPages
             /\ Len(d.locations) = Len(b.locations)
             /\ \A l \in DOMAIN b.locations : d.locations[l] = WithDefault(b.locations[l])
<1>0. "index" \in HttpDirectives /\ "index" \in ServerDirectives
  BY DEF HttpDirectives, ServerDirectives
<1>1. ASSUME NEW b \in LocationType PROVE WithDefault(b) \in LocationType
  <2>1. b.single \in SingleType(ServerDirectives) /\ b.errorPages \in Seq(ErrorPageMap)
    BY DEF LocationType
  <2>2. Defaulted(b.single) \in SingleType(ServerDirectives)
    BY <1>0, <2>1, DefaultedIs
  <2> QED
    BY <2>1, <2>2, DefaultFields DEF LocationType
<1>2. ASSUME NEW b \in ServerType
      PROVE  LET d == WithDefaults(b)
             IN  /\ d \in ServerType
                 /\ d.single = Defaulted(b.single) /\ d.errorPages = b.errorPages
                 /\ Len(d.locations) = Len(b.locations)
                 /\ \A l \in DOMAIN b.locations : d.locations[l] = WithDefault(b.locations[l])
  <2> DEFINE w == WithDefault(b)
             d == WithDefaults(b)
             locations == [l \in DOMAIN b.locations |-> WithDefault(b.locations[l])]
             s == Defaulted(b.single)
             e == b.errorPages
  <2>1. /\ b.single \in SingleType(ServerDirectives) /\ b.errorPages \in Seq(ErrorPageMap)
        /\ b.locations \in Seq(LocationType)
    BY DEF ServerType
  <2>2. s \in SingleType(ServerDirectives)
    BY <1>0, <2>1, DefaultedIs
  <2>3. w = [single |-> s, errorPages |-> e, locations |-> b.locations]
    BY DefaultFields
  <2>4. d = [w EXCEPT !.locations = [l \in DOMAIN w.locations |-> WithDefault(w.locations[l])]]
    BY DEF WithDefaults
  <2>5. locations \in Seq(LocationType) /\ Len(locations) = Len(b.locations)
    <3>1. DOMAIN b.locations = 1..Len(b.locations) /\ Len(b.locations) \in Nat
      BY <2>1
    <3>2. \A l \in 1..Len(b.locations) : WithDefault(b.locations[l]) \in LocationType
      BY <1>1, <2>1
    <3> QED
      BY <3>1, <3>2
  <2>6. \A l \in DOMAIN b.locations : locations[l] = WithDefault(b.locations[l])
    OBVIOUS
  <2> HIDE DEF w, d, s, e
  <2>7. w.locations = b.locations
    BY <2>3
  <2>8. d = [w EXCEPT !.locations = locations]
    BY <2>4, <2>7
  <2> HIDE DEF locations
  <2>9. d = [single |-> s, errorPages |-> e, locations |-> locations]
    BY <2>3, <2>8
  <2>10. /\ d \in ServerType /\ d.single = s /\ d.errorPages = e /\ d.locations = locations
    BY <2>1, <2>2, <2>5, <2>9 DEF ServerType, e
  <2> QED
    BY <2>5, <2>6, <2>10 DEF d, s, e
<1> QED
  BY <1>1, <1>2

-----------------------------------------------------------------------------
(***************************************************************************)
(* The invariant of applyCascade's loops: the blocks they have passed have *)
(* what the blocks around them say, the others are as they were written.   *)
(***************************************************************************)
\* The loops have passed on the http block's settings to server s, and have
\* passed location l of it.
Begun(s) == pc = "done" \/ s < i \/ (s = i /\ pc = "locations")
Passed(s, l) == pc = "done" \/ s < i \/ (s = i /\ pc = "locations" /\ l < j)

\* What becomes of them, before the defaults.
ServerCascaded(s) == Cascade(originalConfig, originalConfig.servers[s])
LocationCascaded(s, l) ==
    Cascade(originalConfig, Cascade(ServerCascaded(s), originalConfig.servers[s].locations[l]))

LoopsInv ==
    /\ pc = "servers" => i <= Len(originalConfig.servers) + 1
    /\ pc = "locations" =>
         /\ i <= Len(originalConfig.servers)
         /\ j <= Len(originalConfig.servers[i].locations) + 1

ServerInv(s) ==
    LET block == IF Begun(s) THEN ServerCascaded(s) ELSE originalConfig.servers[s]
    IN  /\ config.servers[s].errorPages = block.errorPages
        /\ config.servers[s].single =
             IF pc = "done" THEN Defaulted(block.single) ELSE block.single
        /\ Len(config.servers[s].locations) = Len(originalConfig.servers[s].locations)

LocationInv(s, l) ==
    LET block == IF Passed(s, l) THEN LocationCascaded(s, l)
                                 ELSE originalConfig.servers[s].locations[l]
    IN  config.servers[s].locations[l] = IF pc = "done" THEN WithDefault(block) ELSE block

CascadeInv ==
    /\ LoopsInv
    /\ config.errorPages = originalConfig.errorPages
    /\ pc # "done" => config.single = originalConfig.single
    /\ Len(config.servers) = Len(originalConfig.servers)
    /\ \A s \in DOMAIN originalConfig.servers :
         ServerInv(s) /\ \A l \in DOMAIN originalConfig.servers[s].locations : LocationInv(s, l)

\* A configuration no loop has touched satisfies it.
LEMMA UntouchedInv ==
    ASSUME originalConfig \in HttpType, config = originalConfig, pc = "servers", i = 1, j = 1
    PROVE  TypeOK /\ CascadeInv
<1>1. originalConfig.servers \in Seq(ServerType)
  BY DEF HttpType
<1>2. \A s \in DOMAIN originalConfig.servers : s >= 1 /\ ~Begun(s) /\ \A l : ~Passed(s, l)
  BY <1>1 DEF Begun, Passed
<1>3. \A s \in DOMAIN originalConfig.servers :
        ServerInv(s) /\ \A l \in DOMAIN originalConfig.servers[s].locations : LocationInv(s, l)
  BY <1>2 DEF ServerInv, LocationInv
<1> QED
  BY <1>1, <1>3 DEF TypeOK, CascadeInv, LoopsInv

\* The types of the blocks the loops are at, and of what they become.
LEMMA BlockTypes ==
    ASSUME TypeOK
    PROVE  /\ IsBlock(config, HttpDirectives) /\ IsBlock(originalConfig, HttpDirectives)
           /\ config.servers \in Seq(ServerType) /\ originalConfig.servers \in Seq(ServerType)
           /\ \A b \in ServerType : IsBlock(b, ServerDirectives) /\ b.locations \in Seq(LocationType)
           /\ \A b \in LocationType : IsBlock(b, ServerDirectives)
           /\ \A s \in DOMAIN originalConfig.servers :
                /\ ServerCascaded(s) \in ServerType
                /\ \A l \in DOMAIN originalConfig.servers[s].locations :
                     LocationCascaded(s, l) \in LocationType
<1>1. /\ IsBlock(config, HttpDirectives) /\ IsBlock(originalConfig, HttpDirectives)
      /\ config.servers \in Seq(ServerType) /\ originalConfig.servers \in Seq(ServerType)
  BY DEF TypeOK, HttpType, IsBlock, PageMaps
<1>2. \A b \in ServerType : IsBlock(b, ServerDirectives) /\ b.locations \in Seq(LocationType)
  BY DEF ServerType, IsBlock, PageMaps
<1>3. \A b \in LocationType : IsBlock(b, ServerDirectives)
  BY DEF LocationType, IsBlock, PageMaps
<1>4. ASSUME NEW s \in DOMAIN originalConfig.servers
      PROVE  /\ ServerCascaded(s) \in ServerType
             /\ \A l \in DOMAIN originalConfig.servers[s].locations :
                  LocationCascaded(s, l) \in LocationType
  <2>1. originalConfig.servers[s] \in ServerType
    BY <1>1
  <2>2. ServerCascaded(s) \in ServerType
    BY <1>1, <2>1, CascadeType DEF ServerCascaded
  <2>3. ASSUME NEW l \in DOMAIN originalConfig.servers[s].locations
        PROVE  LocationCascaded(s, l) \in LocationType
    <3> DEFINE b == originalConfig.servers[s].locations[l]
    <3>1. b \in LocationType
      BY <1>2, <2>1
    <3>2. IsBlock(ServerCascaded(s), ServerDirectives)
      BY <1>2, <2>2
    <3> HIDE DEF b
    <3>3. Cascade(ServerCascaded(s), b) \in LocationType
      BY <3>1, <3>2, CascadeType
    <3>4. Cascade(originalConfig, Cascade(ServerCascaded(s), b)) \in LocationType
      BY <1>1, <3>3, CascadeType
    <3> QED
      BY <3>4 DEF LocationCascaded, b
  <2> QED
    BY <2>2, <2>3
<1> QED
  BY <1>1, <1>2, <1>3, <1>4

\* What Cascade makes of a block depends only on what the parent says.
LEMMA SameParent ==
    ASSUME NEW p, NEW q, p.single = q.single, p.errorPages = q.errorPages, NEW child
    PROVE  Cascade(p, child) = Cascade(q, child)
BY DEF Cascade

\* cascadeHttpToServer keeps the invariant.
LEMMA CascadeToServerInv ==
    ASSUME TypeOK, CascadeInv, CascadeToServer
    PROVE  TypeOK' /\ CascadeInv'
<1> DEFINE x == Cascade(config, config.servers[i])
           O == originalConfig
<1>1. /\ pc = "servers" /\ pc' = "locations" /\ j' = 1 /\ i' = i /\ originalConfig' = O
      /\ i <= Len(config.servers) /\ config' = [config EXCEPT !.servers[i] = x]
  BY DEF CascadeToServer
<1>2. /\ config \in HttpType /\ O \in HttpType /\ i \in Nat \ {0}
      /\ config.servers \in Seq(ServerType) /\ O.servers \in Seq(ServerType)
      /\ Len(config.servers) = Len(O.servers)
      /\ config.single = O.single /\ config.errorPages = O.errorPages
  BY <1>1, BlockTypes DEF TypeOK, CascadeInv
<1>3. i \in DOMAIN config.servers /\ i \in DOMAIN O.servers
  BY <1>1, <1>2
<1>4. config.servers[i] \in ServerType /\ O.servers[i] \in ServerType
  BY <1>2, <1>3
<1>5. x \in ServerType
  BY <1>4, BlockTypes, CascadeType
<1>6. /\ x.single = ServerCascaded(i).single /\ x.errorPages = ServerCascaded(i).errorPages
      /\ x.locations = config.servers[i].locations
      /\ config.servers[i].single = O.servers[i].single
      /\ config.servers[i].errorPages = O.servers[i].errorPages
  <2>1. /\ config.servers[i].single = O.servers[i].single
        /\ config.servers[i].errorPages = O.servers[i].errorPages
    <3>1. ServerInv(i) /\ ~Begun(i)
      BY <1>1, <1>2, <1>3 DEF CascadeInv, Begun
    <3> QED
      BY <1>1, <3>1 DEF ServerInv
  <2>2. /\ x.single = Singles(config.single, config.servers[i].single)
        /\ x.errorPages = cascadeErrorPage(config.errorPages, config.servers[i].errorPages)
        /\ x.locations = config.servers[i].locations
    BY <1>4, CascadeFields
  <2>3. /\ ServerCascaded(i).single = Singles(O.single, O.servers[i].single)
        /\ ServerCascaded(i).errorPages
             = cascadeErrorPage(O.errorPages, O.servers[i].errorPages)
    BY <1>4, CascadeFields DEF ServerCascaded
  <2> HIDE DEF x
  <2> QED
    BY <1>2, <2>1, <2>2, <2>3
<1> HIDE DEF x
<1>7. /\ config' \in HttpType /\ config'.single = config.single
      /\ config'.errorPages = config.errorPages
      /\ Len(config'.servers) = Len(config.servers) /\ config'.servers[i] = x
      /\ \A t \in DOMAIN config.servers : t # i => config'.servers[t] = config.servers[t]
  <2> DEFINE d == [config EXCEPT !.servers[i] = x]
  <2>1. /\ d \in HttpType /\ d.single = config.single /\ d.errorPages = config.errorPages
        /\ Len(d.servers) = Len(config.servers) /\ d.servers[i] = x
        /\ \A t \in DOMAIN config.servers : t # i => d.servers[t] = config.servers[t]
    <3>1. config \in HttpType
      BY <1>2
    <3> QED
      BY ONLY <1>3, <1>5, <3>1, UpdateServer
  <2>2. config' = d
    BY <1>1
  <2> HIDE DEF d
  <2> QED
    BY <2>1, <2>2
<1>8. ASSUME NEW s \in DOMAIN O.servers
      PROVE  /\ ServerInv(s)'
             /\ \A l \in DOMAIN O.servers[s].locations : LocationInv(s, l)'
  <2>0. /\ ServerInv(s) /\ \A l \in DOMAIN O.servers[s].locations : LocationInv(s, l)
        /\ s \in Nat /\ s \in DOMAIN config.servers
    BY <1>2 DEF CascadeInv
  <2>1. O.servers[s].locations \in Seq(LocationType)
    BY <1>2, BlockTypes
  <2>2. \A l \in DOMAIN O.servers[s].locations : l \in Nat /\ l >= 1
    BY <2>1
  <2>3. ServerCascaded(s)' = ServerCascaded(s) /\ \A l : LocationCascaded(s, l)' = LocationCascaded(s, l)
    BY <1>1 DEF ServerCascaded, LocationCascaded
  <2>4. CASE s = i
    <3>1. Begun(s)' /\ ~Begun(s) /\ \A l \in DOMAIN O.servers[s].locations : ~Passed(s, l) /\ ~Passed(s, l)'
      BY <1>1, <1>2, <2>2, <2>4 DEF Begun, Passed
    <3>2. ServerInv(s)'
      BY <1>1, <1>6, <1>7, <2>0, <2>3, <2>4, <3>1 DEF ServerInv
    <3>3. \A l \in DOMAIN O.servers[s].locations : LocationInv(s, l)'
      BY <1>1, <1>6, <1>7, <2>0, <2>4, <3>1 DEF LocationInv
    <3> QED
      BY <3>2, <3>3
  <2>5. CASE s # i
    <3>1. Begun(s)' = Begun(s) /\ \A l : Passed(s, l)' = Passed(s, l)
      BY <1>1, <1>2, <2>0, <2>5 DEF Begun, Passed
    <3>2. config'.servers[s] = config.servers[s]
      BY <1>7, <2>0, <2>5
    <3>3. ServerInv(s)'
      BY <1>1, <2>0, <2>3, <3>1, <3>2 DEF ServerInv
    <3>4. \A l \in DOMAIN O.servers[s].locations : LocationInv(s, l)'
      BY <1>1, <2>0, <2>3, <3>1, <3>2 DEF LocationInv
    <3> QED
      BY <3>3, <3>4
  <2> QED
    BY <2>4, <2>5
<1>9. LoopsInv'
  <2>1. Len(O.servers[i].locations) \in Nat
    BY <1>4, BlockTypes
  <2> QED
    BY <1>1, <1>2, <2>1 DEF LoopsInv
<1>10. TypeOK'
  BY <1>1, <1>2, <1>7 DEF TypeOK
<1> QED
  BY <1>1, <1>2, <1>7, <1>8, <1>9, <1>10 DEF CascadeInv

\* cascadeServerToLocation and cascadeHttpToLocation keep it.
LEMMA CascadeToLocationInv ==
    ASSUME TypeOK, CascadeInv, CascadeToLocation
    PROVE  TypeOK' /\ CascadeInv'
<1> DEFINE O == originalConfig
           old == config.servers[i]
           x == Cascade(config, Cascade(old, old.locations[j]))
           b == [old EXCEPT !.locations[j] = x]
<1>1. /\ pc = "locations" /\ pc' = pc /\ i' = i /\ j' = j + 1 /\ originalConfig' = O
      /\ j <= Len(old.locations)
      /\ config' = [config EXCEPT !.servers[i].locations[j] = x]
  BY DEF CascadeToLocation
<1>2. /\ config \in HttpType /\ O \in HttpType /\ i \in Nat \ {0} /\ j \in Nat \ {0}
      /\ config.servers \in Seq(ServerType) /\ O.servers \in Seq(ServerType)
      /\ Len(config.servers) = Len(O.servers)
      /\ config.single = O.single /\ config.errorPages = O.errorPages
      /\ i <= Len(O.servers)
  BY <1>1, BlockTypes DEF TypeOK, CascadeInv, LoopsInv
<1>3. i \in DOMAIN config.servers /\ i \in DOMAIN O.servers
  BY <1>2
<1>4. old \in ServerType /\ O.servers[i] \in ServerType
  BY <1>2, <1>3
<1>5. /\ old.single = ServerCascaded(i).single /\ old.errorPages = ServerCascaded(i).errorPages
      /\ Len(old.locations) = Len(O.servers[i].locations)
  <2>1. ServerInv(i) /\ Begun(i)
    BY <1>1, <1>3 DEF CascadeInv, Begun
  <2> QED
    BY <1>1, <2>1 DEF ServerInv
<1>6. old.locations \in Seq(LocationType) /\ O.servers[i].locations \in Seq(LocationType)
  BY <1>4, BlockTypes
<1>7. j \in DOMAIN old.locations /\ j \in DOMAIN O.servers[i].locations
  BY <1>1, <1>2, <1>5, <1>6
<1>8. x = LocationCascaded(i, j)
  <2>1. old.locations[j] = O.servers[i].locations[j]
    <3>1. LocationInv(i, j) /\ ~Passed(i, j)
      BY <1>1, <1>2, <1>3, <1>7 DEF CascadeInv, Passed
    <3> QED
      BY <1>1, <3>1 DEF LocationInv
  <2>2. Cascade(old, old.locations[j]) = Cascade(ServerCascaded(i), O.servers[i].locations[j])
    BY <1>5, <2>1, SameParent
  <2> QED
    BY <1>2, <2>2, SameParent DEF LocationCascaded
<1>9. x \in LocationType
  BY <1>3, <1>7, <1>8, BlockTypes
<1>10. config' = [config EXCEPT !.servers[i] = b]
  <2> HIDE DEF x
  <2> QED
    BY <1>1
<1> HIDE DEF x
<1>11. /\ b \in ServerType /\ b.single = old.single /\ b.errorPages = old.errorPages
       /\ Len(b.locations) = Len(old.locations) /\ b.locations[j] = x
       /\ \A m \in DOMAIN old.locations : m # j => b.locations[m] = old.locations[m]
  <2> HIDE DEF old
  <2> QED
    BY <1>4, <1>7, <1>9, UpdateLocation
<1> HIDE DEF b
<1>12. /\ config' \in HttpType /\ config'.single = config.single
       /\ config'.errorPages = config.errorPages
       /\ Len(config'.servers) = Len(config.servers) /\ config'.servers[i] = b
       /\ \A t \in DOMAIN config.servers : t # i => config'.servers[t] = config.servers[t]
  BY <1>2, <1>3, <1>10, <1>11, UpdateServer
<1> HIDE DEF old
<1>13. ASSUME NEW s \in DOMAIN O.servers
       PROVE  /\ ServerInv(s)'
              /\ \A l \in DOMAIN O.servers[s].locations : LocationInv(s, l)'
  <2>0. /\ ServerInv(s) /\ \A l \in DOMAIN O.servers[s].locations : LocationInv(s, l)
        /\ s \in Nat /\ s \in DOMAIN config.servers
    BY <1>2 DEF CascadeInv
  <2>1. O.servers[s].locations \in Seq(LocationType)
    BY <1>2, BlockTypes
  <2>2. \A l \in DOMAIN O.servers[s].locations : l \in Nat /\ l >= 1
    BY <2>1
  <2>3. ServerCascaded(s)' = ServerCascaded(s) /\ \A l : LocationCascaded(s, l)' = LocationCascaded(s, l)
    BY <1>1 DEF ServerCascaded, LocationCascaded
  <2>4. Begun(s)' = Begun(s)
    BY <1>1 DEF Begun
  <2>5. ASSUME NEW l \in DOMAIN O.servers[s].locations, s # i \/ l # j
        PROVE  Passed(s, l)' = Passed(s, l)
    BY <1>1, <1>2, <2>0, <2>2, <2>5 DEF Passed
  <2>6. CASE s = i
    <3>1. ServerInv(s)'
      BY <1>1, <1>11, <1>12, <2>0, <2>3, <2>4, <2>6 DEF ServerInv, old
    <3>2. ASSUME NEW l \in DOMAIN O.servers[s].locations, l # j PROVE LocationInv(s, l)'
      <4>1. l \in DOMAIN old.locations
        BY <1>5, <1>6, <2>1, <2>6
      <4>2. config'.servers[s].locations[l] = config.servers[s].locations[l]
        BY <1>11, <1>12, <2>6, <3>2, <4>1 DEF old
      <4> QED
        BY <1>1, <2>0, <2>3, <2>5, <3>2, <4>2 DEF LocationInv
    <3>3. ASSUME NEW l \in DOMAIN O.servers[s].locations, l = j PROVE LocationInv(s, l)'
      <4>1. Passed(s, l)'
        BY <1>1, <1>2, <2>6, <3>3 DEF Passed
      <4>2. config'.servers[s].locations[l] = LocationCascaded(s, l)
        BY <1>8, <1>11, <1>12, <2>6, <3>3
      <4> QED
        BY <1>1, <2>3, <4>1, <4>2 DEF LocationInv
    <3> QED
      BY <3>1, <3>2, <3>3
  <2>7. CASE s # i
    <3>1. config'.servers[s] = config.servers[s]
      BY <1>12, <2>0, <2>7
    <3>2. ServerInv(s)'
      BY <1>1, <2>0, <2>3, <2>4, <3>1 DEF ServerInv
    <3>3. ASSUME NEW l \in DOMAIN O.servers[s].locations PROVE LocationInv(s, l)'
      BY <1>1, <2>0, <2>3, <2>5, <2>7, <3>1 DEF LocationInv
    <3> QED
      BY <3>2, <3>3
  <2> QED
    BY <2>6, <2>7
<1>14. LoopsInv'
  BY <1>1, <1>2, <1>5, <1>6 DEF LoopsInv
<1>15. TypeOK'
  BY <1>1, <1>2, <1>12 DEF TypeOK
<1> QED
  BY <1>1, <1>2, <1>12, <1>13, <1>14, <1>15 DEF CascadeInv

\* So does the step to the next server block.
LEMMA NextServerInv ==
    ASSUME TypeOK, CascadeInv, NextServer
    PROVE  TypeOK' /\ CascadeInv'
<1> DEFINE O == originalConfig
<1>1. /\ pc = "locations" /\ pc' = "servers" /\ i' = i + 1 /\ j' = j
      /\ config' = config /\ originalConfig' = O /\ j = Len(config.servers[i].locations) + 1
  BY DEF NextServer
<1>2. /\ i \in Nat \ {0} /\ j \in Nat \ {0} /\ i <= Len(O.servers)
      /\ O.servers \in Seq(ServerType)
  BY <1>1, BlockTypes DEF TypeOK, CascadeInv, LoopsInv
<1>3. i \in DOMAIN O.servers
  BY <1>2
<1>4. j = Len(O.servers[i].locations) + 1
  BY <1>1, <1>3 DEF CascadeInv, ServerInv
<1>5. ASSUME NEW s \in DOMAIN O.servers
      PROVE  /\ ServerInv(s)'
             /\ \A l \in DOMAIN O.servers[s].locations : LocationInv(s, l)'
  <2>0. ServerInv(s) /\ \A l \in DOMAIN O.servers[s].locations : LocationInv(s, l)
    BY DEF CascadeInv
  <2>1. O.servers[s].locations \in Seq(LocationType) /\ s \in Nat
    BY <1>2, BlockTypes
  <2>2. \A l \in DOMAIN O.servers[s].locations : l \in Nat /\ l <= Len(O.servers[s].locations)
    BY <2>1
  <2>3. Begun(s)' = Begun(s)
    BY <1>1, <1>2, <2>1 DEF Begun
  <2>4. \A l \in DOMAIN O.servers[s].locations : Passed(s, l)' = Passed(s, l)
    <3>0. Len(O.servers[s].locations) \in Nat
      BY <2>1
    <3> QED
      BY <1>1, <1>2, <1>4, <2>1, <2>2, <3>0 DEF Passed
  <2>5. ServerInv(s)'
    BY <1>1, <2>0, <2>3 DEF ServerInv, ServerCascaded
  <2>6. \A l \in DOMAIN O.servers[s].locations : LocationInv(s, l)'
    BY <1>1, <2>0, <2>4 DEF LocationInv, LocationCascaded, ServerCascaded
  <2> QED
    BY <2>5, <2>6
<1>6. LoopsInv'
  BY <1>1, <1>2 DEF LoopsInv
<1>7. TypeOK'
  BY <1>1, <1>2 DEF TypeOK
<1> QED
  BY <1>1, <1>5, <1>6, <1>7 DEF CascadeInv

\* And applyDefaultValues, once the loops are through.
LEMMA applyDefaultValuesInv ==
    ASSUME TypeOK, CascadeInv, applyDefaultValues
    PROVE  TypeOK' /\ CascadeInv'
<1> DEFINE O == originalConfig
           w == WithDefault(config)
           servers == [s \in DOMAIN config.servers |-> WithDefaults(config.servers[s])]
           single == Defaulted(config.single)
<1>1. /\ pc = "servers" /\ pc' = "done" /\ i' = i /\ j' = j /\ originalConfig' = O
      /\ i = Len(config.servers) + 1
  BY DEF applyDefaultValues
<1>0. config' = [w EXCEPT !.servers = [s \in DOMAIN w.servers |-> WithDefaults(w.servers[s])]]
  BY DEF applyDefaultValues
<1>2. /\ config \in HttpType /\ O \in HttpType /\ i \in Nat \ {0} /\ j \in Nat \ {0}
      /\ config.servers \in Seq(ServerType) /\ O.servers \in Seq(ServerType)
      /\ Len(config.servers) = Len(O.servers) /\ config.errorPages = O.errorPages
      /\ config.single \in SingleType(HttpDirectives) /\ config.errorPages \in Seq(ErrorPageMap)
  BY BlockTypes DEF TypeOK, CascadeInv, HttpType
<1>3. single \in SingleType(HttpDirectives)
  <2>1. "index" \in HttpDirectives
    BY DEF HttpDirectives
  <2> QED
    BY <1>2, <2>1, DefaultedIs
<1>4. w = [single |-> single, errorPages |-> config.errorPages, servers |-> config.servers]
  BY <1>2, DefaultFields
<1>5. servers \in Seq(ServerType) /\ Len(servers) = Len(config.servers)
  <2>1. DOMAIN config.servers = 1..Len(config.servers) /\ Len(config.servers) \in Nat
    BY <1>2
  <2>2. \A s \in 1..Len(config.servers) : WithDefaults(config.servers[s]) \in ServerType
    BY <1>2, DefaultTypes
  <2> QED
    BY <2>1, <2>2
<1>6. \A s \in DOMAIN config.servers : servers[s] = WithDefaults(config.servers[s])
  OBVIOUS
<1>7. config' = [single |-> single, errorPages |-> config.errorPages, servers |-> servers]
  <2> HIDE DEF w, single
  <2>1. w.servers = config.servers
    BY <1>4
  <2>2. config' = [w EXCEPT !.servers = servers]
    BY <1>0, <2>1
  <2> HIDE DEF servers
  <2> QED
    BY <1>4, <2>2
<1> HIDE DEF w, servers, single
<1>8. /\ config' \in HttpType /\ config'.errorPages = config.errorPages
      /\ config'.servers = servers
  BY <1>2, <1>3, <1>5, <1>7 DEF HttpType
<1>9. ASSUME NEW s \in DOMAIN O.servers
      PROVE  /\ ServerInv(s)'
             /\ \A l \in DOMAIN O.servers[s].locations : LocationInv(s, l)'
  <2> DEFINE old == config.servers[s]
  <2>0. /\ ServerInv(s) /\ \A l \in DOMAIN O.servers[s].locations : LocationInv(s, l)
        /\ s \in DOMAIN config.servers /\ s \in Nat /\ s < i
    BY <1>1, <1>2 DEF CascadeInv
  <2>1. old \in ServerType /\ O.servers[s].locations \in Seq(LocationType)
    BY <1>2, <2>0, BlockTypes
  <2>2. /\ config'.servers[s].single = Defaulted(old.single)
        /\ config'.servers[s].errorPages = old.errorPages
        /\ Len(config'.servers[s].locations) = Len(old.locations)
        /\ \A l \in DOMAIN old.locations :
             config'.servers[s].locations[l] = WithDefault(old.locations[l])
    BY <1>6, <1>8, <2>0, <2>1, DefaultTypes
  <2>3. Begun(s) /\ Begun(s)' /\ \A l : Passed(s, l) /\ Passed(s, l)'
    BY <1>1, <2>0 DEF Begun, Passed
  <2>4. Len(old.locations) = Len(O.servers[s].locations) /\ old.locations \in Seq(LocationType)
    BY <2>0, <2>1, BlockTypes DEF ServerInv
  <2>5. DOMAIN old.locations = DOMAIN O.servers[s].locations
    BY <2>1, <2>4
  <2>6. ServerInv(s)'
    BY <1>1, <2>0, <2>2, <2>3 DEF ServerInv, ServerCascaded
  <2>7. ASSUME NEW l \in DOMAIN O.servers[s].locations PROVE LocationInv(s, l)'
    <3>1. LocationInv(s, l)
      BY <2>0
    <3>2. config.servers[s].locations[l] = LocationCascaded(s, l)
      BY <1>1, <2>3, <3>1 DEF LocationInv
    <3>3. config'.servers[s].locations[l] = WithDefault(LocationCascaded(s, l))
      BY <2>2, <2>5, <3>2
    <3>4. LocationCascaded(s, l)' = LocationCascaded(s, l)
      BY <1>1 DEF LocationCascaded, ServerCascaded
    <3> QED
      BY <1>1, <2>3, <3>3, <3>4 DEF LocationInv
  <2> QED
    BY <2>6, <2>7
<1>10. LoopsInv'
  BY <1>1 DEF LoopsInv
<1>11. TypeOK'
  BY <1>1, <1>2, <1>8 DEF TypeOK
<1> QED
  BY <1>1, <1>2, <1>5, <1>8, <1>9, <1>10, <1>11 DEF CascadeInv

\* Every step of applyCascade keeps the invariant.
LEMMA CascadeStep ==
    TypeOK /\ CascadeInv /\ [Next]_vars => TypeOK' /\ CascadeInv'
<1> SUFFICES ASSUME TypeOK, CascadeInv, [Next]_vars PROVE TypeOK' /\ CascadeInv'
  OBVIOUS
<1>1. CASE Next
  BY <1>1, CascadeToServerInv, CascadeToLocationInv, NextServerInv, applyDefaultValuesInv DEF Next
<1>2. CASE UNCHANGED vars
  BY <1>2 DEF vars, TypeOK, CascadeInv, LoopsInv, ServerInv, LocationInv, Begun, Passed,
              ServerCascaded, LocationCascaded
<1> QED
  BY <1>1, <1>2

-----------------------------------------------------------------------------
(***************************************************************************)
(* What the invariant says when applyCascade is done.                      *)
(***************************************************************************)
\* The blocks around a location or a server, innermost first.
LEMMA WrittenIs ==
    ASSUME NEW s, NEW l
    PROVE  /\ l = 0 => /\ DOMAIN Written(s, l) = {1, 2}
                       /\ Written(s, l)[1] = originalConfig.servers[s]
                       /\ Written(s, l)[2] = originalConfig
           /\ l # 0 => /\ DOMAIN Written(s, l) = {1, 2, 3}
                       /\ Written(s, l)[1] = originalConfig.servers[s].locations[l]
                       /\ Written(s, l)[2] = originalConfig.servers[s]
                       /\ Written(s, l)[3] = originalConfig
<1> DEFINE a == originalConfig.servers[s].locations[l]
           b == originalConfig.servers[s]
           c == originalConfig
<1>1. Written(s, l) = IF l = 0 THEN <<b, c>> ELSE <<a>> \o <<b, c>>
  BY DEF Written
<1> HIDE DEF a, b, c
<1>2. DOMAIN <<b, c>> = {1, 2} /\ <<b, c>>[1] = b /\ <<b, c>>[2] = c
  OBVIOUS
<1>3. /\ DOMAIN (<<a>> \o <<b, c>>) = {1, 2, 3}
      /\ (<<a>> \o <<b, c>>)[1] = a /\ (<<a>> \o <<b, c>>)[2] = b
      /\ (<<a>> \o <<b, c>>)[3] = c
  <2> DEFINE x == <<a>>
             y == <<b, c>>
             S == {a, b, c}
  <2>1. x \in Seq(S) /\ Len(x) = 1 /\ x[1] = a
    OBVIOUS
  <2>2. y \in Seq(S) /\ Len(y) = 2 /\ y[1] = b /\ y[2] = c
    OBVIOUS
  <2> HIDE DEF x, y, S
  <2>3. /\ x \o y \in Seq(S) /\ Len(x \o y) = 3
        /\ \A k \in 1..3 : (x \o y)[k] = IF k <= 1 THEN x[k] ELSE y[k - 1]
    BY <2>1, <2>2, ConcatProperties
  <2>4. (x \o y)[1] = a /\ (x \o y)[2] = b /\ (x \o y)[3] = c
    BY <2>1, <2>2, <2>3
  <2>5. DOMAIN (x \o y) = {1, 2, 3}
    BY <2>3
  <2> QED
    BY <2>4, <2>5 DEF x, y
<1> QED
  BY <1>1, <1>2, <1>3 DEF a, b, c

\* The directive a block takes over: its own if it has one.
LEMMA ValueOfOne ==
    ASSUME NEW P, NEW parent, IsBlock(parent, P), NEW child, IsBlock(child, ServerDirectives),
           NEW d \in ServerDirectives
    PROVE  /\ Sets(child, d) => Singles(parent.single, child.single)[d] = child.single[d]
           /\ ~Sets(child, d) /\ Sets(parent, d)
                => Singles(parent.single, child.single)[d] = parent.single[d]
           /\ ~Sets(child, d) /\ ~Sets(parent, d)
                => Singles(parent.single, child.single)[d] = None
<1>1. parent.single \in SingleType(P) /\ child.single \in SingleType(ServerDirectives)
  BY DEF IsBlock
<1>2. DOMAIN parent.single = P /\ DOMAIN child.single = ServerDirectives
  BY <1>1 DEF SingleType
<1>3. Singles(parent.single, child.single)[d] =
        CASE child.single[d] # None -> child.single[d]
          [] child.single[d] = None /\ d \in P -> parent.single[d]
          [] child.single[d] = None /\ d \notin P -> None
  BY <1>1, SinglesAre
<1> QED
  BY <1>2, <1>3 DEF Sets

\* A server block, cascaded, has the value of the first of itself and the http
\* block that sets a directive; a location that of the first of three.
LEMMA CascadedValues ==
    ASSUME TypeOK, NEW s \in DOMAIN originalConfig.servers, NEW d \in ServerDirectives
    PROVE  LET O == originalConfig
               S == O.servers[s]
               value == ServerCascaded(s).single[d]
           IN  /\ Sets(S, d) => value = S.single[d]
               /\ ~Sets(S, d) /\ Sets(O, d) => value = O.single[d]
               /\ ~Sets(S, d) /\ ~Sets(O, d) => value = None
               /\ \A l \in DOMAIN S.locations :
                    LET L == S.locations[l]
                        inner == LocationCascaded(s, l).single[d]
                    IN  /\ Sets(L, d) => inner = L.single[d]
                        /\ ~Sets(L, d) /\ Sets(S, d) => inner = S.single[d]
                        /\ ~Sets(L, d) /\ ~Sets(S, d) /\ Sets(O, d) => inner = O.single[d]
                        /\ ~Sets(L, d) /\ ~Sets(S, d) /\ ~Sets(O, d) => inner = None
<1> DEFINE O == originalConfig
           S == O.servers[s]
           C == ServerCascaded(s)
<1>1. /\ IsBlock(O, HttpDirectives) /\ S \in ServerType /\ C \in ServerType
      /\ IsBlock(S, ServerDirectives) /\ IsBlock(C, ServerDirectives)
  BY BlockTypes
<1>2. C.single = Singles(O.single, S.single)
  BY <1>1, CascadeFields DEF ServerCascaded
<1> HIDE DEF C
<1>3. /\ Sets(S, d) => C.single[d] = S.single[d]
      /\ ~Sets(S, d) /\ Sets(O, d) => C.single[d] = O.single[d]
      /\ ~Sets(S, d) /\ ~Sets(O, d) => C.single[d] = None
  BY <1>1, <1>2, ValueOfOne
<1>4. Sets(C, d) <=> C.single[d] # None
  BY <1>1 DEF IsBlock, SingleType, Sets
<1>5. Sets(S, d) => S.single[d] # None
  BY DEF Sets
<1>6. Sets(O, d) => O.single[d] # None
  BY DEF Sets
<1>7. ASSUME NEW l \in DOMAIN S.locations
      PROVE  LET L == S.locations[l]
                 inner == LocationCascaded(s, l).single[d]
             IN  /\ Sets(L, d) => inner = L.single[d]
                 /\ ~Sets(L, d) /\ Sets(S, d) => inner = S.single[d]
                 /\ ~Sets(L, d) /\ ~Sets(S, d) /\ Sets(O, d) => inner = O.single[d]
                 /\ ~Sets(L, d) /\ ~Sets(S, d) /\ ~Sets(O, d) => inner = None
  <2> DEFINE L == S.locations[l]
             M == Cascade(C, L)
             inner == LocationCascaded(s, l).single[d]
  <2>1. L \in LocationType /\ IsBlock(L, ServerDirectives)
    BY <1>1, BlockTypes
  <2> HIDE DEF L
  <2>2. M \in LocationType /\ M.single = Singles(C.single, L.single)
    BY <1>1, <2>1, CascadeType, CascadeFields
  <2>3. LocationCascaded(s, l) = Cascade(O, M)
    BY DEF LocationCascaded, L, C
  <2> HIDE DEF M
  <2>4. IsBlock(M, ServerDirectives)
    BY <2>2, BlockTypes
  <2>5. inner = Singles(O.single, M.single)[d]
    BY <2>2, <2>3, CascadeFields
  <2> HIDE DEF inner
  <2>6. /\ Sets(L, d) => M.single[d] = L.single[d]
        /\ ~Sets(L, d) /\ Sets(C, d) => M.single[d] = C.single[d]
        /\ ~Sets(L, d) /\ ~Sets(C, d) => M.single[d] = None
    BY <1>1, <2>1, <2>2, ValueOfOne
  <2>7. /\ Sets(M, d) => inner = M.single[d]
        /\ ~Sets(M, d) /\ Sets(O, d) => inner = O.single[d]
        /\ ~Sets(M, d) /\ ~Sets(O, d) => inner = None
    BY <1>1, <2>4, <2>5, ValueOfOne
  <2>8. Sets(M, d) <=> M.single[d] # None
    BY <2>4 DEF IsBlock, SingleType, Sets
  <2>9. Sets(L, d) => L.single[d] # None
    BY DEF Sets
  <2> HIDE DEF S, O
  <2>10. /\ Sets(L, d) => inner = L.single[d]
         /\ ~Sets(L, d) /\ Sets(S, d) => inner = S.single[d]
         /\ ~Sets(L, d) /\ ~Sets(S, d) /\ Sets(O, d) => inner = O.single[d]
         /\ ~Sets(L, d) /\ ~Sets(S, d) /\ ~Sets(O, d) => inner = None
    BY <1>3, <1>4, <1>5, <1>6, <2>6, <2>7, <2>8, <2>9
  <2> QED
    BY <2>10 DEF inner, L
<1> QED
  BY <1>3, <1>7 DEF C

\* applyCascade gives every block the value of the innermost block that sets it.
LEMMA InnermostHolds == TypeOK /\ CascadeInv => InnermostWins
<1> SUFFICES ASSUME TypeOK, CascadeInv, pc = "done",
                    NEW s \in DOMAIN config.servers, NEW l \in 0..Len(config.servers[s].locations),
                    NEW d \in ServerDirectives
             PROVE  LET block == IF l = 0 THEN config.servers[s] ELSE config.servers[s].locations[l]
                        blocks == Written(s, l)
                        setting == {k \in DOMAIN blocks : Sets(blocks[k], d)}
                    IN  IF setting = {}
                        THEN block.single[d] = IF d = "index" THEN "index.html" ELSE None
                        ELSE \E k \in setting : /\ IsInnermost(k, setting)
                                                /\ block.single[d] = blocks[k].single[d]
  BY DEF InnermostWins
<1> DEFINE O == originalConfig
           S == O.servers[s]
           L == S.locations[l]
           block == IF l = 0 THEN config.servers[s] ELSE config.servers[s].locations[l]
           cascaded == IF l = 0 THEN ServerCascaded(s) ELSE LocationCascaded(s, l)
           blocks == Written(s, l)
           setting == {k \in DOMAIN blocks : Sets(blocks[k], d)}
<1>1. /\ s \in DOMAIN O.servers /\ ServerInv(s) /\ S \in ServerType
      /\ l # 0 => l \in DOMAIN S.locations
  <2>1. s \in DOMAIN O.servers
    BY BlockTypes DEF CascadeInv
  <2>2. S \in ServerType /\ S.locations \in Seq(LocationType)
    BY <2>1, BlockTypes
  <2>3. ServerInv(s)
    BY <2>1 DEF CascadeInv
  <2> QED
    BY <2>1, <2>2, <2>3 DEF ServerInv
<1>2. cascaded.single \in SingleType(ServerDirectives) /\ block.single = Defaulted(cascaded.single)
  <2>1. CASE l = 0
    <3>1. Begun(s)
      BY DEF Begun
    <3> QED
      BY <1>1, <2>1, <3>1, BlockTypes DEF ServerInv, IsBlock
  <2>2. CASE l # 0
    <3>1. LocationInv(s, l) /\ Passed(s, l)
      BY <1>1, <2>2 DEF CascadeInv, Passed
    <3>2. LocationCascaded(s, l) \in LocationType
      BY <1>1, <2>2, BlockTypes
    <3>3. config.servers[s].locations[l] = WithDefault(LocationCascaded(s, l))
      BY <3>1 DEF LocationInv
    <3>4. WithDefault(LocationCascaded(s, l)).single = Defaulted(LocationCascaded(s, l).single)
      BY <3>2, DefaultFields
    <3>5. LocationCascaded(s, l).single \in SingleType(ServerDirectives)
      BY <3>2, BlockTypes DEF IsBlock
    <3> QED
      BY <2>2, <3>3, <3>4, <3>5
  <2> QED
    BY <2>1, <2>2
<1> HIDE DEF block
<1>3. block.single[d] = IF d = "index" /\ cascaded.single[d] = None THEN "index.html"
                        ELSE cascaded.single[d]
  <2>1. "index" \in ServerDirectives
    BY DEF ServerDirectives, HttpDirectives
  <2> HIDE DEF cascaded
  <2> QED
    BY <1>2, <2>1, DefaultedIs
<1>4. \A k \in DOMAIN blocks : Sets(blocks[k], d) => blocks[k].single[d] # None
  BY DEF Sets
<1>5. \/ setting = {} /\ cascaded.single[d] = None
      \/ \E k \in setting : /\ \A m \in setting : k <= m
                            /\ cascaded.single[d] = blocks[k].single[d]
  <2>1. CASE l = 0
    <3>1. DOMAIN blocks = {1, 2} /\ blocks[1] = S /\ blocks[2] = O
      BY <2>1, WrittenIs
    <3>2. /\ Sets(S, d) => cascaded.single[d] = S.single[d]
          /\ ~Sets(S, d) /\ Sets(O, d) => cascaded.single[d] = O.single[d]
          /\ ~Sets(S, d) /\ ~Sets(O, d) => cascaded.single[d] = None
      BY <1>1, <2>1, CascadedValues
    <3> HIDE DEF blocks, cascaded, S, O
    <3> QED
      BY <3>1, <3>2
  <2>2. CASE l # 0
    <3>1. DOMAIN blocks = {1, 2, 3} /\ blocks[1] = L /\ blocks[2] = S /\ blocks[3] = O
      BY <2>2, WrittenIs
    <3>2. /\ Sets(L, d) => cascaded.single[d] = L.single[d]
          /\ ~Sets(L, d) /\ Sets(S, d) => cascaded.single[d] = S.single[d]
          /\ ~Sets(L, d) /\ ~Sets(S, d) /\ Sets(O, d) => cascaded.single[d] = O.single[d]
          /\ ~Sets(L, d) /\ ~Sets(S, d) /\ ~Sets(O, d) => cascaded.single[d] = None
      BY <1>1, <2>2, CascadedValues
    <3> HIDE DEF blocks, cascaded, L, S, O
    <3> QED
      BY <3>1, <3>2
  <2> QED
    BY <2>1, <2>2
<1> HIDE DEF cascaded, blocks
<1> QED
  BY <1>3, <1>4, <1>5 DEF IsInnermost, block, blocks

\* A server block, cascaded, says of a code what the first of itself and the
\* http block that names it says; a location what the first of three says.
LEMMA CascadedSays ==
    ASSUME TypeOK, NEW s \in DOMAIN originalConfig.servers, NEW code \in Codes
    PROVE  LET O == originalConfig.errorPages
               S == originalConfig.servers[s].errorPages
               serverPages == ServerCascaded(s).errorPages
           IN  /\ O \in PageMaps /\ S \in PageMaps /\ serverPages \in PageMaps
               /\ CodesOf(serverPages) = CodesOf(O) \cup CodesOf(S)
               /\ \A page : Says(code, serverPages, page)
                              => Says(code, IF code \in CodesOf(S) THEN S ELSE O, page)
               /\ \A l \in DOMAIN originalConfig.servers[s].locations :
                    LET L == originalConfig.servers[s].locations[l].errorPages
                        location == LocationCascaded(s, l).errorPages
                    IN  /\ L \in PageMaps /\ location \in PageMaps
                        /\ CodesOf(location) = CodesOf(O) \cup CodesOf(S) \cup CodesOf(L)
                        /\ \A page : Says(code, location, page)
                             => Says(code, IF code \in CodesOf(L) THEN L
                                           ELSE IF code \in CodesOf(S) THEN S ELSE O, page)
<1> DEFINE O == originalConfig.errorPages
           S == originalConfig.servers[s].errorPages
           serverPages == ServerCascaded(s).errorPages
<1>1. /\ O \in PageMaps /\ S \in PageMaps /\ originalConfig.servers[s] \in ServerType
      /\ ServerCascaded(s) \in ServerType
  BY BlockTypes DEF IsBlock
<1>2. serverPages = cascadeErrorPage(O, S)
  BY <1>1, CascadeFields DEF ServerCascaded
<1>3. ASSUME NEW l \in DOMAIN originalConfig.servers[s].locations
      PROVE  LET L == originalConfig.servers[s].locations[l].errorPages
                 location == LocationCascaded(s, l).errorPages
             IN  L \in PageMaps /\ location = cascadeErrorPage(O, cascadeErrorPage(serverPages, L))
  <2> DEFINE b == originalConfig.servers[s].locations[l]
             M == Cascade(ServerCascaded(s), b)
  <2>1. b \in LocationType /\ b.errorPages \in PageMaps
    BY <1>1, BlockTypes DEF IsBlock
  <2>2. LocationCascaded(s, l) = Cascade(originalConfig, M)
    BY DEF LocationCascaded
  <2> HIDE DEF b
  <2>3. M \in LocationType /\ M.errorPages = cascadeErrorPage(serverPages, b.errorPages)
    BY <1>1, <2>1, BlockTypes, CascadeType, CascadeFields
  <2> HIDE DEF M
  <2>4. Cascade(originalConfig, M).errorPages = cascadeErrorPage(O, M.errorPages)
    BY <2>3, CascadeFields
  <2> QED
    BY <2>1, <2>2, <2>3, <2>4 DEF b
<1> HIDE DEF O, S, serverPages
<1>4. /\ serverPages \in PageMaps /\ CodesOf(serverPages) = CodesOf(O) \cup CodesOf(S)
      /\ \A page : Says(code, serverPages, page)
                     => Says(code, IF code \in CodesOf(S) THEN S ELSE O, page)
  BY <1>1, <1>2, CascadedPages
<1>5. ASSUME NEW l \in DOMAIN originalConfig.servers[s].locations
      PROVE  LET L == originalConfig.servers[s].locations[l].errorPages
                 location == LocationCascaded(s, l).errorPages
             IN  /\ L \in PageMaps /\ location \in PageMaps
                 /\ CodesOf(location) = CodesOf(O) \cup CodesOf(S) \cup CodesOf(L)
                 /\ \A page : Says(code, location, page)
                      => Says(code, IF code \in CodesOf(L) THEN L
                                    ELSE IF code \in CodesOf(S) THEN S ELSE O, page)
  <2> DEFINE L == originalConfig.servers[s].locations[l].errorPages
             location == LocationCascaded(s, l).errorPages
             middle == cascadeErrorPage(serverPages, L)
  <2>1. L \in PageMaps /\ location = cascadeErrorPage(O, middle)
    BY <1>3
  <2> HIDE DEF L, location
  <2>2. /\ middle \in PageMaps /\ CodesOf(middle) = CodesOf(serverPages) \cup CodesOf(L)
        /\ \A page : Says(code, middle, page)
                       => Says(code, IF code \in CodesOf(L) THEN L ELSE serverPages, page)
    BY <1>4, <2>1, CascadedPages
  <2> HIDE DEF middle
  <2>3. /\ location \in PageMaps /\ CodesOf(location) = CodesOf(O) \cup CodesOf(middle)
        /\ \A page : Says(code, location, page)
                       => Says(code, IF code \in CodesOf(middle) THEN middle ELSE O, page)
    BY <1>1, <2>1, <2>2, CascadedPages
  <2>4. CodesOf(location) = CodesOf(O) \cup CodesOf(S) \cup CodesOf(L)
    BY <1>4, <2>2, <2>3
  <2>5. ASSUME NEW page, Says(code, location, page)
        PROVE  Says(code, IF code \in CodesOf(L) THEN L
                          ELSE IF code \in CodesOf(S) THEN S ELSE O, page)
    <3>1. CASE code \notin CodesOf(middle)
      <4>1. Says(code, O, page) /\ code \notin CodesOf(L) /\ code \notin CodesOf(S)
        BY <1>4, <2>2, <2>3, <2>5, <3>1
      <4> QED
        BY <4>1
    <3>2. CASE code \in CodesOf(middle)
      <4>1. Says(code, IF code \in CodesOf(L) THEN L ELSE serverPages, page)
        BY <2>2, <2>3, <2>5, <3>2
      <4> QED
        BY <1>4, <4>1
    <3> QED
      BY <3>1, <3>2
  <2> QED
    BY <2>1, <2>3, <2>4, <2>5 DEF L, location
<1> QED
  BY <1>1, <1>4, <1>5 DEF O, S, serverPages

\* findErrorPagePath finds a page of the innermost block that names the code.
LEMMA PageHolds == TypeOK /\ CascadeInv => PageIsOfInnermost
<1> SUFFICES ASSUME TypeOK, CascadeInv, pc = "done",
                    NEW s \in DOMAIN config.servers, NEW l \in 0..Len(config.servers[s].locations),
                    NEW code \in Codes
             PROVE  LET blocks == Written(s, l)
                        naming == {k \in DOMAIN blocks : code \in CodesOf(blocks[k].errorPages)}
                        page == findErrorPagePath(code, s, l)
                    IN  IF naming = {} THEN page = None
                        ELSE \E k \in naming :
                               /\ IsInnermost(k, naming)
                               /\ \E m \in NamesOf(code, blocks[k].errorPages) :
                                    page = blocks[k].errorPages[m][code]
  BY DEF PageIsOfInnermost
<1> DEFINE O == originalConfig.errorPages
           S == originalConfig.servers[s].errorPages
           L == originalConfig.servers[s].locations[l].errorPages
           serverPages == config.servers[s].errorPages
           location == config.servers[s].locations[l].errorPages
           blocks == Written(s, l)
           naming == {k \in DOMAIN blocks : code \in CodesOf(blocks[k].errorPages)}
           page == findErrorPagePath(code, s, l)
           ofLocation == IF l = 0 THEN None ELSE lookupErrorPage(code, location)
           ofServer == lookupErrorPage(code, serverPages)
           ofHttp == lookupErrorPage(code, O)
<1>1. /\ s \in DOMAIN originalConfig.servers /\ ServerInv(s)
      /\ l # 0 => l \in DOMAIN originalConfig.servers[s].locations
  <2>1. s \in DOMAIN originalConfig.servers
    BY BlockTypes DEF CascadeInv
  <2>2. originalConfig.servers[s].locations \in Seq(LocationType)
    BY <2>1, BlockTypes
  <2>3. ServerInv(s)
    BY <2>1 DEF CascadeInv
  <2> QED
    BY <2>1, <2>2, <2>3 DEF ServerInv
<1>2. serverPages = ServerCascaded(s).errorPages
  BY <1>1 DEF ServerInv, Begun
<1>3. l # 0 => location = LocationCascaded(s, l).errorPages
  <2> SUFFICES ASSUME l # 0 PROVE location = LocationCascaded(s, l).errorPages
    OBVIOUS
  <2>1. LocationInv(s, l) /\ Passed(s, l) /\ LocationCascaded(s, l) \in LocationType
    BY <1>1, BlockTypes DEF CascadeInv, Passed
  <2>2. config.servers[s].locations[l] = WithDefault(LocationCascaded(s, l))
    BY <2>1 DEF LocationInv
  <2>3. WithDefault(LocationCascaded(s, l)).errorPages = LocationCascaded(s, l).errorPages
    BY <2>1, DefaultFields
  <2> QED
    BY <2>2, <2>3
<1>4. page = CASE ofLocation # None -> ofLocation
               [] ofLocation = None /\ ofServer # None -> ofServer
               [] ofLocation = None /\ ofServer = None -> ofHttp
  BY DEF findErrorPagePath, CascadeInv
<1>5. /\ O \in PageMaps /\ S \in PageMaps /\ serverPages \in PageMaps
      /\ CodesOf(serverPages) = CodesOf(O) \cup CodesOf(S)
      /\ \A p : Says(code, serverPages, p) => Says(code, IF code \in CodesOf(S) THEN S ELSE O, p)
  BY <1>1, <1>2, CascadedSays
<1>6. l # 0 =>
        /\ L \in PageMaps /\ location \in PageMaps
        /\ CodesOf(location) = CodesOf(O) \cup CodesOf(S) \cup CodesOf(L)
        /\ \A p : Says(code, location, p)
             => Says(code, IF code \in CodesOf(L) THEN L
                           ELSE IF code \in CodesOf(S) THEN S ELSE O, p)
  <2> SUFFICES ASSUME l # 0
               PROVE  /\ L \in PageMaps /\ location \in PageMaps
                      /\ CodesOf(location) = CodesOf(O) \cup CodesOf(S) \cup CodesOf(L)
                      /\ \A p : Says(code, location, p)
                           => Says(code, IF code \in CodesOf(L) THEN L
                                         ELSE IF code \in CodesOf(S) THEN S ELSE O, p)
    OBVIOUS
  <2>1. l \in DOMAIN originalConfig.servers[s].locations
    BY <1>1
  <2>2. location = LocationCascaded(s, l).errorPages
    BY <1>3
  <2> HIDE DEF location
  <2> QED
    BY <1>1, <2>1, <2>2, CascadedSays
<1>7. l = 0 => DOMAIN blocks = {1, 2} /\ blocks[1].errorPages = S /\ blocks[2].errorPages = O
  BY WrittenIs
<1>8. l # 0 => /\ DOMAIN blocks = {1, 2, 3}
               /\ blocks[1].errorPages = L /\ blocks[2].errorPages = S /\ blocks[3].errorPages = O
  BY WrittenIs
<1>9. None \notin Pages
  BY CascadeAssumption
<1> HIDE DEF O, S, L, serverPages, location, blocks, page
<1>10. /\ code \in CodesOf(serverPages) => Says(code, serverPages, ofServer) /\ ofServer # None
       /\ code \notin CodesOf(serverPages) => ofServer = None
       /\ code \notin CodesOf(O) => ofHttp = None
  BY <1>5, <1>9, LookupSays
<1>11. l # 0 =>
         /\ code \in CodesOf(location) => Says(code, location, ofLocation) /\ ofLocation # None
         /\ code \notin CodesOf(location) => ofLocation = None
  BY <1>6, <1>9, LookupSays
<1>12. l = 0 => ofLocation = None
  OBVIOUS
<1> HIDE DEF ofServer, ofHttp, ofLocation
<1>13. \/ naming = {} /\ page = None
       \/ \E k \in naming : (\A m \in naming : k <= m) /\ Says(code, blocks[k].errorPages, page)
  <2>1. CASE l = 0
    <3>1. code \in CodesOf(serverPages) => page = ofServer
      BY <1>4, <1>10, <1>12, <2>1
    <3>2. code \notin CodesOf(serverPages) => page = None /\ code \notin CodesOf(S) /\ code \notin CodesOf(O)
      BY <1>4, <1>5, <1>10, <1>12, <2>1
    <3>3. code \in CodesOf(serverPages) => Says(code, IF code \in CodesOf(S) THEN S ELSE O, page)
      BY <1>5, <1>10, <3>1
    <3> QED
      BY <1>5, <1>7, <2>1, <3>2, <3>3
  <2>2. CASE l # 0
    <3>1. code \in CodesOf(location) => page = ofLocation
      BY <1>4, <1>11, <2>2
    <3>2. code \notin CodesOf(location) => page = None /\ code \notin CodesOf(L)
                                             /\ code \notin CodesOf(S) /\ code \notin CodesOf(O)
      BY <1>4, <1>5, <1>6, <1>10, <1>11, <2>2
    <3>3. code \in CodesOf(location) => Says(code, IF code \in CodesOf(L) THEN L
                                               ELSE IF code \in CodesOf(S) THEN S ELSE O, page)
      BY <1>6, <1>11, <2>2, <3>1
    <3> QED
      BY <1>6, <1>8, <2>2, <3>2, <3>3
  <2> QED
    BY <2>1, <2>2
<1> QED
  BY <1>13 DEF Says, IsInnermost, page, blocks

-----------------------------------------------------------------------------
(***************************************************************************)
(* applyCascade on its own, for every set of configurations.               *)
(***************************************************************************)
\* applyCascade begins with a configuration it has not touched.
LEMMA CascadeInit == Init => TypeOK /\ CascadeInv
BY UntouchedInv, CascadeAssumption DEF Init

\* The loops keep the type and the invariant.
LEMMA CascadeInvCorrect == Spec => [](TypeOK /\ CascadeInv)
BY CascadeInit, CascadeStep, PTL DEF Spec

\* applyCascade keeps the shape of a configuration.
THEOREM CascadeTypeCorrect == Spec => []TypeOK
BY CascadeInvCorrect, PTL

\* Every directive has the value of the innermost block that sets it.
THEOREM InnermostCorrect == Spec => []InnermostWins
BY CascadeInvCorrect, InnermostHolds, PTL

\* Every error page is one of the innermost block that names its code.
THEOREM PageCorrect == Spec => []PageIsOfInnermost
BY CascadeInvCorrect, PageHolds, PTL

-----------------------------------------------------------------------------
(***************************************************************************)
(* ConfParser: what the blocks it is in the middle of, and the one it      *)
(* returns, are made of.                                                   *)
(***************************************************************************)
Words == Values \cap Pages
Arguments1 == {words \in Seq(Values) : words # <<>>}
ErrorPageWords == {words \in Seq(Words) : NamesErrorPage(words)}

\* The directives set in a block.
SetType(kind) == UNION {[D -> Arguments1] : D \in SUBSET Directives[kind]}

Blocks(kind, within) ==
    [kind : {kind}, name : Seq(Values \cup {"", "="}), set : SetType(kind),
     errorPages : Seq(ErrorPageWords), inside : Seq(within)]

LocationBlocks == Blocks("location", {})
ServerBlocks == Blocks("server", LocationBlocks)
ClosedServers == {b \in ServerBlocks : "listen" \in DOMAIN b.set}
HttpBlocks == Blocks("http", ClosedServers)

\* The blocks that may stand at a depth of the stack.
Level(k) == IF k = 1 THEN HttpBlocks ELSE IF k = 2 THEN ServerBlocks ELSE LocationBlocks

IsStack(blocks) ==
    /\ blocks \in Seq(HttpBlocks \cup ServerBlocks \cup LocationBlocks)
    /\ Len(blocks) <= 3 /\ \A k \in DOMAIN blocks : blocks[k] \in Level(k)

SyntaxInv ==
    /\ tokens \in Seq(Words) /\ token_index \in 1..(Len(tokens) + 1)
    /\ parser \in {"parsing", "parsed", "error"} /\ IsStack(contexts)
    /\ httpContext = Unwritten \/ httpContext \in HttpBlocks
    /\ parser = "parsed" => httpContext \in HttpBlocks

\* What is to become of a directive is a function from names to arguments.
LEMMA SetTypeIs ==
    ASSUME NEW kind, NEW set \in SetType(kind)
    PROVE  /\ DOMAIN set \subseteq Directives[kind]
           /\ \A d \in DOMAIN set : set[d] \in Arguments1
           /\ \A d \in Directives[kind], words \in Arguments1 :
                /\ With1(set, d, words) \in SetType(kind)
                /\ DOMAIN With1(set, d, words) = DOMAIN set \cup {d}
<1>1. PICK D \in SUBSET Directives[kind] : set \in [D -> Arguments1]
  BY DEF SetType
<1> HIDE DEF Arguments1
<1>2. ASSUME NEW d \in Directives[kind], NEW words \in Arguments1
      PROVE  /\ With1(set, d, words) \in SetType(kind)
             /\ DOMAIN With1(set, d, words) = DOMAIN set \cup {d}
  <2> DEFINE E == D \cup {d}
  <2>1. E \in SUBSET Directives[kind]
    BY <1>1
  <2>2. With1(set, d, words) \in [E -> Arguments1]
    BY <1>1 DEF With1
  <2> QED
    BY <1>1, <2>1, <2>2 DEF SetType, With1
<1> QED
  BY <1>1, <1>2

\* A block, field by field.
LEMMA BlockFields ==
    ASSUME NEW kind, NEW within, NEW b \in Blocks(kind, within)
    PROVE  /\ b.kind = kind /\ b.name \in Seq(Values \cup {"", "="}) /\ b.set \in SetType(kind)
           /\ b.errorPages \in Seq(ErrorPageWords) /\ b.inside \in Seq(within)
           /\ \A set \in SetType(kind) :
                /\ [b EXCEPT !.set = set] \in Blocks(kind, within)
                /\ [b EXCEPT !.set = set].set = set
           /\ \A pages \in Seq(ErrorPageWords) : [b EXCEPT !.errorPages = pages] \in Blocks(kind, within)
           /\ \A inside \in Seq(within) : [b EXCEPT !.inside = inside] \in Blocks(kind, within)
<1> DEFINE N == Seq(Values \cup {"", "="})
           S == SetType(kind)
           E == Seq(ErrorPageWords)
           I == Seq(within)
<1>1. Blocks(kind, within) = [kind : {kind}, name : N, set : S, errorPages : E, inside : I]
  BY DEF Blocks
<1> DEFINE T == Blocks(kind, within)
<1> HIDE DEF N, S, E, I, T
<1>2. b \in [kind : {kind}, name : N, set : S, errorPages : E, inside : I]
  BY <1>1 DEF T
<1>3. b.kind = kind /\ b.name \in N /\ b.set \in S /\ b.errorPages \in E /\ b.inside \in I
  BY <1>2
<1>4. ASSUME NEW set \in S PROVE [b EXCEPT !.set = set] \in T /\ [b EXCEPT !.set = set].set = set
  BY <1>1, <1>2 DEF T
<1>5. ASSUME NEW pages \in E PROVE [b EXCEPT !.errorPages = pages] \in T
  BY <1>1, <1>2 DEF T
<1>6. ASSUME NEW inside \in I PROVE [b EXCEPT !.inside = inside] \in T
  BY <1>1, <1>2 DEF T
<1> QED
  BY <1>3, <1>4, <1>5, <1>6 DEF N, S, E, I, T

\* The function of nothing, which is the sequence of nothing.
LEMMA EmptyFunction == ASSUME NEW S PROVE << >> \in [{} -> S]
<1>1. << >> \in Seq(S) /\ Len(<< >>) = 0
  BY EmptySeq
<1>2. << >> \in [1..0 -> S]
  BY <1>1, LenProperties
<1>3. 1..0 = {}
  BY SMT
<1> QED
  BY <1>2, <1>3, Zenon

\* A block with a directive more.
LEMMA BlockWithSet ==
    ASSUME NEW kind, NEW within, NEW b \in Blocks(kind, within), NEW set \in SetType(kind)
    PROVE  /\ [b EXCEPT !.set = set] \in Blocks(kind, within)
           /\ [b EXCEPT !.set = set].set = set
<1> DEFINE N == Seq(Values \cup {"", "="})
           S == SetType(kind)
           E == Seq(ErrorPageWords)
           I == Seq(within)
           T == Blocks(kind, within)
<1>1. T = [kind : {kind}, name : N, set : S, errorPages : E, inside : I]
  BY DEF Blocks
<1>2. b \in T /\ set \in S
  OBVIOUS
<1> HIDE DEF N, S, E, I, T
<1>3. [b EXCEPT !.set = set] \in T /\ [b EXCEPT !.set = set].set = set
  BY <1>1, <1>2
<1> QED
  BY <1>3 DEF T

\* A block with a block more inside.
LEMMA BlockWithInside ==
    ASSUME NEW kind, NEW within, NEW b \in Blocks(kind, within), NEW inner \in within
    PROVE  [b EXCEPT !.inside = Append(b.inside, inner)] \in Blocks(kind, within)
<1> DEFINE N == Seq(Values \cup {"", "="})
           S == SetType(kind)
           E == Seq(ErrorPageWords)
           I == Seq(within)
           T == Blocks(kind, within)
           inside == Append(b.inside, inner)
<1>1. T = [kind : {kind}, name : N, set : S, errorPages : E, inside : I]
  BY DEF Blocks
<1>2. b.inside \in Seq(within)
  BY BlockFields
<1>3. inside \in I
  BY <1>2, AppendProperties
<1>4. b \in T
  OBVIOUS
<1> HIDE DEF N, S, E, I, T, inside
<1>5. [b EXCEPT !.inside = inside] \in T
  BY <1>1, <1>3, <1>4
<1> QED
  BY <1>5 DEF T, inside

\* A block that was just opened.
LEMMA NewBlock ==
    ASSUME NEW kind \in {"http", "server", "location"}, NEW within,
           NEW name \in Seq(Values \cup {"", "="})
    PROVE  Block(kind, name) \in Blocks(kind, within)
<1>1. << >> \in SetType(kind)
  BY EmptyFunction, Zenon DEF SetType
<1>2. <<>> \in Seq(ErrorPageWords) /\ <<>> \in Seq(within)
  BY EmptySeq
<1> QED
  BY <1>1, <1>2 DEF Block, Blocks

\* The tokens of a directive are its name, its arguments and its end.
LEMMA ArgumentsAre ==
    ASSUME tokens \in Seq(Words), NEW k \in DOMAIN tokens, EndOfDirective(k) <= Len(tokens)
    PROVE  /\ EndOfDirective(k) \in (k + 1)..Len(tokens)
           /\ Arguments(k) \in Seq(Words) /\ Arguments(k) \in Seq(Values)
           /\ k + Len(Arguments(k)) + 2 = EndOfDirective(k) + 1
<1> DEFINE ends == {m \in (k + 1)..Len(tokens) :
                      tokens[m] = IF tokens[k] = "limit_except" THEN "}" ELSE ";"}
           end == EndOfDirective(k)
<1>1. Len(tokens) \in Nat /\ k \in 1..Len(tokens)
  OBVIOUS
<1>2. end = IF ends = {} THEN Len(tokens) + 1 ELSE CHOOSE m \in ends : \A n \in ends : m <= n
  BY DEF EndOfDirective
<1>3. ends # {} => end \in ends
  <2> HIDE DEF end
  <2>0. (k + 1)..Len(tokens) \subseteq Nat
    BY <1>1
  <2>1. ends \subseteq Nat
    BY <2>0
  <2> HIDE DEF ends
  <2>2. ends # {} => \E m \in ends : \A n \in ends : m <= n
    BY <2>1, LeastNatural
  <2> QED
    BY <1>2, <2>2
<1>4. ends # {}
  <2> HIDE DEF ends, end
  <2> QED
    BY <1>1, <1>2 DEF end
<1>5. end \in (k + 1)..Len(tokens)
  BY <1>3, <1>4
<1> HIDE DEF end, ends
<1>6. \A m \in (k + 1)..(end - 1) : tokens[m] \in Words
  BY <1>1, <1>5
<1>7. /\ SubSeq(tokens, k + 1, end - 1) \in Seq(Words)
      /\ Len(SubSeq(tokens, k + 1, end - 1)) = IF k + 1 <= end - 1 THEN end - 1 - (k + 1) + 1 ELSE 0
  <2>1. k + 1 \in Int /\ end - 1 \in Int
    BY <1>1, <1>5
  <2> QED
    BY <1>6, <2>1, SubSeqProperties
<1>8. Arguments(k) = SubSeq(tokens, k + 1, end - 1)
  BY DEF Arguments, end
<1>9. Arguments(k) \in Seq(Values)
  <2>1. Words \subseteq Values
    BY DEF Words
  <2> QED
    BY <1>7, <1>8, <2>1, SeqMonotonic
<1>10. k + Len(Arguments(k)) + 2 = end + 1
  <2>1. Len(Arguments(k)) = IF k + 1 <= end - 1 THEN end - 1 - (k + 1) + 1 ELSE 0
    BY <1>7, <1>8
  <2>2. k \in Int /\ end \in Int /\ k + 1 <= end
    BY <1>1, <1>5
  <2>3. Len(Arguments(k)) = end - k - 1
    BY <2>1, <2>2
  <2> QED
    BY <2>2, <2>3
<1> QED
  BY <1>5, <1>7, <1>8, <1>9, <1>10 DEF end

\* The blocks of a depth are all of one kind.
LEMMA LevelIs ==
    ASSUME NEW k \in 1..3
    PROVE  Level(k) = Blocks(<<"http", "server", "location">>[k],
                             <<ClosedServers, LocationBlocks, {}>>[k])
<1>1. CASE k = 1
  BY <1>1 DEF Level, HttpBlocks
<1>2. CASE k = 2
  BY <1>2 DEF Level, ServerBlocks
<1>3. CASE k = 3
  BY <1>3 DEF Level, LocationBlocks
<1> QED
  BY <1>1, <1>2, <1>3

\* The innermost block changes.
LEMMA StackReplaced ==
    ASSUME NEW blocks, IsStack(blocks), blocks # <<>>, NEW b \in Level(Len(blocks))
    PROVE  IsStack([blocks EXCEPT ![Len(blocks)] = b])
<1> DEFINE n == Len(blocks)
           A == HttpBlocks \cup ServerBlocks \cup LocationBlocks
           new == [blocks EXCEPT ![n] = b]
<1>1. blocks \in Seq(A) /\ n <= 3 /\ \A k \in DOMAIN blocks : blocks[k] \in Level(k)
  BY DEF IsStack
<1>2. b \in A
  BY DEF Level
<1> HIDE DEF A
<1>3. n \in 1..3 /\ DOMAIN blocks = 1..n
  <2>1. blocks \in Seq(A)
    BY <1>1
  <2>2. n \in Nat \ {0} /\ DOMAIN blocks = 1..n
    BY <2>1, EmptySeq, LenProperties
  <2> QED
    BY <1>1, <2>2
<1>4. new \in Seq(A) /\ Len(new) = n /\ DOMAIN new = 1..n
  BY <1>1, <1>2, <1>3, ExceptSeq
<1>5. \A k \in 1..n : new[k] \in Level(k)
  BY <1>1, <1>3
<1> QED
  BY <1>1, <1>4, <1>5 DEF IsStack, A

\* A block is opened in the innermost one.
LEMMA StackPushed ==
    ASSUME NEW blocks, IsStack(blocks), Len(blocks) < 3, NEW b \in Level(Len(blocks) + 1)
    PROVE  IsStack(Append(blocks, b))
<1> DEFINE n == Len(blocks)
           A == HttpBlocks \cup ServerBlocks \cup LocationBlocks
           new == Append(blocks, b)
<1>1. blocks \in Seq(A) /\ \A k \in DOMAIN blocks : blocks[k] \in Level(k)
  BY DEF IsStack
<1>2. b \in A
  BY DEF Level
<1> HIDE DEF A
<1>3. n \in Nat /\ DOMAIN blocks = 1..n
  BY <1>1
<1>4. /\ new \in Seq(A) /\ Len(new) = n + 1
      /\ \A k \in 1..n : new[k] = blocks[k]
      /\ new[n + 1] = b
  BY <1>1, <1>2, AppendProperties
<1> HIDE DEF new
<1>5. DOMAIN new = 1..(n + 1)
  BY <1>4
<1>6. \A k \in 1..(n + 1) : k \in 1..n \/ k = n + 1
  BY <1>3
<1>7. \A k \in DOMAIN new : new[k] \in Level(k)
  BY <1>1, <1>3, <1>4, <1>5, <1>6
<1>8. Len(new) <= 3
  BY <1>3, <1>4
<1>9. IsStack(new)
  BY <1>4, <1>7, <1>8 DEF IsStack, A
<1> QED
  BY <1>9 DEF new

\* The innermost block is closed.
LEMMA StackPopped ==
    ASSUME NEW blocks, IsStack(blocks), blocks # <<>>
    PROVE  LET rest == SubSeq(blocks, 1, Len(blocks) - 1)
           IN  /\ IsStack(rest) /\ Len(rest) = Len(blocks) - 1
               /\ \A k \in 1..Len(rest) : rest[k] = blocks[k]
<1> DEFINE n == Len(blocks)
           A == HttpBlocks \cup ServerBlocks \cup LocationBlocks
           rest == SubSeq(blocks, 1, n - 1)
<1>1. blocks \in Seq(A) /\ n <= 3 /\ \A k \in DOMAIN blocks : blocks[k] \in Level(k)
  BY DEF IsStack
<1> HIDE DEF A
<1>2. n \in 1..3 /\ DOMAIN blocks = 1..n
  <2>1. blocks \in Seq(A)
    BY <1>1
  <2>2. n \in Nat \ {0} /\ DOMAIN blocks = 1..n
    BY <2>1, EmptySeq, LenProperties
  <2> QED
    BY <1>1, <2>2
<1>3. \A k \in 1..(n - 1) : blocks[k] \in A
  BY <1>1, <1>2
<1>4. /\ rest \in Seq(A) /\ Len(rest) = IF 1 <= n - 1 THEN n - 1 - 1 + 1 ELSE 0
      /\ \A k \in 1..(n - 1 - 1 + 1) : rest[k] = blocks[1 + k - 1]
  <2>1. 1 \in Int /\ n - 1 \in Int
    BY <1>2
  <2> QED
    BY <1>3, <2>1, SubSeqProperties
<1> HIDE DEF rest, n
<1>5. Len(rest) = n - 1
  BY <1>2, <1>4
<1>6. \A k \in 1..(n - 1) : rest[k] = blocks[k]
  BY <1>2, <1>4
<1>7. DOMAIN rest = 1..(n - 1)
  BY <1>4, <1>5
<1>8. \A k \in DOMAIN rest : rest[k] \in Level(k)
  BY <1>1, <1>2, <1>6, <1>7
<1>9. Len(rest) <= 3
  BY <1>2, <1>5
<1> QED
  BY <1>4, <1>5, <1>6, <1>8, <1>9 DEF IsStack, A, rest, n

\* The parser starts with a file of words.
LEMMA ParserInitInv == ParserInit => SyntaxInv
<1> SUFFICES ASSUME ParserInit PROVE SyntaxInv
  OBVIOUS
<1>1. PICK file \in Files : tokens = file.tokens
  BY DEF ParserInit
<1>2. tokens \in Seq(Values) /\ tokens \in Seq(Pages)
  BY <1>1, StartupAssumption
<1>3. tokens \in Seq(Words)
  <2>1. \A k \in 1..Len(tokens) : tokens[k] \in Words
    BY <1>2, ElementOfSeq DEF Words
  <2>2. tokens \in [1..Len(tokens) -> Words] /\ Len(tokens) \in Nat
    BY <1>2, <2>1, LenProperties
  <2> HIDE DEF Words
  <2> QED
    BY <2>2
<1>4. token_index \in 1..(Len(tokens) + 1)
  BY <1>2 DEF ParserInit
<1>5. IsStack(contexts)
  <2> DEFINE A == HttpBlocks \cup ServerBlocks \cup LocationBlocks
  <2>1. <<>> \in Seq(A) /\ Len(<<>>) = 0
    BY EmptySeq
  <2>2. DOMAIN <<>> = {}
    OBVIOUS
  <2> QED
    BY <2>1, <2>2 DEF ParserInit, IsStack
<1> QED
  BY <1>3, <1>4, <1>5 DEF ParserInit, SyntaxInv

\* A token that is not empty is one of the file's.
LEMMA TokenIs ==
    ASSUME tokens \in Seq(Words), NEW k
    PROVE  /\ Token(k) \in Values \cup {""}
           /\ Token(k) # "" => k \in 1..Len(tokens)
<1>1. DOMAIN tokens = 1..Len(tokens) /\ \A m \in 1..Len(tokens) : tokens[m] \in Words
  BY ElementOfSeq, LenProperties
<1> QED
  BY <1>1 DEF Token, Words

\* The parser enters the http block.
LEMMA OpenHttpInv == SyntaxInv /\ OpenHttp => SyntaxInv'
<1> SUFFICES ASSUME SyntaxInv, OpenHttp PROVE SyntaxInv'
  OBVIOUS
<1> DEFINE b == Block("http", <<>>)
<1>1. IsStack(contexts')
  <2>1. <<>> \in Seq(Values \cup {"", "="})
    BY EmptySeq
  <2>2. b \in Level(1)
    BY <2>1, NewBlock DEF Level, HttpBlocks
  <2> DEFINE A == HttpBlocks \cup ServerBlocks \cup LocationBlocks
  <2>3. b \in A
    BY <2>2 DEF Level
  <2> HIDE DEF b, A
  <2>4. <<b>> \in Seq(A) /\ Len(<<b>>) = 1 /\ DOMAIN <<b>> = {1} /\ <<b>>[1] = b
    BY <2>3
  <2>5. IsStack(<<b>>)
    BY <2>2, <2>4 DEF IsStack, A
  <2> QED
    BY <2>5 DEF OpenHttp, b
<1>2. token_index' \in 1..(Len(tokens') + 1)
  <2>1. token_index \in Nat /\ Len(tokens) \in Nat /\ tokens \in Seq(Words) /\ token_index >= 1
    BY DEF SyntaxInv
  <2>2. Token(token_index + 1) # ""
    BY DEF OpenHttp
  <2>3. token_index + 1 \in 1..Len(tokens)
    BY <2>1, <2>2, TokenIs
  <2>4. token_index' = token_index + 2 /\ tokens' = tokens
    BY DEF OpenHttp, Parse, Move
  <2> QED
    BY <2>1, <2>3, <2>4
<1> QED
  BY <1>1, <1>2 DEF SyntaxInv, OpenHttp, Parse, Move

\* The parser enters a block in the one it is in.
LEMMA OpenBlockInv == SyntaxInv /\ OpenBlock => SyntaxInv'
<1> SUFFICES ASSUME SyntaxInv, OpenBlock PROVE SyntaxInv'
  OBVIOUS
<1> DEFINE n == Len(contexts)
           b == Block(Inner[Top.kind], BlockName)
<1>0. /\ tokens \in Seq(Words) /\ Len(tokens) \in Nat /\ token_index \in Nat /\ token_index >= 1
      /\ IsStack(contexts) /\ contexts # <<>>
  BY DEF SyntaxInv, OpenBlock, InBlock
<1>1. n \in 1..3 /\ Top \in Level(n)
  <2>1. contexts \in Seq(HttpBlocks \cup ServerBlocks \cup LocationBlocks)
    BY <1>0 DEF IsStack
  <2>2. n \in Nat \ {0} /\ DOMAIN contexts = 1..n
    BY <1>0, <2>1, EmptySeq, LenProperties
  <2> QED
    BY <1>0, <2>2 DEF IsStack, Top
<1> HIDE DEF n, b
<1>2. Top.kind = <<"http", "server", "location">>[n]
  <2> DEFINE kind == <<"http", "server", "location">>[n]
             within == <<ClosedServers, LocationBlocks, {}>>[n]
  <2>1. Top \in Blocks(kind, within)
    BY <1>1, LevelIs
  <2> HIDE DEF kind, within
  <2>2. Top.kind = kind
    BY <2>1, BlockFields
  <2> QED
    BY <2>2 DEF kind
<1>3. OpensBlock
  BY DEF OpenBlock
<1>4. n \in 1..2
  <2>1. DOMAIN Inner = {"http", "server"}
    BY DEF Inner
  <2>2. Top.kind \in {"http", "server"}
    BY <1>3, <2>1 DEF OpensBlock
  <2>3. n = 3 => Top.kind = "location"
    BY <1>2
  <2>4. n \in 1..3
    BY <1>1
  <2> QED
    BY <2>2, <2>3, <2>4
<1>5. Inner[Top.kind] = <<"http", "server", "location">>[n + 1]
  BY <1>2, <1>4 DEF Inner
<1>6. BlockName \in Seq(Values \cup {"", "="}) /\ Len(BlockName) \in Nat
  <2>0. Token(token_index + 1) \in Values \cup {"", "="} /\ Token(token_index + 2) \in Values \cup {"", "="}
    BY <1>0, TokenIs
  <2> DEFINE S == Values \cup {"", "="}
  <2>1. "=" \in S
    OBVIOUS
  <2> HIDE DEF S
  <2>2. <<>> \in Seq(S) /\ <<"=", Token(token_index + 2)>> \in Seq(S) /\ <<Token(token_index + 1)>> \in Seq(S)
    <3>1. Token(token_index + 1) \in S /\ Token(token_index + 2) \in S
      BY <2>0 DEF S
    <3>2. \A x, y \in S : <<x>> \in Seq(S) /\ <<x, y>> \in Seq(S)
      OBVIOUS
    <3> QED
      BY <2>1, <3>1, <3>2, EmptySeq
  <2>3. BlockName \in Seq(S)
    BY <2>2 DEF BlockName, LocationName
  <2> QED
    BY <2>3, LenProperties DEF S
<1>7. b \in Level(n + 1)
  <2>1. Inner[Top.kind] \in {"http", "server", "location"}
    BY <1>4, <1>5
  <2>2. n + 1 \in 1..3
    BY <1>4
  <2>3. \A within : b \in Blocks(Inner[Top.kind], within)
    BY <1>6, <2>1, NewBlock DEF b
  <2> QED
    BY <1>5, <2>2, <2>3, LevelIs
<1>8. IsStack(Append(contexts, b))
  <2>1. Len(contexts) < 3 /\ b \in Level(Len(contexts) + 1)
    <3>1. n < 3
      BY <1>4
    <3> QED
      BY <1>7, <3>1 DEF n
  <2> QED
    BY <1>0, <2>1, StackPushed
<1>9. contexts' = Append(contexts, b)
  BY DEF OpenBlock, b
<1>10. token_index' \in 1..(Len(tokens') + 1)
  <2> DEFINE k == token_index + 1 + Len(BlockName)
  <2>1. Token(k) # ""
    BY <1>3 DEF OpensBlock
  <2>2. k \in 1..Len(tokens)
    BY <1>0, <2>1, TokenIs
  <2>3. token_index' = token_index + (2 + Len(BlockName)) /\ tokens' = tokens
    BY DEF OpenBlock, Parse, Move
  <2>4. token_index' = k + 1
    <3> DEFINE m == Len(BlockName)
    <3> HIDE DEF m
    <3>1. token_index \in Nat /\ m \in Nat
      BY <1>0, <1>6 DEF m
    <3>2. token_index + (2 + m) = (token_index + 1 + m) + 1
      BY <3>1
    <3> QED
      BY <2>3, <3>2 DEF m
  <2> HIDE DEF k
  <2> QED
    BY <1>0, <2>2, <2>3, <2>4
<1> QED
  BY <1>8, <1>9, <1>10 DEF SyntaxInv, OpenBlock, Parse, Move

\* What a directive is accepted with is not nothing.
LEMMA AcceptsIs ==
    ASSUME NEW kind \in {"http", "server", "location"}, NEW words \in Seq(Words),
           NEW d \in Directives[kind] \cup {"error_page"}, Accepts(d, words)
    PROVE  words # <<>> /\ (d = "error_page" => NamesErrorPage(words))
<1>1. d \in {"index", "cgi_pass", "server_name", "root", "alias", "client_max_body_size",
             "autoindex", "listen", "return", "error_page", "limit_except"}
  BY DEF Directives, Everywhere
<1>2. ASSUME words = <<>> PROVE FALSE
  <2>1. Len(words) = 0 /\ DOMAIN words = {}
    BY <1>2
  <2>2. ~LimitsMethods(words) /\ ~NamesErrorPage(words)
    BY <2>1 DEF LimitsMethods, NamesErrorPage
  <2>3. Accepts(d, words) => Len(words) = 1 \/ Len(words) = 2 \/ NamesErrorPage(words) \/ LimitsMethods(words)
    BY <1>1, Zenon DEF Accepts
  <2> QED
    BY <2>1, <2>2, <2>3
<1> QED
  BY <1>2 DEF Accepts

\* The innermost block is one of those its depth may have.
LEMMA TopIs ==
    ASSUME IsStack(contexts), contexts # <<>>
    PROVE  /\ Len(contexts) \in 1..3 /\ Top \in Level(Len(contexts))
           /\ Top \in Blocks(<<"http", "server", "location">>[Len(contexts)],
                             <<ClosedServers, LocationBlocks, {}>>[Len(contexts)])
           /\ Top.kind = <<"http", "server", "location">>[Len(contexts)]
           /\ Top.kind \in {"http", "server", "location"}
<1> DEFINE n == Len(contexts)
<1>1. n \in 1..3 /\ Top \in Level(n)
  <2>1. contexts \in Seq(HttpBlocks \cup ServerBlocks \cup LocationBlocks)
    BY DEF IsStack
  <2>2. n \in Nat \ {0} /\ DOMAIN contexts = 1..n
    BY <2>1, EmptySeq, LenProperties
  <2> QED
    BY <2>2 DEF IsStack, Top
<1> HIDE DEF n
<1> DEFINE kind == <<"http", "server", "location">>[n]
           within == <<ClosedServers, LocationBlocks, {}>>[n]
<1>2. Top \in Blocks(kind, within)
  BY <1>1, LevelIs
<1> HIDE DEF kind, within
<1>3. Top.kind = kind
  BY <1>2, BlockFields
<1>4. kind \in {"http", "server", "location"}
  BY <1>1 DEF kind
<1> QED
  BY <1>1, <1>2, <1>3, <1>4 DEF kind, within, n

\* The parser reads a directive into the innermost block.
LEMMA SetDirectiveInv == SyntaxInv /\ SetDirective => SyntaxInv'
<1> SUFFICES ASSUME SyntaxInv, SetDirective PROVE SyntaxInv'
  OBVIOUS
<1> DEFINE n == Len(contexts)
           kind == <<"http", "server", "location">>[n]
           within == <<ClosedServers, LocationBlocks, {}>>[n]
           words == Arguments(token_index)
<1>0. /\ tokens \in Seq(Words) /\ Len(tokens) \in Nat /\ token_index \in Nat /\ token_index >= 1
      /\ IsStack(contexts) /\ contexts # <<>>
  BY DEF SyntaxInv, SetDirective, InBlock
<1>1. /\ n \in 1..3 /\ Top \in Blocks(kind, within) /\ Top.kind = kind
      /\ kind \in {"http", "server", "location"} /\ Level(n) = Blocks(kind, within)
  BY <1>0, TopIs, LevelIs
<1> HIDE DEF n, kind, within
<1>2. /\ currentToken \in Directives[kind] \cup {"error_page"}
      /\ EndOfDirective(token_index) <= Len(tokens)
      /\ Accepts(currentToken, words)
      /\ currentToken # "error_page" => currentToken \in Directives[kind]
  BY <1>1 DEF SetDirective, IsDirective, MayBeSet
<1>3. token_index \in DOMAIN tokens
  <2>1. "" \notin Directives[kind] \cup {"error_page"}
    <3>1. CASE kind = "http"
      BY <3>1 DEF Directives, Everywhere
    <3>2. CASE kind = "server"
      BY <3>2 DEF Directives, Everywhere
    <3>3. CASE kind = "location"
      BY <3>3 DEF Directives, Everywhere
    <3> QED
      BY <1>1, <3>1, <3>2, <3>3
  <2>2. Token(token_index) # ""
    BY <1>2, <2>1 DEF currentToken
  <2> QED
    BY <1>0, <2>2, TokenIs, LenProperties
<1>4. /\ words \in Seq(Words) /\ words \in Seq(Values)
      /\ token_index + Len(words) + 2 = EndOfDirective(token_index) + 1
      /\ EndOfDirective(token_index) \in (token_index + 1)..Len(tokens)
  BY <1>0, <1>2, <1>3, ArgumentsAre
<1>5. words \in Arguments1 /\ (currentToken = "error_page" => words \in ErrorPageWords)
  BY <1>1, <1>2, <1>4, AcceptsIs DEF Arguments1, ErrorPageWords
<1> DEFINE b == WithDirective(Top, currentToken, words)
<1>6. contexts' = [contexts EXCEPT ![n] = b]
  BY Zenon DEF SetDirective, Top, n
<1> HIDE DEF words
<1>7. b \in Blocks(kind, within)
  <2>1. CASE currentToken = "error_page"
    <3>1. Append(Top.errorPages, words) \in Seq(ErrorPageWords)
      <4>1. Top.errorPages \in Seq(ErrorPageWords) /\ words \in ErrorPageWords
        BY <1>1, <1>5, <2>1, BlockFields
      <4> QED
        BY <4>1, AppendProperties
    <3> QED
      BY <1>1, <2>1, <3>1, BlockFields DEF WithDirective
  <2>2. CASE currentToken # "error_page"
    <3>1. With1(Top.set, currentToken, words) \in SetType(kind)
      <4>1. Top.set \in SetType(kind)
        BY <1>1, BlockFields
      <4> QED
        BY <1>2, <1>5, <2>2, <4>1, SetTypeIs
    <3> QED
      BY <1>1, <2>2, <3>1, BlockFields DEF WithDirective
  <2> QED
    BY <2>1, <2>2
<1> HIDE DEF b
<1>8. IsStack(contexts')
  <2>1. b \in Level(Len(contexts))
    BY <1>1, <1>7 DEF n
  <2> QED
    BY <1>0, <1>6, <2>1, StackReplaced DEF n
<1>9. token_index' \in 1..(Len(tokens') + 1)
  <2> DEFINE m == Len(words)
  <2>1. token_index' = token_index + (m + 2) /\ tokens' = tokens
    BY DEF SetDirective, Parse, Move, words
  <2>2. m \in Nat
    BY <1>4, LenProperties
  <2> HIDE DEF m
  <2>3. token_index + m + 2 = EndOfDirective(token_index) + 1
    BY <1>4 DEF m
  <2>4. token_index' = EndOfDirective(token_index) + 1
    BY <1>0, <2>1, <2>2, <2>3
  <2> QED
    BY <1>0, <1>4, <2>1, <2>4
<1> QED
  BY <1>8, <1>9 DEF SyntaxInv, SetDirective, Parse, Move

\* What a block that ends is: a server then has a listen directive.
LEMMA FinishedIs ==
    ASSUME IsStack(contexts), contexts # <<>>
    PROVE  /\ Finished \in Level(Len(contexts))
           /\ Len(contexts) = 2 => Finished \in ClosedServers
<1> DEFINE n == Len(contexts)
<1>1. n \in 1..3 /\ Top \in Level(n) /\ Top.kind = <<"http", "server", "location">>[n]
  BY TopIs
<1> HIDE DEF n
<1>2. CASE n # 2
  <2>1. Top.kind # "server"
    BY <1>1, <1>2
  <2> QED
    BY <1>1, <1>2, <2>1 DEF Finished, HasDefaultListen, n
<1>3. CASE n = 2
  <2>1. Top \in ServerBlocks /\ Top.kind = "server" /\ Level(n) = ServerBlocks
    BY <1>1, <1>3 DEF Level
  <2>2. ServerBlocks = Blocks("server", LocationBlocks)
    BY DEF ServerBlocks
  <2>3. Top.set \in SetType("server")
    BY <2>1, <2>2, BlockFields
  <2>4. CASE "listen" \in DOMAIN Top.set
    BY <1>3, <2>1, <2>4 DEF Finished, HasDefaultListen, ClosedServers, n
  <2>5. CASE "listen" \notin DOMAIN Top.set
    <3> DEFINE set == With1(Top.set, "listen", <<"80">>)
               b == [Top EXCEPT !.set = set]
    <3>1. <<"80">> \in Arguments1
      BY StartupAssumption DEF Arguments1
    <3>2. "listen" \in Directives["server"]
      BY DEF Directives
    <3>3. set \in SetType("server") /\ DOMAIN set = DOMAIN Top.set \cup {"listen"}
      <4> DEFINE old == Top.set
                 words == <<"80">>
      <4>1. old \in SetType("server") /\ words \in Arguments1 /\ "listen" \in Directives["server"]
        BY <2>3, <3>1, <3>2
      <4> HIDE DEF old, words
      <4>2. /\ With1(old, "listen", words) \in SetType("server")
            /\ DOMAIN With1(old, "listen", words) = DOMAIN old \cup {"listen"}
        BY ONLY <4>1, SetTypeIs, ZenonT(30)
      <4> QED
        BY ONLY <4>2 DEF old, words
    <3>4. Finished = b
      BY <2>1, <2>5 DEF Finished, HasDefaultListen
    <3> HIDE DEF set
    <3>5. b \in ServerBlocks /\ b.set = set
      <4>1. Top \in Blocks("server", LocationBlocks)
        BY <2>1, <2>2
      <4>2. b \in Blocks("server", LocationBlocks) /\ b.set = set
        <5> DEFINE old == Top
        <5>1. old \in Blocks("server", LocationBlocks) /\ set \in SetType("server")
          BY <3>3, <4>1
        <5> HIDE DEF old
        <5>2. /\ [old EXCEPT !.set = set] \in Blocks("server", LocationBlocks)
              /\ [old EXCEPT !.set = set].set = set
          BY ONLY <5>1, BlockWithSet, ZenonT(30)
        <5> QED
          BY <5>2 DEF old
      <4> QED
        BY <2>2, <4>2
    <3> HIDE DEF b
    <3>6. "listen" \in DOMAIN b.set
      BY <3>3, <3>5
    <3> QED
      BY <2>1, <3>4, <3>5, <3>6 DEF ClosedServers, n
  <2> QED
    BY <2>4, <2>5
<1> QED
  BY <1>2, <1>3

\* The parser leaves a block: it becomes one of those inside the next.
LEMMA CloseBlockInv == SyntaxInv /\ CloseBlock => SyntaxInv'
<1> SUFFICES ASSUME SyntaxInv, CloseBlock PROVE SyntaxInv'
  OBVIOUS
<1> DEFINE n == Len(contexts)
           rest == SubSeq(contexts, 1, n - 1)
<1>0. /\ tokens \in Seq(Words) /\ Len(tokens) \in Nat /\ token_index \in Nat /\ token_index >= 1
      /\ IsStack(contexts) /\ contexts # <<>>
  <2>1. InBlock
    BY DEF CloseBlock
  <2> QED
    BY <2>1 DEF SyntaxInv, InBlock
<1>1. n \in 1..3 /\ Finished \in Level(n) /\ (n = 2 => Finished \in ClosedServers)
  BY <1>0, TopIs, FinishedIs
<1>2. token_index' \in 1..(Len(tokens') + 1)
  <2>1. Token(token_index) # ""
    BY DEF CloseBlock, ClosesBlock, currentToken
  <2>2. token_index \in 1..Len(tokens)
    BY <1>0, <2>1, TokenIs
  <2>3. token_index' = token_index + 1 /\ tokens' = tokens
    BY DEF CloseBlock, Move
  <2> QED
    BY <1>0, <2>2, <2>3
<1>3. CASE n = 1
  <2>1. httpContext' = Finished /\ contexts' = <<>>
    BY <1>3 DEF CloseBlock
  <2>2. Finished \in HttpBlocks
    BY <1>1, <1>3 DEF Level
  <2>3. IsStack(<<>>)
    <3> DEFINE A == HttpBlocks \cup ServerBlocks \cup LocationBlocks
    <3>1. <<>> \in Seq(A) /\ Len(<<>>) = 0
      BY EmptySeq
    <3>2. DOMAIN <<>> = {}
      OBVIOUS
    <3> QED
      BY <3>1, <3>2 DEF IsStack
  <2>4. IsStack(contexts')
    BY <2>1, <2>3
  <2>5. httpContext' \in HttpBlocks
    BY <2>1, <2>2
  <2> QED
    BY <1>2, <2>4, <2>5 DEF SyntaxInv, CloseBlock, Move
<1>4. CASE n # 1
  <2>1. /\ IsStack(rest) /\ Len(rest) = n - 1
        /\ \A k \in 1..Len(rest) : rest[k] = contexts[k]
    BY <1>0, StackPopped
  <2>2. httpContext' = httpContext
    BY <1>4 DEF CloseBlock
  <2> DEFINE outer == rest[n - 1]
             b == [outer EXCEPT !.inside = Append(outer.inside, Finished)]
  <2>3. contexts' = [rest EXCEPT ![n - 1] = b]
    BY <1>4 DEF CloseBlock
  <2> HIDE DEF rest, n
  <2>4. n - 1 \in 1..2 /\ rest # <<>> /\ n - 1 \in DOMAIN rest
    <3>1. n - 1 \in 1..2
      BY <1>1, <1>4
    <3>2. Len(rest) # 0
      BY <2>1, <3>1
    <3>3. DOMAIN rest = 1..Len(rest)
      BY <2>1, LenProperties DEF IsStack
    <3> QED
      BY <2>1, <3>1, <3>2, <3>3, EmptySeq
  <2>5. outer \in Level(n - 1)
    BY <2>1, <2>4 DEF IsStack
  <2> HIDE DEF outer
  <2>6. b \in Level(n - 1)
    <3>1. CASE n = 2
      <4>1. outer \in Blocks("http", ClosedServers) /\ Level(n - 1) = Blocks("http", ClosedServers)
        BY <2>5, <3>1 DEF Level, HttpBlocks
      <4>2. Finished \in ClosedServers
        BY <1>1, <3>1
      <4> HIDE DEF b
      <4>3. b \in Blocks("http", ClosedServers)
        BY <4>1, <4>2, BlockWithInside DEF b
      <4> QED
        BY <4>1, <4>3
    <3>2. CASE n = 3
      <4>1. outer \in Blocks("server", LocationBlocks) /\ Level(n - 1) = Blocks("server", LocationBlocks)
        BY <2>5, <3>2 DEF Level, ServerBlocks
      <4>2. Finished \in LocationBlocks
        BY <1>1, <3>2 DEF Level
      <4> HIDE DEF b
      <4>3. b \in Blocks("server", LocationBlocks)
        BY <4>1, <4>2, BlockWithInside DEF b
      <4> QED
        BY <4>1, <4>3
    <3> QED
      BY <1>1, <1>4, <3>1, <3>2
  <2> HIDE DEF b
  <2>7. IsStack([rest EXCEPT ![Len(rest)] = b])
    BY <2>1, <2>4, <2>6, StackReplaced
  <2>8. IsStack(contexts')
    BY <2>1, <2>3, <2>7
  <2> QED
    BY <1>2, <2>2, <2>8 DEF SyntaxInv, CloseBlock, Move
<1> QED
  BY <1>3, <1>4

\* The remaining steps of the parser leave the blocks alone.
LEMMA SyntaxStep == SyntaxInv /\ [ParserNext]_parserVars => SyntaxInv'
<1> SUFFICES ASSUME SyntaxInv, [ParserNext]_parserVars PROVE SyntaxInv'
  OBVIOUS
<1>1. CASE SkipToken
  <2>1. token_index' \in 1..(Len(tokens') + 1)
    BY <1>1 DEF SyntaxInv, SkipToken, Move
  <2> QED
    BY <1>1, <2>1 DEF SyntaxInv, SkipToken, Move
<1>2. CASE ThrowError
  BY <1>2 DEF SyntaxInv, ThrowError
<1>3. CASE EndOfFile
  BY <1>3 DEF SyntaxInv, EndOfFile
<1>4. CASE UNCHANGED parserVars
  BY <1>4 DEF SyntaxInv, parserVars
<1> QED
  BY <1>1, <1>2, <1>3, <1>4, OpenHttpInv, OpenBlockInv, SetDirectiveInv, CloseBlockInv
     DEF ParserNext

-----------------------------------------------------------------------------
(***************************************************************************)
(* Start-up: what the parser returns is a configuration the cascade takes, *)
(* and every server block up to the one applyConfig is at has its socket.  *)
(***************************************************************************)
\* The blocks and the position are what the parser's type invariant says.
LEMMA SyntaxIsTyped == SyntaxInv => ParserTypeOK
<1> SUFFICES ASSUME SyntaxInv PROVE ParserTypeOK
  OBVIOUS
<1>1. ASSUME NEW kind, NEW within, NEW b \in Blocks(kind, within) PROVE BlockType(b, kind)
  <2>1. b.kind = kind /\ b.set \in SetType(kind) /\ b.errorPages \in Seq(ErrorPageWords)
    BY BlockFields
  <2>2. DOMAIN b.set \subseteq Directives[kind]
    BY <2>1, SetTypeIs
  <2>3. \A k \in DOMAIN b.errorPages : b.errorPages[k] \in ErrorPageWords
    BY <2>1
  <2>4. \A k \in DOMAIN b.errorPages : NamesErrorPage(b.errorPages[k])
    BY <2>3 DEF ErrorPageWords
  <2> QED
    BY <2>1, <2>2, <2>4 DEF BlockType
<1>2. IsStack(contexts) /\ Len(contexts) <= 3 /\ Len(contexts) \in Nat /\ DOMAIN contexts = 1..Len(contexts)
  BY LenProperties DEF SyntaxInv, IsStack
<1>3. ASSUME NEW k \in DOMAIN contexts
      PROVE  BlockType(contexts[k], <<"http", "server", "location">>[k])
  <2>1. k \in 1..3
    BY <1>2
  <2>2. contexts[k] \in Level(k)
    BY <1>2 DEF IsStack
  <2> QED
    BY <1>1, <2>1, <2>2, LevelIs
<1>4. httpContext \in HttpBlocks => BlockType(httpContext, "http")
  BY <1>1 DEF HttpBlocks
<1> QED
  BY <1>2, <1>3, <1>4 DEF ParserTypeOK, SyntaxInv

\* An error_page directive maps status codes to a page.
LEMMA DirectivesOfWords ==
    ASSUME NEW words \in ErrorPageWords
    PROVE  ErrorPageDirective(words) \in ErrorPageMap
<1> DEFINE C == {words[k] : k \in 1..(Len(words) - 1)}
<1>1. words \in Seq(Words) /\ NamesErrorPage(words)
  BY DEF ErrorPageWords
<1>2. C \subseteq Codes
  BY <1>1, StartupAssumption DEF NamesErrorPage
<1>3. words[Len(words)] \in Pages
  <2>1. Len(words) \in Nat /\ Len(words) >= 2
    BY <1>1 DEF NamesErrorPage
  <2>2. Len(words) \in 1..Len(words)
    BY <2>1
  <2>3. words[Len(words)] \in Words
    BY <1>1, <2>2, ElementOfSeq
  <2> QED
    BY <2>3 DEF Words
<1> HIDE DEF C
<1>4. [code \in C |-> words[Len(words)]] \in [C -> Pages]
  BY <1>3
<1> QED
  BY <1>2, <1>4 DEF ErrorPageDirective, ErrorPageMap, C

\* The error pages of a block.
LEMMA ErrorPagesAre ==
    ASSUME NEW b, b.errorPages \in Seq(ErrorPageWords)
    PROVE  ErrorPagesOf(b) \in Seq(ErrorPageMap)
<1> DEFINE n == Len(b.errorPages)
<1>1. n \in Nat /\ DOMAIN b.errorPages = 1..n /\ \A k \in 1..n : b.errorPages[k] \in ErrorPageWords
  BY LenProperties, ElementOfSeq
<1>2. \A k \in 1..n : ErrorPageDirective(b.errorPages[k]) \in ErrorPageMap
  BY <1>1, DirectivesOfWords
<1> HIDE DEF n
<1>3. [k \in 1..n |-> ErrorPageDirective(b.errorPages[k])] \in [1..n -> ErrorPageMap]
  BY <1>2
<1>4. ErrorPagesOf(b) \in [1..n -> ErrorPageMap]
  BY <1>1, <1>3 DEF ErrorPagesOf
<1> QED
  BY <1>1, <1>4, SeqDef

\* The directives of a block.
LEMMA SingleIs ==
    ASSUME NEW b, NEW kind, b.set \in SetType(kind), NEW directives
    PROVE  Single(b, directives) \in SingleType(directives)
<1>1. ASSUME NEW d \in directives PROVE ValueOf(b, d) \in Values \cup {None}
  <2>1. CASE d \in DOMAIN b.set
    <3>1. b.set[d] \in Seq(Values) /\ b.set[d] # <<>>
      BY <2>1, SetTypeIs DEF Arguments1
    <3>2. b.set[d][1] \in Values
      <4>1. 1 \in 1..Len(b.set[d])
        <5>1. Len(b.set[d]) \in Nat \ {0}
          BY <3>1, EmptySeq
        <5> QED
          BY <5>1
      <4> QED
        BY <3>1, <4>1, ElementOfSeq
    <3>3. parseBoolean(b.set[d][1]) \in Values
      BY StartupAssumption DEF parseBoolean
    <3> QED
      BY <2>1, <3>2, <3>3 DEF ValueOf
  <2>2. CASE d \notin DOMAIN b.set
    BY <2>2 DEF ValueOf
  <2> QED
    BY <2>1, <2>2
<1> QED
  BY <1>1 DEF Single, SingleType

\* What the parser leaves in the ConfigDTO for a location, ...
LEMMA LocationIs == ASSUME NEW b \in LocationBlocks PROVE LocationDTO(b) \in LocationType
<1>1. b.set \in SetType("location") /\ b.errorPages \in Seq(ErrorPageWords)
  BY BlockFields DEF LocationBlocks
<1>2. Single(b, ServerDirectives) \in SingleType(ServerDirectives)
  BY <1>1, SingleIs
<1>3. ErrorPagesOf(b) \in Seq(ErrorPageMap)
  BY <1>1, ErrorPagesAre
<1> QED
  BY <1>2, <1>3 DEF LocationDTO, LocationType

\* ... for a server, ...
LEMMA ServerIs == ASSUME NEW b \in ServerBlocks PROVE ServerDTO(b) \in ServerType
<1>1. b.set \in SetType("server") /\ b.errorPages \in Seq(ErrorPageWords) /\ b.inside \in Seq(LocationBlocks)
  BY BlockFields DEF ServerBlocks
<1>2. Single(b, ServerDirectives) \in SingleType(ServerDirectives)
  BY <1>1, SingleIs
<1>3. ErrorPagesOf(b) \in Seq(ErrorPageMap)
  BY <1>1, ErrorPagesAre
<1> DEFINE n == Len(b.inside)
           locations == [k \in DOMAIN b.inside |-> LocationDTO(b.inside[k])]
<1>4. locations \in Seq(LocationType)
  <2>1. n \in Nat /\ DOMAIN b.inside = 1..n /\ \A k \in 1..n : b.inside[k] \in LocationBlocks
    BY <1>1, LenProperties, ElementOfSeq
  <2>2. \A k \in 1..n : LocationDTO(b.inside[k]) \in LocationType
    BY <2>1, LocationIs
  <2> HIDE DEF n
  <2>3. [k \in 1..n |-> LocationDTO(b.inside[k])] \in [1..n -> LocationType]
    BY <2>2
  <2>4. locations \in [1..n -> LocationType]
    BY <2>1, <2>3
  <2> QED
    BY <2>1, <2>4, SeqDef
<1> HIDE DEF locations
<1> QED
  BY <1>2, <1>3, <1>4 DEF ServerDTO, ServerType, locations

\* ... and for the whole file: one of those the cascade is proved for.
LEMMA HttpIs == ASSUME NEW b \in HttpBlocks PROVE HttpDTO(b) \in HttpType
<1>1. b.set \in SetType("http") /\ b.errorPages \in Seq(ErrorPageWords) /\ b.inside \in Seq(ClosedServers)
  BY BlockFields DEF HttpBlocks
<1>2. Single(b, HttpDirectives) \in SingleType(HttpDirectives)
  BY <1>1, SingleIs
<1>3. ErrorPagesOf(b) \in Seq(ErrorPageMap)
  BY <1>1, ErrorPagesAre
<1> DEFINE n == Len(b.inside)
           servers == [k \in DOMAIN b.inside |-> ServerDTO(b.inside[k])]
<1>4. servers \in Seq(ServerType)
  <2>1. n \in Nat /\ DOMAIN b.inside = 1..n /\ \A k \in 1..n : b.inside[k] \in ClosedServers
    BY <1>1, LenProperties, ElementOfSeq
  <2>2. \A k \in 1..n : ServerDTO(b.inside[k]) \in ServerType
    BY <2>1, ServerIs DEF ClosedServers
  <2> HIDE DEF n
  <2>3. [k \in 1..n |-> ServerDTO(b.inside[k])] \in [1..n -> ServerType]
    BY <2>2
  <2>4. servers \in [1..n -> ServerType]
    BY <2>1, <2>3
  <2> QED
    BY <2>1, <2>4, SeqDef
<1> HIDE DEF servers
<1> QED
  BY <1>2, <1>3, <1>4 DEF HttpDTO, HttpType, servers

Stages == {"parse", "cascade", "apply", "failed", "ended", "running"}

\* Every listening socket is in both tables and in the epoll set.
TablesInv ==
    /\ _server_fds \in Seq(Nat) /\ \A k \in DOMAIN _server_fds : _server_fds[k] = k - 1
    /\ DOMAIN sockets = 0..(Len(_server_fds) - 1)
    /\ interest = DOMAIN sockets /\ DOMAIN _server_ports = DOMAIN sockets

\* What applyConfig has to have a socket for, up to a server block.
ToListen(n) == {s \in 1..(n - 1) : ListenOf(s).port # 0}

Listens(s) ==
    \E fd \in DOMAIN sockets :
        sockets[fd] = Endpoint(ListenOf(s)) /\ _server_ports[fd] = ListenOf(s).port

ListenInv ==
    /\ httpContext \in HttpBlocks
    /\ server \in 1..(Len(serverContexts) + 1)
    /\ Len(_server_fds) = Cardinality(ToListen(server))
    /\ \A s \in ToListen(server) : Listens(s)

StartupInv ==
    /\ stage \in Stages /\ server \in Nat \ {0} /\ TablesInv
    /\ stage = "parse" => pc = "servers" /\ i = 1 /\ j = 1
    /\ stage = "parse" => server = 1 /\ _server_fds = <<>>
    /\ stage \in {"cascade", "apply", "running"} => ListenInv
    /\ stage = "running" => server = Len(serverContexts) + 1

\* A process has no sockets to begin with.
LEMMA StartupInitInv == StartupInit => StartupInv
<1> SUFFICES ASSUME StartupInit PROVE StartupInv
  OBVIOUS
<1>1. <<>> \in Seq(Nat) /\ Len(<<>>) = 0
  BY EmptySeq
<1>2. 0..(0 - 1) = {}
  BY SMT
<1>3. TablesInv
  BY <1>1, <1>2 DEF TablesInv, StartupInit
<1> QED
  BY <1>3 DEF StartupInv, StartupInit, Init, Stages

\* A configuration that was just made.
Untouched ==
    originalConfig \in HttpType /\ config = originalConfig /\ pc = "servers" /\ i = 1 /\ j = 1

\* The state after a step has what any such state has.
LEMMA UntouchedNext == Untouched' => TypeOK' /\ CascadeInv'
<1>1. Untouched => TypeOK /\ CascadeInv
  BY UntouchedInv DEF Untouched
<1> QED
  BY <1>1, PTL

\* The parser has returned: applyConfig is to begin with the first server block.
LEMMA CallApplyCascadeInv ==
    ASSUME StartupInv, SyntaxInv, CallApplyCascade
    PROVE  StartupInv' /\ TypeOK' /\ CascadeInv'
<1>1. httpContext \in HttpBlocks
  BY DEF SyntaxInv, CallApplyCascade
<1>2. TypeOK' /\ CascadeInv'
  <2>1. originalConfig' \in HttpType /\ config' = originalConfig'
    BY <1>1, HttpIs DEF CallApplyCascade
  <2>2. pc' = "servers" /\ i' = 1 /\ j' = 1
    BY DEF CallApplyCascade, StartupInv
  <2>3. Untouched'
    BY <2>1, <2>2 DEF Untouched
  <2> QED
    BY <2>3, UntouchedNext
<1>3. ListenInv'
  <2>1. httpContext.inside \in Seq(ClosedServers)
    BY <1>1, BlockFields DEF HttpBlocks
  <2>2. Len(serverContexts) \in Nat
    BY <2>1, LenProperties DEF serverContexts
  <2>3. server = 1 /\ Len(_server_fds) = 0
    BY EmptySeq DEF StartupInv, CallApplyCascade
  <2>4. ToListen(1) = {}
    BY DEF ToListen
  <2>5. ListenInv
    <3>1. server \in 1..(Len(serverContexts) + 1)
      BY <2>2, <2>3
    <3>2. ToListen(server) = {} /\ Cardinality(ToListen(server)) = 0
      BY <2>3, <2>4, FS_EmptySet
    <3> QED
      BY <1>1, <2>3, <3>1, <3>2 DEF ListenInv
  <2> QED
    BY <2>5 DEF CallApplyCascade, serverVars, parserVars, ListenInv, serverContexts, ToListen,
                Listens, ListenOf
<1> QED
  BY <1>2, <1>3 DEF StartupInv, CallApplyCascade, serverVars, parserVars, vars, TablesInv, Stages

\* The lowest number that is free is that of the next socket.
LEMMA NewSocketIs == TablesInv => Len(_server_fds) \in Nat /\ NewSocket = Len(_server_fds)
<1> SUFFICES ASSUME TablesInv PROVE Len(_server_fds) \in Nat /\ NewSocket = Len(_server_fds)
  OBVIOUS
<1> DEFINE n == Len(_server_fds)
<1>1. n \in Nat /\ DOMAIN sockets = 0..(n - 1)
  BY LenProperties DEF TablesInv
<1> HIDE DEF n
<1>2. (0..n) \ DOMAIN sockets = {n}
  BY <1>1
<1>3. 0..(n - 1) \subseteq DOMAIN sockets
  BY <1>1
<1>4. NewSocket = CHOOSE fd \in {n} : 0..(fd - 1) \subseteq DOMAIN sockets
  BY <1>2 DEF NewSocket, n
<1>5. NewSocket \in {n}
  BY <1>3, <1>4
<1> QED
  BY <1>1, <1>5 DEF n

\* The blocks that need a socket are finitely many, and one more at most each time.
LEMMA ToListenNext ==
    ASSUME NEW n \in Nat \ {0}
    PROVE  /\ Skipped(n) => ToListen(n + 1) = ToListen(n)
           /\ ~Skipped(n) => /\ ToListen(n + 1) = ToListen(n) \cup {n}
                             /\ Cardinality(ToListen(n + 1)) = Cardinality(ToListen(n)) + 1
<1>1. 1..((n + 1) - 1) = 1..(n - 1) \cup {n} /\ n \notin 1..(n - 1)
  OBVIOUS
<1>2. Skipped(n) => ToListen(n + 1) = ToListen(n)
  BY <1>1 DEF Skipped, ToListen
<1>3. ASSUME ~Skipped(n) PROVE ToListen(n + 1) = ToListen(n) \cup {n}
  BY <1>1, <1>3 DEF Skipped, ToListen
<1>4. n \notin ToListen(n) /\ IsFiniteSet(ToListen(n))
  <2>1. ToListen(n) \in SUBSET (1..(n - 1)) /\ n \notin 1..(n - 1)
    BY <1>1 DEF ToListen
  <2>2. IsFiniteSet(1..(n - 1))
    BY FS_Interval
  <2> QED
    BY <2>1, <2>2, FS_Subset
<1> QED
  BY <1>2, <1>3, <1>4, FS_AddElement

\* A block whose port is 0 is passed over.
LEMMA SkipServerInv == StartupInv /\ SkipServer => StartupInv'
<1> SUFFICES ASSUME StartupInv, SkipServer PROVE StartupInv'
  OBVIOUS
<1>1. /\ stage = "apply" /\ server \in Nat \ {0} /\ ListenInv /\ server <= Len(serverContexts)
      /\ Skipped(server) /\ server' = server + 1 /\ UNCHANGED <<vars, parserVars, stage, serverVars>>
  BY DEF StartupInv, SkipServer, Applying
<1>2. httpContext' = httpContext /\ UNCHANGED serverVars
  BY <1>1 DEF parserVars
<1>3. ToListen(server)' = ToListen(server)
  <2>1. ToListen(server + 1) = ToListen(server)
    BY <1>1, ToListenNext
  <2>2. ToListen(server)' = ToListen(server + 1)
    BY <1>1, <1>2 DEF ToListen, ListenOf, serverContexts
  <2> QED
    BY <2>1, <2>2
<1>4. \A s : Listens(s)' = Listens(s)
  BY <1>2 DEF Listens, ListenOf, serverContexts, serverVars
<1>5. server' \in 1..(Len(serverContexts') + 1)
  <2>1. Len(serverContexts) \in Nat
    <3>1. httpContext.inside \in Seq(ClosedServers)
      BY <1>1, BlockFields DEF HttpBlocks, ListenInv
    <3> QED
      BY <3>1, LenProperties DEF serverContexts
  <2>2. serverContexts' = serverContexts
    BY <1>2 DEF serverContexts
  <2> QED
    BY <1>1, <2>1, <2>2
<1>6. ListenInv'
  BY <1>1, <1>2, <1>3, <1>4, <1>5 DEF ListenInv, serverVars
<1>7. TablesInv'
  BY <1>2 DEF StartupInv, TablesInv, serverVars
<1> QED
  BY <1>1, <1>6, <1>7 DEF StartupInv

\* A block that is not gets a socket, which is in both tables.
LEMMA AddListenPortTables == StartupInv /\ addListenPort => TablesInv'
<1> SUFFICES ASSUME StartupInv, addListenPort PROVE TablesInv'
  OBVIOUS
<1> DEFINE n == Len(_server_fds)
<1>0. TablesInv
  BY DEF StartupInv
<1>1. n \in Nat /\ NewSocket = n /\ _server_fds \in Seq(Nat) /\ DOMAIN _server_fds = 1..n
  BY <1>0, NewSocketIs, LenProperties DEF TablesInv
<1>2. /\ DOMAIN sockets' = DOMAIN sockets \cup {NewSocket}
      /\ interest' = interest \cup {NewSocket}
      /\ DOMAIN _server_ports' = DOMAIN _server_ports \cup {NewSocket}
      /\ _server_fds' = Append(_server_fds, NewSocket)
  BY DEF addListenPort
<1>3. /\ Append(_server_fds, n) \in Seq(Nat) /\ Len(Append(_server_fds, n)) = n + 1
      /\ \A k \in 1..n : Append(_server_fds, n)[k] = _server_fds[k]
      /\ Append(_server_fds, n)[n + 1] = n
  BY <1>1, AppendProperties
<1> DEFINE new == Append(_server_fds, n)
<1>4. DOMAIN new = 1..(n + 1)
  BY <1>3, LenProperties
<1> HIDE DEF n, new
<1>5. _server_fds' = new /\ Len(new) = n + 1 /\ new \in Seq(Nat)
  BY <1>1, <1>2, <1>3 DEF new
<1>6. \A k \in DOMAIN new : new[k] = k - 1
  <2>1. \A k \in 1..n : new[k] = k - 1
    BY <1>0, <1>1, <1>3 DEF TablesInv, new
  <2>2. new[n + 1] = (n + 1) - 1
    BY <1>1, <1>3 DEF new
  <2>3. 1..(n + 1) = 1..n \cup {n + 1}
    BY <1>1
  <2> QED
    BY <1>4, <2>1, <2>2, <2>3
<1>7. DOMAIN sockets' = 0..(Len(new) - 1)
  <2>1. DOMAIN sockets = 0..(n - 1)
    BY <1>0 DEF TablesInv, n
  <2>2. 0..(n + 1 - 1) = 0..(n - 1) \cup {n}
    BY <1>1
  <2> QED
    BY <1>1, <1>2, <1>5, <2>1, <2>2
<1> QED
  BY <1>0, <1>2, <1>5, <1>6, <1>7 DEF TablesInv

\* And the block listens there; those before it still listen where they did.
LEMMA AddListenPortInv == StartupInv /\ addListenPort => StartupInv'
<1> SUFFICES ASSUME StartupInv, addListenPort PROVE StartupInv'
  OBVIOUS
<1>1. /\ stage = "apply" /\ server \in Nat \ {0} /\ ListenInv /\ server <= Len(serverContexts)
      /\ ~Skipped(server) /\ TablesInv
  BY DEF StartupInv, addListenPort, Applying
<1>2. /\ httpContext' = httpContext /\ server' = server + 1 /\ stage' = "apply"
      /\ serverContexts' = serverContexts
  BY <1>1 DEF addListenPort, parserVars, serverContexts
<1> DEFINE fd == NewSocket
           endpoint == Endpoint(ListenOf(server))
           port == ListenOf(server).port
<1>3. fd \notin DOMAIN sockets
  <2>1. fd = Len(_server_fds) /\ Len(_server_fds) \in Nat /\ DOMAIN sockets = 0..(Len(_server_fds) - 1)
    BY <1>1, NewSocketIs DEF TablesInv
  <2> QED
    BY <2>1
<1>4. /\ sockets' = [x \in DOMAIN sockets \cup {fd} |-> IF x = fd THEN endpoint ELSE sockets[x]]
      /\ _server_ports' = [x \in DOMAIN _server_ports \cup {fd} |->
                             IF x = fd THEN port ELSE _server_ports[x]]
      /\ _server_fds' = Append(_server_fds, fd)
  BY DEF addListenPort
<1>5. DOMAIN _server_ports = DOMAIN sockets
  BY <1>1 DEF TablesInv
<1> HIDE DEF fd
<1>6. /\ ToListen(server)' = ToListen(server) \cup {server}
      /\ Cardinality(ToListen(server)') = Cardinality(ToListen(server)) + 1
  <2>1. /\ ToListen(server + 1) = ToListen(server) \cup {server}
        /\ Cardinality(ToListen(server + 1)) = Cardinality(ToListen(server)) + 1
    BY <1>1, ToListenNext
  <2>2. ToListen(server)' = ToListen(server + 1)
    BY <1>2 DEF ToListen, ListenOf
  <2> QED
    BY <2>1, <2>2
<1>7. ASSUME NEW s \in ToListen(server) PROVE Listens(s)'
  <2>1. PICK x \in DOMAIN sockets :
          sockets[x] = Endpoint(ListenOf(s)) /\ _server_ports[x] = ListenOf(s).port
    BY <1>1 DEF ListenInv, Listens
  <2>2. x \in DOMAIN sockets' /\ sockets'[x] = sockets[x] /\ _server_ports'[x] = _server_ports[x]
    BY <1>3, <1>4, <1>5
  <2>3. ListenOf(s)' = ListenOf(s)
    BY <1>2 DEF ListenOf
  <2> QED
    BY <2>1, <2>2, <2>3 DEF Listens, Endpoint, HostOf
<1>8. ASSUME NEW s, s = server PROVE Listens(s)'
  <2>1. fd \in DOMAIN sockets' /\ sockets'[fd] = Endpoint(ListenOf(s)) /\ _server_ports'[fd] = ListenOf(s).port
    BY <1>4, <1>5, <1>8
  <2>2. ListenOf(s)' = ListenOf(s)
    BY <1>2 DEF ListenOf
  <2> QED
    BY <2>1, <2>2 DEF Listens, Endpoint, HostOf
<1>9. ListenInv'
  <2>1. server' \in 1..(Len(serverContexts') + 1)
    <3>1. httpContext.inside \in Seq(ClosedServers)
      BY <1>1, BlockFields DEF HttpBlocks, ListenInv
    <3>2. Len(serverContexts) \in Nat
      BY <3>1, LenProperties DEF serverContexts
    <3> QED
      BY <1>1, <1>2, <3>2
  <2>2. Len(_server_fds') = Cardinality(ToListen(server)')
    <3>1. _server_fds \in Seq(Nat) /\ fd \in Nat
      BY <1>1, NewSocketIs DEF TablesInv, fd
    <3>2. Len(_server_fds') = Len(_server_fds) + 1
      BY <1>4, <3>1, AppendProperties
    <3> QED
      BY <1>1, <1>6, <3>2 DEF ListenInv
  <2>3. \A s \in ToListen(server)' : Listens(s)'
    BY <1>6, <1>7, <1>8
  <2> QED
    BY <1>1, <1>2, <2>1, <2>2, <2>3 DEF ListenInv
<1> QED
  BY <1>1, <1>2, <1>9, AddListenPortTables DEF StartupInv, Stages

\* main, step by step.
LEMMA StartupStep ==
    TypeOK /\ CascadeInv /\ SyntaxInv /\ StartupInv /\ [StartupNext]_startupVars
      => (TypeOK /\ CascadeInv /\ SyntaxInv /\ StartupInv)'
<1> SUFFICES ASSUME TypeOK, CascadeInv, SyntaxInv, StartupInv, [StartupNext]_startupVars
             PROVE  TypeOK' /\ CascadeInv' /\ SyntaxInv' /\ StartupInv'
  OBVIOUS
<1>1. UNCHANGED vars => TypeOK' /\ CascadeInv'
  BY CascadeStep
<1>2. UNCHANGED parserVars => SyntaxInv'
  BY SyntaxStep
<1>3. ASSUME UNCHANGED <<httpContext, server, serverVars>> PROVE TablesInv' /\ (ListenInv => ListenInv')
  BY <1>3 DEF serverVars, StartupInv, TablesInv, ListenInv, ToListen, Listens, ListenOf, serverContexts
<1>4. CASE Parsing
  <2>1. SyntaxInv' /\ TypeOK' /\ CascadeInv'
    BY <1>1, <1>4, SyntaxStep DEF Parsing
  <2>2. TablesInv'
    BY <1>4 DEF Parsing, serverVars, StartupInv, TablesInv
  <2> QED
    BY <1>4, <2>1, <2>2 DEF Parsing, serverVars, vars, StartupInv
<1>5. CASE ParseFails
  BY <1>1, <1>2, <1>3, <1>5 DEF ParseFails, parserVars, vars, serverVars, StartupInv, Stages
<1>6. CASE CallApplyCascade
  BY <1>2, <1>6, CallApplyCascadeInv DEF CallApplyCascade
<1>7. CASE Cascading
  <2>1. TypeOK' /\ CascadeInv'
    BY <1>7, CascadeStep DEF Cascading
  <2>2. SyntaxInv' /\ TablesInv' /\ (ListenInv => ListenInv')
    BY <1>2, <1>3, <1>7 DEF Cascading, parserVars
  <2> QED
    BY <1>7, <2>1, <2>2 DEF Cascading, StartupInv
<1>8. CASE InitServer
  BY <1>1, <1>2, <1>3, <1>8 DEF InitServer, parserVars, vars, serverVars, StartupInv, Stages
<1>9. CASE SkipServer
  BY <1>1, <1>2, <1>9, SkipServerInv DEF SkipServer
<1>10. CASE addListenPort
  BY <1>1, <1>2, <1>10, AddListenPortInv DEF addListenPort
<1>11. CASE ListenFails
  BY <1>1, <1>2, <1>3, <1>11 DEF ListenFails, parserVars, vars, serverVars, StartupInv, Stages
<1>12. CASE Run
  <2>1. stage = "apply" /\ server > Len(serverContexts) /\ ListenInv
    BY <1>12 DEF Run, StartupInv
  <2>2. server = Len(serverContexts) + 1
    <3>1. httpContext.inside \in Seq(ClosedServers)
      BY <2>1, BlockFields DEF HttpBlocks, ListenInv
    <3>2. Len(serverContexts) \in Nat
      BY <3>1, LenProperties DEF serverContexts
    <3> QED
      BY <2>1, <3>2 DEF ListenInv
  <2>3. UNCHANGED <<httpContext, server, serverVars>> /\ serverContexts' = serverContexts
    BY <1>12 DEF Run, parserVars, serverContexts
  <2>4. ListenInv' /\ TablesInv' /\ stage' \in {"ended", "running"} /\ server' = Len(serverContexts') + 1
    BY <1>3, <1>12, <2>1, <2>2, <2>3 DEF Run
  <2>5. StartupInv'
    BY <2>3, <2>4 DEF StartupInv, Stages
  <2> QED
    BY <1>1, <1>2, <1>12, <2>5 DEF Run
<1>13. CASE UNCHANGED startupVars
  <2>1. UNCHANGED <<vars, parserVars, stage, server, serverVars>>
    BY <1>13 DEF startupVars
  <2>2. UNCHANGED <<stage, server, httpContext, serverVars, pc, i, j, _server_fds>>
    BY <2>1 DEF vars, parserVars, serverVars
  <2>3. TypeOK' /\ CascadeInv' /\ SyntaxInv' /\ TablesInv' /\ (ListenInv => ListenInv')
    BY <1>1, <1>2, <1>3, <2>1, <2>2
  <2>4. StartupInv'
    BY <2>2, <2>3 DEF StartupInv, serverContexts
  <2> QED
    BY <2>3, <2>4
<1> QED
  BY <1>4, <1>5, <1>6, <1>7, <1>8, <1>9, <1>10, <1>11, <1>12, <1>13 DEF StartupNext, Ended

\* The invariant of a program that starts.
LEMMA StartupInvCorrect == StartupSpec => [](TypeOK /\ CascadeInv /\ SyntaxInv /\ StartupInv)
<1>1. StartupInit => TypeOK /\ CascadeInv /\ SyntaxInv /\ StartupInv
  BY CascadeInit, ParserInitInv, StartupInitInv DEF StartupInit
<1> QED
  BY <1>1, StartupStep, PTL DEF StartupSpec

\* ConfParser, ConfCascader and Server keep the shape of their state: the blocks
\* being parsed are nested as they may be, what the cascade works on is a
\* configuration, and both of Server's tables and the epoll set have the same
\* sockets, all of them open, whatever the files are.
THEOREM StartupTypeCorrect == StartupSpec => []StartupTypeOK
<1>1. TypeOK /\ SyntaxInv /\ StartupInv => StartupTypeOK
  <2> SUFFICES ASSUME TypeOK, SyntaxInv, StartupInv PROVE StartupTypeOK
    OBVIOUS
  <2>1. {_server_fds[k] : k \in DOMAIN _server_fds} = DOMAIN sockets
    <3> DEFINE n == Len(_server_fds)
    <3>1. n \in Nat /\ DOMAIN _server_fds = 1..n /\ DOMAIN sockets = 0..(n - 1)
      BY LenProperties DEF StartupInv, TablesInv
    <3>2. \A k \in DOMAIN _server_fds : _server_fds[k] = k - 1
      BY DEF StartupInv, TablesInv
    <3> HIDE DEF n
    <3>3. ASSUME NEW fd \in DOMAIN sockets PROVE \E k \in DOMAIN _server_fds : fd = _server_fds[k]
      <4>1. fd + 1 \in DOMAIN _server_fds /\ _server_fds[fd + 1] = fd
        BY <3>1, <3>2
      <4> QED
        BY <4>1
    <3> QED
      BY <3>1, <3>2, <3>3
  <2> QED
    BY <2>1, SyntaxIsTyped DEF StartupTypeOK, StartupInv, TablesInv, Stages
<1> QED
  BY <1>1, StartupInvCorrect, PTL

\* ConfApplicator and Server: when the event loop runs, every server block whose
\* port is not 0 has a socket of its own, bound to its address and port, and no
\* other socket is open, whatever the file.
THEOREM ListensCorrect == StartupSpec => []ListensWhereConfigured
<1>1. StartupInv => ListensWhereConfigured
  <2> SUFFICES ASSUME StartupInv, stage = "running"
               PROVE  LET listening == {s \in DOMAIN serverContexts : ListenOf(s).port # 0}
                      IN  /\ Cardinality(DOMAIN sockets) = Cardinality(listening)
                          /\ \A s \in listening : \E fd \in interest :
                               /\ sockets[fd] = Endpoint(ListenOf(s))
                               /\ _server_ports[fd] = ListenOf(s).port
    BY DEF ListensWhereConfigured
  <2>1. ListenInv /\ TablesInv /\ server = Len(serverContexts) + 1
    BY DEF StartupInv
  <2>2. Len(serverContexts) \in Nat /\ DOMAIN serverContexts = 1..Len(serverContexts)
    <3>1. httpContext.inside \in Seq(ClosedServers)
      BY <2>1, BlockFields DEF HttpBlocks, ListenInv
    <3> QED
      BY <3>1, LenProperties DEF serverContexts
  <2>3. {s \in DOMAIN serverContexts : ListenOf(s).port # 0} = ToListen(server)
    <3>1. 1..(server - 1) = DOMAIN serverContexts
      BY <2>1, <2>2
    <3> QED
      BY <3>1 DEF ToListen
  <2>4. Cardinality(DOMAIN sockets) = Len(_server_fds)
    <3> DEFINE n == Len(_server_fds)
    <3>1. n \in Nat /\ DOMAIN sockets = 0..(n - 1)
      BY <2>1, LenProperties DEF TablesInv
    <3> HIDE DEF n
    <3>2. Cardinality(0..(n - 1)) = IF 0 > n - 1 THEN 0 ELSE n - 1 - 0 + 1
      <4>1. 0 \in Int /\ n - 1 \in Int
        BY <3>1
      <4> QED
        BY <4>1, FS_Interval
    <3>3. Cardinality(0..(n - 1)) = n
      BY <3>1, <3>2
    <3> QED
      BY <3>1, <3>3 DEF n
  <2> QED
    BY <2>1, <2>3, <2>4 DEF ListenInv, Listens, TablesInv
<1> QED
  BY <1>1, StartupInvCorrect, PTL

\* The cascade's properties of a configuration that came from a file.
THEOREM FileInnermostCorrect == StartupSpec => []InnermostWins
BY StartupInvCorrect, InnermostHolds, PTL

\* The same of its error pages.
THEOREM FilePageCorrect == StartupSpec => []PageIsOfInnermost
BY StartupInvCorrect, PageHolds, PTL
-----------------------------------------------------------------------------
(***************************************************************************)
(* Texts made of parts, from each part on.                                 *)
(***************************************************************************)
RowFrom(from, parts, S, n) ==
    /\ from \in [1..(n + 1) -> Seq(S)] /\ from[n + 1] = <<>>
    /\ \A k \in 1..n : from[k] = parts[k] \o from[k + 1]

\* Texts that may be put one after the other.
AreTexts(T) ==
    /\ <<>> \in T /\ \A x, y \in T : x \o y \in T
    /\ \A x \in T : x \o <<>> = x /\ <<>> \o x = x
    /\ \A x, y, z \in T : (x \o y) \o z = x \o (y \o z)

\* Sequences are.
LEMMA SequencesAreTexts == ASSUME NEW S PROVE AreTexts(Seq(S))
<1>1. ASSUME NEW s \in Seq(S), NEW t \in Seq(S), NEW u \in Seq(S)
      PROVE  (s \o t) \o u = s \o (t \o u)
  BY ONLY s \in Seq(S), t \in Seq(S), u \in Seq(S), ConcatAssociative
<1>2. \A x, y \in Seq(S) : x \o y \in Seq(S)
  BY ConcatProperties
<1>3. \A x \in Seq(S) : x \o <<>> = x /\ <<>> \o x = x
  BY ConcatEmptySeq
<1> QED
  BY <1>1, <1>2, <1>3, EmptySeq DEF AreTexts

\* There is no number from 1 to 0.
LEMMA NoNumbers == 1..0 = {}
OBVIOUS

\* One word is a text.
LEMMA OneWord == ASSUME NEW S, NEW x \in S PROVE <<x>> \in Seq(S) /\ Len(<<x>>) = 1 /\ <<x>>[1] = x
OBVIOUS

\* There is such a function.
LEMMA RowExists ==
    ASSUME NEW S, NEW n \in Nat, NEW parts \in [1..n -> Seq(S)]
    PROVE  \E from : RowFrom(from, parts, S, n)
<1> DEFINE T == Seq(S)
           step == [p \in (1..n) \X T |-> parts[p[1]] \o p[2]]
           last == <<>>
<1>1. \A x \in T, y \in T : x \o y \in T
  BY ConcatProperties
<1>2. parts \in [1..n -> T] /\ last \in T
  BY EmptySeq
<1> HIDE DEF T, last
<1>3. IsStep(step, T, n)
  BY <1>1, <1>2 DEF IsStep
<1>4. PICK f : RecursiveDown(f, T, last, n, step)
  BY <1>2, <1>3, BackwardFunction
<1>5. /\ f \in [1..(n + 1) -> T] /\ f[n + 1] = last
      /\ \A k \in 1..n : f[k] = step[<<k, f[k + 1]>>]
  BY <1>4 DEF RecursiveDown
<1>6. \A k \in 1..n : k + 1 \in 1..(n + 1)
  OBVIOUS
<1>7. \A k \in 1..n : f[k + 1] \in T
  BY <1>5, <1>6
<1>8. \A k \in 1..n : f[k] = parts[k] \o f[k + 1]
  BY <1>5, <1>7
<1> QED
  BY <1>5, <1>8 DEF RowFrom, T, last

\* The parts put together are what there is from the first on.
LEMMA FlattenedRow ==
    ASSUME NEW S, NEW n \in Nat, NEW parts \in [1..n -> Seq(S)]
    PROVE  \E from : RowFrom(from, parts, S, n) /\ Flattened(parts) = from[1]
<1> DEFINE last == <<>>
           Is(f, m) == f = [k \in 1..(m + 1) |-> IF k > m THEN last ELSE parts[k] \o f[k + 1]]
           from == CHOOSE f : Is(f, Len(parts))
           T == {k \in 1..(n + 1) : from[k] \in Seq(S)}
<1>1. Len(parts) = n
  OBVIOUS
<1>2. Flattened(parts) = from[1]
  BY DEF Flattened
<1> HIDE DEF last
<1>3. /\ \A k \in 1..n : k \in 1..(n + 1) /\ ~(k > n)
      /\ n + 1 \in 1..(n + 1) /\ n + 1 > n
      /\ \A k \in 1..(n + 1) : k \in 1..n \/ (k = n + 1 /\ k > n)
  OBVIOUS
<1>4. PICK f : RowFrom(f, parts, S, n)
  BY RowExists
<1>5. Is(f, n)
  <2>1. f \in [1..(n + 1) -> Seq(S)] /\ f[n + 1] = last
        /\ \A k \in 1..n : f[k] = parts[k] \o f[k + 1]
    BY <1>4 DEF RowFrom, last
  <2>2. \A k \in 1..(n + 1) : f[k] = IF k > n THEN last ELSE parts[k] \o f[k + 1]
    BY <1>3, <2>1
  <2> QED
    BY <2>1, <2>2
<1>6. Is(from, n)
  BY <1>1, <1>5
<1> HIDE DEF from
<1>7. from[n + 1] = last /\ \A k \in 1..n : from[k] = parts[k] \o from[k + 1]
  BY <1>3, <1>6
<1>8. from = [k \in 1..(n + 1) |-> from[k]]
  BY <1>6
<1>9. n + 1 \in T
  BY <1>3, <1>7, EmptySeq DEF last
<1>10. ASSUME NEW k \in 1..n, k + 1 \in T PROVE k \in T
  <2>1. parts[k] \in Seq(S) /\ from[k + 1] \in Seq(S)
    BY <1>10
  <2>2. parts[k] \o from[k + 1] \in Seq(S)
    BY <2>1, ConcatProperties
  <2> QED
    BY <1>3, <1>7, <2>2
<1> HIDE DEF T
<1>11. 1..(n + 1) \subseteq T
  BY <1>9, <1>10, Downward
<1>12. \A k \in 1..(n + 1) : from[k] \in Seq(S)
  BY <1>11 DEF T
<1>13. RowFrom(from, parts, S, n)
  BY <1>7, <1>8, <1>12 DEF RowFrom, last
<1> QED
  BY <1>2, <1>13

\* It is a text over the same words.
LEMMA FlattenedType ==
    ASSUME NEW S, NEW n \in Nat, NEW parts \in [1..n -> Seq(S)]
    PROVE  Flattened(parts) \in Seq(S)
<1>1. PICK from : RowFrom(from, parts, S, n) /\ Flattened(parts) = from[1]
  BY FlattenedRow
<1>2. 1 \in 1..(n + 1)
  OBVIOUS
<1> QED
  BY <1>1, <1>2 DEF RowFrom

Replaced(parts, k, p) == [parts EXCEPT ![k] = p]

\* What is before and after a part that is replaced by another; nothing is before
\* the first that is not empty.
Surround(before, after, parts, k, p) ==
    /\ Flattened(parts) = before \o (parts[k] \o after)
    /\ Flattened(Replaced(parts, k, p)) = before \o (p \o after)
    /\ (\A m \in 1..(k - 1) : parts[m] = <<>>) => before = <<>>

\* It has each part, and stays the same around a part that changes.
LEMMA FlattenedAt ==
    ASSUME NEW S, NEW n \in Nat, NEW parts \in [1..n -> Seq(S)], NEW k \in 1..n, NEW p \in Seq(S)
    PROVE  \E before \in Seq(S), after \in Seq(S) : Surround(before, after, parts, k, p)
<1> DEFINE other == [parts EXCEPT ![k] = p]
<1>1. other \in [1..n -> Seq(S)] /\ other[k] = p /\ \A h \in 1..n : h # k => other[h] = parts[h]
  OBVIOUS
<1> HIDE DEF other
<1>2. PICK f : RowFrom(f, parts, S, n) /\ Flattened(parts) = f[1]
  BY FlattenedRow
<1>3. PICK g : RowFrom(g, other, S, n) /\ Flattened(other) = g[1]
  BY <1>1, FlattenedRow
<1>4. /\ f \in [1..(n + 1) -> Seq(S)] /\ f[n + 1] = <<>>
      /\ \A h \in 1..n : f[h] = parts[h] \o f[h + 1]
      /\ g \in [1..(n + 1) -> Seq(S)] /\ g[n + 1] = <<>>
      /\ \A h \in 1..n : g[h] = other[h] \o g[h + 1]
  BY <1>2, <1>3 DEF RowFrom
<1> DEFINE Same == {h \in 1..(n + 1) : h > k => f[h] = g[h]}
<1>5. n + 1 \in Same
  BY <1>4
<1>6. ASSUME NEW h \in 1..n, h + 1 \in Same PROVE h \in Same
  <2>1. CASE h > k
    <3>1. f[h + 1] = g[h + 1] /\ other[h] = parts[h]
      <4>1. h + 1 > k /\ h # k
        BY <2>1
      <4> QED
        BY <1>1, <1>6, <4>1
    <3>2. f[h] = g[h]
      BY <1>4, <3>1
    <3> QED
      BY <3>2
  <2>2. CASE ~(h > k)
    BY <2>2
  <2> QED
    BY <2>1, <2>2
<1> HIDE DEF Same
<1>7. 1..(n + 1) \subseteq Same
  BY <1>5, <1>6, Downward
<1> DEFINE after == f[k + 1]
<1>8. after \in Seq(S) /\ g[k + 1] = after
  <2>1. k + 1 \in 1..(n + 1) /\ k + 1 > k
    OBVIOUS
  <2> QED
    BY <1>4, <1>7, <2>1 DEF Same
<1> HIDE DEF after
<1> DEFINE Around(h, before) ==
             /\ f[h] = before \o (parts[k] \o after) /\ g[h] = before \o (p \o after)
             /\ (\A m \in h..(k - 1) : parts[m] = <<>>) => before = <<>>
           Has == {h \in 1..(n + 1) : h <= k => \E before \in Seq(S) : Around(h, before)}
<1>9. n + 1 \in Has
  OBVIOUS
<1>10. parts[k] \o after \in Seq(S) /\ p \o after \in Seq(S)
  BY <1>8, ConcatProperties
<1>11. ASSUME NEW h \in 1..n, h + 1 \in Has PROVE h \in Has
  <2>1. CASE h > k
    BY <2>1
  <2>2. CASE h = k
    <3>1. f[k] = parts[k] \o after /\ g[k] = p \o after
      BY <1>1, <1>4, <1>8 DEF after
    <3>2. Around(k, <<>>)
      <4>1. <<>> \o (parts[k] \o after) = parts[k] \o after /\ <<>> \o (p \o after) = p \o after
        BY <1>10, ConcatEmptySeq
      <4> QED
        BY <3>1, <4>1
    <3>3. <<>> \in Seq(S)
      BY EmptySeq
    <3> HIDE DEF Around
    <3>4. \E before \in Seq(S) : Around(h, before)
      BY <2>2, <3>2, <3>3, Zenon
    <3> QED
      BY <3>4
  <2>3. CASE h < k
    <3>1. PICK before \in Seq(S) : Around(h + 1, before)
      <4> HIDE DEF Around
      <4>1. h + 1 <= k
        BY <2>3
      <4> QED
        BY <1>11, <4>1
    <3>0. before \in Seq(S)
      BY <3>1
    <3>2. parts[h] \in Seq(S) /\ other[h] = parts[h]
      BY <1>1, <2>3
    <3> DEFINE more == parts[h] \o before
    <3>3. more \in Seq(S)
      BY <3>2, ConcatProperties
    <3>4. f[h] = more \o (parts[k] \o after) /\ g[h] = more \o (p \o after)
      <4>1. f[h] = parts[h] \o (before \o (parts[k] \o after))
        BY <1>4, <3>1
      <4>2. g[h] = parts[h] \o (before \o (p \o after))
        BY <1>4, <3>1, <3>2
      <4> HIDE DEF Around
      <4> DEFINE a == parts[h]
                 b == parts[k] \o after
                 c == p \o after
                 T == Seq(S)
      <4>0. a \in T /\ b \in T /\ c \in T /\ before \in T /\ AreTexts(T)
        BY <1>10, <3>0, <3>2, SequencesAreTexts
      <4> HIDE DEF a, b, c, T
      <4>3. (a \o before) \o b = a \o (before \o b) /\ (a \o before) \o c = a \o (before \o c)
        <5>1. \A x, y, z \in T : (x \o y) \o z = x \o (y \o z)
          BY <4>0 DEF AreTexts
        <5> QED
          BY <4>0, <5>1, ZenonT(30)
      <4> QED
        BY <4>1, <4>2, <4>3, Zenon DEF a, b, c, more
    <3>5. (\A m \in h..(k - 1) : parts[m] = <<>>) => more = <<>>
      <4> SUFFICES ASSUME \A m \in h..(k - 1) : parts[m] = <<>> PROVE more = <<>>
        OBVIOUS
      <4>1. h \in h..(k - 1) /\ \A m \in (h + 1)..(k - 1) : m \in h..(k - 1)
        BY <2>3
      <4>2. parts[h] = <<>> /\ before = <<>>
        BY <3>1, <4>1
      <4>3. <<>> \o <<>> = <<>>
        BY EmptySeq, ConcatEmptySeq
      <4> QED
        BY <4>2, <4>3, Zenon
    <3> HIDE DEF more
    <3>6. Around(h, more)
      BY <3>4, <3>5
    <3> HIDE DEF Around
    <3> QED
      BY <3>3, <3>6
  <2> HIDE DEF Has
  <2> QED
    BY <2>1, <2>2, <2>3
<1> HIDE DEF Around, Has
<1>12. 1..(n + 1) \subseteq Has
  BY <1>9, <1>11, Downward
<1>13. PICK before \in Seq(S) : Around(1, before)
  <2>1. 1 \in 1..(n + 1) /\ 1 <= k
    OBVIOUS
  <2> QED
    BY <1>12, <2>1 DEF Has
<1>14. Surround(before, after, parts, k, p)
  BY <1>2, <1>3, <1>13 DEF Around, other, Surround, Replaced
<1> QED
  BY <1>8, <1>14

\* A part more comes at the end.
LEMMA FlattenedAppend ==
    ASSUME NEW S, NEW n \in Nat, NEW parts \in [1..n -> Seq(S)],
           NEW more \in [1..(n + 1) -> Seq(S)], \A k \in 1..n : more[k] = parts[k]
    PROVE  Flattened(more) = Flattened(parts) \o more[n + 1]
<1> DEFINE p == more[n + 1]
<1>0. p \in Seq(S)
  OBVIOUS
<1>1. PICK f : RowFrom(f, parts, S, n) /\ Flattened(parts) = f[1]
  <2>1. n \in Nat /\ parts \in [1..n -> Seq(S)]
    OBVIOUS
  <2> QED
    BY ONLY <2>1, FlattenedRow
<1>2. PICK g : RowFrom(g, more, S, n + 1) /\ Flattened(more) = g[1]
  <2>1. n + 1 \in Nat
    OBVIOUS
  <2> QED
    BY <2>1, FlattenedRow
<1>3. /\ f \in [1..(n + 1) -> Seq(S)] /\ f[n + 1] = <<>>
      /\ \A h \in 1..n : f[h] = parts[h] \o f[h + 1]
      /\ g[n + 1 + 1] = <<>>
      /\ \A h \in 1..(n + 1) : g[h] = more[h] \o g[h + 1]
  BY <1>1, <1>2 DEF RowFrom
<1> DEFINE T == {h \in 1..(n + 1) : g[h] = f[h] \o p}
<1>4. n + 1 \in T
  <2>1. n + 1 \in 1..(n + 1)
    OBVIOUS
  <2>2. g[n + 1] = p \o <<>>
    BY <1>3, <2>1
  <2>3. p \o <<>> = p /\ <<>> \o p = p
    BY <1>0, ConcatEmptySeq
  <2> QED
    BY <1>3, <2>1, <2>2, <2>3
<1>5. ASSUME NEW h \in 1..n, h + 1 \in T PROVE h \in T
  <2>1. h \in 1..(n + 1) /\ h + 1 \in 1..(n + 1)
    OBVIOUS
  <2>2. g[h] = parts[h] \o g[h + 1] /\ g[h + 1] = f[h + 1] \o p /\ f[h] = parts[h] \o f[h + 1]
    BY <1>3, <1>5, <2>1
  <2>3. parts[h] \in Seq(S) /\ f[h + 1] \in Seq(S)
    BY <1>3, <2>1
  <2>4. (parts[h] \o f[h + 1]) \o p = parts[h] \o (f[h + 1] \o p)
    <3> DEFINE a == parts[h]
               b == f[h + 1]
               U == Seq(S)
    <3>1. a \in U /\ b \in U /\ p \in U /\ AreTexts(U)
      BY <1>0, <2>3, SequencesAreTexts
    <3> HIDE DEF a, b, p, U
    <3>2. (a \o b) \o p = a \o (b \o p)
      <4>1. \A x, y, z \in U : (x \o y) \o z = x \o (y \o z)
        BY <3>1 DEF AreTexts
      <4> QED
        BY <3>1, <4>1, Zenon
    <3> QED
      BY <3>2 DEF a, b
  <2> HIDE DEF p
  <2>5. g[h] = f[h] \o p
    BY <2>2, <2>4, Zenon
  <2> QED
    BY <2>1, <2>5
<1> HIDE DEF T
<1>6. 1..(n + 1) \subseteq T
  BY <1>4, <1>5, Downward
<1>7. 1 \in 1..(n + 1)
  OBVIOUS
<1> QED
  BY <1>1, <1>2, <1>6, <1>7 DEF T

\* Nothing comes of empty parts.
LEMMA FlattenedNone ==
    ASSUME NEW n \in Nat, NEW parts \in [1..n -> {<<>>}]
    PROVE  Flattened(parts) = <<>>
<1> DEFINE S == {}
<1>0. <<>> \in Seq(S)
  BY EmptySeq
<1> HIDE DEF S
<1>1. parts \in [1..n -> Seq(S)]
  BY <1>0
<1>2. PICK f : RowFrom(f, parts, S, n) /\ Flattened(parts) = f[1]
  BY <1>1, FlattenedRow
<1>3. f[n + 1] = <<>> /\ \A k \in 1..n : f[k] = parts[k] \o f[k + 1]
  BY <1>2 DEF RowFrom
<1> DEFINE T == {k \in 1..(n + 1) : f[k] = <<>>}
<1>4. n + 1 \in T
  BY <1>3
<1>5. ASSUME NEW k \in 1..n, k + 1 \in T PROVE k \in T
  <2>1. f[k] = parts[k] \o f[k + 1] /\ parts[k] = <<>> /\ f[k + 1] = <<>>
    BY <1>3, <1>5
  <2>2. <<>> \o <<>> = <<>>
    BY <1>0, ConcatEmptySeq
  <2>3. f[k] = <<>>
    BY <2>1, <2>2, Zenon
  <2> QED
    BY <2>3
<1> HIDE DEF T
<1>6. 1..(n + 1) \subseteq T
  BY <1>4, <1>5, Downward
<1>7. 1 \in 1..(n + 1)
  OBVIOUS
<1> QED
  BY <1>2, <1>6, <1>7 DEF T

\* How many of its words are among some.
Weight(W, text) == Cardinality({k \in DOMAIN text : text[k] \in W})

\* No more than it has.
LEMMA WeightIs ==
    ASSUME NEW S, NEW W, NEW s \in Seq(S)
    PROVE  /\ IsFiniteSet({k \in DOMAIN s : s[k] \in W}) /\ Weight(W, s) \in Nat
           /\ S \subseteq W => Weight(W, s) = Len(s)
<1> DEFINE A == {k \in DOMAIN s : s[k] \in W}
           n == Len(s)
<1>1. n \in Nat /\ DOMAIN s = 1..n
  BY LenProperties
<1>2. IsFiniteSet(1..n) /\ Cardinality(1..n) = n
  <2> HIDE DEF n
  <2>1. 1 \in Int /\ n \in Int
    BY <1>1
  <2>2. IsFiniteSet(1..n) /\ Cardinality(1..n) = IF 1 > n THEN 0 ELSE n - 1 + 1
    BY <2>1, FS_Interval
  <2> QED
    BY <1>1, <2>2
<1>3. A \in SUBSET (1..n)
  BY <1>1
<1>4. S \subseteq W => A = 1..n
  BY <1>1, ElementOfSeq
<1> HIDE DEF A, n
<1>5. IsFiniteSet(A) /\ Cardinality(A) \in Nat
  BY <1>2, <1>3, FS_Subset, FS_CardinalityType
<1> QED
  BY <1>2, <1>4, <1>5 DEF Weight, A, n

\* What two texts weigh together.
LEMMA WeightConcat ==
    ASSUME NEW S, NEW W, NEW s \in Seq(S), NEW t \in Seq(S)
    PROVE  Weight(W, s \o t) = Weight(W, s) + Weight(W, t)
<1> DEFINE m == Len(s)
           n == Len(t)
           A == {k \in DOMAIN s : s[k] \in W}
           B == {k \in DOMAIN t : t[k] \in W}
           C == {k \in DOMAIN (s \o t) : (s \o t)[k] \in W}
           moved == {k \in (m + 1)..(m + n) : t[k - m] \in W}
           back == [k \in moved |-> k - m]
<1>1. /\ m \in Nat /\ DOMAIN s = 1..m /\ n \in Nat /\ DOMAIN t = 1..n
      /\ DOMAIN (s \o t) = 1..(m + n)
      /\ \A k \in 1..(m + n) : (s \o t)[k] = IF k <= m THEN s[k] ELSE t[k - m]
  <2>1. s \o t \in Seq(S) /\ Len(s \o t) = m + n
    BY ConcatProperties
  <2>2. DOMAIN (s \o t) = 1..(m + n)
    BY <2>1, LenProperties
  <2> QED
    BY <2>2, LenProperties, ConcatProperties
<1>2. IsFiniteSet(A) /\ IsFiniteSet(B) /\ IsFiniteSet(C)
  <2>1. s \o t \in Seq(S)
    BY ConcatProperties
  <2>2. IsFiniteSet(C)
    BY <2>1, WeightIs
  <2> QED
    BY <2>2, WeightIs
<1>3. C = A \cup moved /\ A \cap moved = {}
  BY <1>1
<1>4. back \in [moved -> B] /\ \A k \in moved : back[k] = k - m
  BY <1>1
<1>5. \A x, y \in moved : back[x] = back[y] => x = y
  BY <1>1, <1>4
<1>6. ASSUME NEW b \in B PROVE \E k \in moved : back[k] = b
  <2>1. b + m \in (m + 1)..(m + n) /\ b + m - m = b
    BY <1>1
  <2>2. b + m \in moved
    BY <2>1
  <2> HIDE DEF back
  <2> QED
    BY <1>4, <2>1, <2>2
<1>7. IsFiniteSet(moved)
  <2>1. moved \in SUBSET C
    BY <1>3
  <2> HIDE DEF moved, C
  <2> QED
    BY <1>2, <2>1, FS_Subset
<1> HIDE DEF A, B, C, moved, back
<1>8. Cardinality(moved) = Cardinality(B)
  <2>1. back \in Bijection(moved, B)
    BY <1>4, <1>5, <1>6, Fun_IsBij
  <2>2. ExistsBijection(moved, B)
    BY <2>1 DEF ExistsBijection
  <2> QED
    BY <1>7, <2>2, FS_Bijection
<1>9. Cardinality(C) = Cardinality(A) + Cardinality(moved)
  <2>1. Cardinality(A \cup moved) = Cardinality(A) + Cardinality(moved) - Cardinality(A \cap moved)
    BY <1>2, <1>7, FS_Union
  <2>2. Cardinality(A \cap moved) = 0
    BY <1>3, FS_EmptySet
  <2>3. Cardinality(A) \in Nat /\ Cardinality(moved) \in Nat
    BY <1>2, <1>7, FS_CardinalityType
  <2> QED
    BY <1>3, <2>1, <2>2, <2>3
<1> QED
  BY <1>8, <1>9 DEF Weight, A, B, C

\* Nothing weighs nothing.
LEMMA WeightEmpty == ASSUME NEW W PROVE Weight(W, <<>>) = 0
<1>1. {k \in DOMAIN <<>> : <<>>[k] \in W} = {}
  OBVIOUS
<1> QED
  BY <1>1, FS_EmptySet DEF Weight

\* Texts weigh what they did, but for one in whose place another is.
SameBut(W, parts, k, p) ==
    /\ Weight(W, Flattened(parts)) \in Nat /\ Weight(W, Flattened(Replaced(parts, k, p))) \in Nat
    /\ Weight(W, Flattened(Replaced(parts, k, p))) + Weight(W, parts[k])
         = Weight(W, Flattened(parts)) + Weight(W, p)

\* Parts weigh what they did, but for one that changes.
LEMMA WeightAt ==
    ASSUME NEW S, NEW W, NEW n \in Nat, NEW parts \in [1..n -> Seq(S)], NEW k \in 1..n, NEW p \in Seq(S)
    PROVE  SameBut(W, parts, k, p)
<1> DEFINE old == Flattened(parts)
           new == Flattened(Replaced(parts, k, p))
           q == parts[k]
<1>0. PICK before \in Seq(S), after \in Seq(S) : Surround(before, after, parts, k, p)
  BY FlattenedAt
<1>1. old = before \o (q \o after) /\ new = before \o (p \o after)
  BY <1>0 DEF Surround
<1>2. q \in Seq(S)
  OBVIOUS
<1> HIDE DEF old, new, q
<1>3. q \o after \in Seq(S) /\ p \o after \in Seq(S)
  BY <1>2, ConcatProperties
<1>4. /\ Weight(W, q \o after) = Weight(W, q) + Weight(W, after)
      /\ Weight(W, p \o after) = Weight(W, p) + Weight(W, after)
      /\ Weight(W, before \o (q \o after)) = Weight(W, before) + Weight(W, q \o after)
      /\ Weight(W, before \o (p \o after)) = Weight(W, before) + Weight(W, p \o after)
  <2>1. \A s, t \in Seq(S) : Weight(W, s \o t) = Weight(W, s) + Weight(W, t)
    BY WeightConcat
  <2> QED
    BY <1>0, <1>2, <1>3, <2>1
<1>5. Weight(W, q) \in Nat /\ Weight(W, p) \in Nat /\ Weight(W, before) \in Nat /\ Weight(W, after) \in Nat
  BY <1>2, WeightIs
<1>6. /\ Weight(W, old) = Weight(W, before) + (Weight(W, q) + Weight(W, after))
      /\ Weight(W, new) = Weight(W, before) + (Weight(W, p) + Weight(W, after))
  BY <1>1, <1>4, Zenon
<1>7. Weight(W, old) \in Nat /\ Weight(W, new) \in Nat
      /\ Weight(W, new) + Weight(W, q) = Weight(W, old) + Weight(W, p)
  BY <1>5, <1>6, SMTT(30)
<1> QED
  BY <1>7 DEF old, new, q, SameBut

-----------------------------------------------------------------------------
(***************************************************************************)
(* The text of a block                                                     *)
(***************************************************************************)
DirectiveNames == {Order[k] : k \in 1..10}

\* The words that blocks are written with.
Spellings ==
    Values \cup DirectiveNames
      \cup {"", "=", "{", "}", ";", "error_page", "http", "server", "location", "80"}

\* A block has its five fields and no other.
HasFields(b) ==
    b = [kind |-> b.kind, name |-> b.name, set |-> b.set, errorPages |-> b.errorPages,
         inside |-> b.inside]

IsRow(s) == Len(s) \in Nat /\ DOMAIN s = 1..Len(s)

\* A block, without those inside, can be written.
HasWords(b) ==
    /\ HasFields(b) /\ b.kind \in {"http", "server", "location"}
    /\ b.name \in Seq(Values \cup {"", "="})
    /\ DOMAIN b.set \subseteq DirectiveNames /\ \A d \in DOMAIN b.set : b.set[d] \in Seq(Values)
    /\ b.errorPages \in Seq(Seq(Values))

\* And with those inside, at each depth.
Legible3(b) == HasWords(b) /\ b.inside = <<>>
Legible2(b) == HasWords(b) /\ IsRow(b.inside) /\ \A k \in DOMAIN b.inside : Legible3(b.inside[k])
Legible1(b) == HasWords(b) /\ IsRow(b.inside) /\ \A k \in DOMAIN b.inside : Legible2(b.inside[k])
Legible(k, b) == IF k = 1 THEN Legible1(b) ELSE IF k = 2 THEN Legible2(b) ELSE Legible3(b)

TextAt(k, b) == IF k = 1 THEN HttpText(b) ELSE IF k = 2 THEN ServerText(b) ELSE LocationText(b)
InsideTexts(k, b) == [m \in DOMAIN b.inside |-> TextAt(k + 1, b.inside[m])]

\* What a block is written as before its directives, and before its end.
Opening(b) == <<b.kind>> \o b.name \o <<"{">>
OpenText(k, b) == Opening(b) \o DirectivesText(b) \o Flattened(InsideTexts(k, b))

\* What a block is with one field replaced.
GivenSet(b, x) == [b EXCEPT !.set = x]
GivenErrorPages(b, x) == [b EXCEPT !.errorPages = x]
GivenInside(b, x) == [b EXCEPT !.inside = x]

\* A block of which one field is replaced keeps the others.
LEMMA ReplacedFields ==
    ASSUME NEW b, HasFields(b), NEW x
    PROVE  /\ LET c == GivenSet(b, x)
              IN  /\ HasFields(c) /\ c.set = x /\ c.kind = b.kind /\ c.name = b.name
                  /\ c.errorPages = b.errorPages /\ c.inside = b.inside
           /\ LET c == GivenErrorPages(b, x)
              IN  /\ HasFields(c) /\ c.errorPages = x /\ c.kind = b.kind /\ c.name = b.name
                  /\ c.set = b.set /\ c.inside = b.inside
           /\ LET c == GivenInside(b, x)
              IN  /\ HasFields(c) /\ c.inside = x /\ c.kind = b.kind /\ c.name = b.name
                  /\ c.set = b.set /\ c.errorPages = b.errorPages
<1> DEFINE kind == b.kind
           name == b.name
           set == b.set
           errorPages == b.errorPages
           inside == b.inside
<1>1. b = [kind |-> kind, name |-> name, set |-> set, errorPages |-> errorPages, inside |-> inside]
  BY DEF HasFields
<1>2. /\ b.kind = kind /\ b.name = name /\ b.set = set /\ b.errorPages = errorPages /\ b.inside = inside
  OBVIOUS
<1> HIDE DEF kind, name, set, errorPages, inside
<1>3. /\ [b EXCEPT !.set = x] =
           [kind |-> kind, name |-> name, set |-> x, errorPages |-> errorPages, inside |-> inside]
      /\ [b EXCEPT !.errorPages = x] =
           [kind |-> kind, name |-> name, set |-> set, errorPages |-> x, inside |-> inside]
      /\ [b EXCEPT !.inside = x] =
           [kind |-> kind, name |-> name, set |-> set, errorPages |-> errorPages, inside |-> x]
  BY <1>1
<1> QED
  BY <1>2, <1>3 DEF HasFields, GivenSet, GivenErrorPages, GivenInside

\* The directives have different names.
LEMMA NamesDiffer ==
    /\ DOMAIN Order = 1..10 /\ \A k, m \in 1..10 : Order[k] = Order[m] => k = m
    /\ "error_page" \notin DirectiveNames /\ "" \notin DirectiveNames /\ "}" \notin DirectiveNames
    /\ "server" \notin DirectiveNames /\ "location" \notin DirectiveNames
    /\ \A kind \in {"http", "server", "location"} : Directives[kind] \subseteq DirectiveNames
<1>1. DOMAIN Order = 1..10 /\ \A k, m \in 1..10 : Order[k] = Order[m] => k = m
  BY DEF Order
<1>2. DirectiveNames = {"listen", "server_name", "client_max_body_size", "root", "alias", "index",
                        "autoindex", "return", "limit_except", "cgi_pass"}
  BY DEF DirectiveNames, Order
<1>3. \A kind \in {"http", "server", "location"} : Directives[kind] \subseteq DirectiveNames
  BY <1>2 DEF Directives, Everywhere
<1> QED
  BY <1>1, <1>2, <1>3

\* The texts of directives, of a block's directives, and of its beginning.
LEMMA DirectiveTextIs ==
    ASSUME NEW d \in DirectiveNames \cup {"error_page"}, NEW words \in Seq(Values)
    PROVE  DirectiveText(d, words) \in Seq(Spellings)
<1> DEFINE last == Ending(d)
<1>1. d \in Spellings /\ last \in Spellings
  BY DEF Spellings, Ending
<1>2. words \in Seq(Spellings)
  <2>1. Values \subseteq Spellings
    BY DEF Spellings
  <2> QED
    BY <2>1, SeqMonotonic
<1> HIDE DEF last
<1>3. <<d>> \in Seq(Spellings) /\ <<last>> \in Seq(Spellings)
  BY <1>1
<1>4. <<d>> \o words \o <<last>> \in Seq(Spellings)
  BY <1>2, <1>3, ConcatProperties
<1> QED
  BY <1>4 DEF DirectiveText, last

\* The text of a block's directives and error pages is made of words.
LEMMA DirectivesTextIs ==
    ASSUME NEW b, HasWords(b)
    PROVE  /\ DirectiveTexts(b) \in [1..10 -> Seq(Spellings)]
           /\ ErrorPageTexts(b) \in [1..Len(b.errorPages) -> Seq(Spellings)]
           /\ Len(b.errorPages) \in Nat
           /\ Flattened(DirectiveTexts(b)) \in Seq(Spellings)
           /\ Flattened(ErrorPageTexts(b)) \in Seq(Spellings)
           /\ DirectivesText(b) \in Seq(Spellings) /\ Opening(b) \in Seq(Spellings)
<1> DEFINE n == Len(b.errorPages)
           T == Seq(Spellings)
<1>1. ASSUME NEW k \in 1..10, Order[k] \in DOMAIN b.set
      PROVE  DirectiveText(Order[k], b.set[Order[k]]) \in T
  BY <1>1, DirectiveTextIs DEF HasWords
<1>2. DirectiveTexts(b) \in [1..10 -> T]
  <2>1. <<>> \in T
    BY EmptySeq
  <2> HIDE DEF T
  <2> QED
    BY <1>1, <2>1, NamesDiffer DEF DirectiveTexts
<1>3. n \in Nat /\ DOMAIN b.errorPages = 1..n /\ \A k \in 1..n : b.errorPages[k] \in Seq(Values)
  <2>1. b.errorPages \in Seq(Seq(Values))
    BY DEF HasWords
  <2> QED
    BY <2>1, LenProperties, ElementOfSeq
<1>4. \A k \in 1..n : DirectiveText("error_page", b.errorPages[k]) \in T
  BY <1>3, DirectiveTextIs
<1>5. ErrorPageTexts(b) \in [1..n -> T]
  <2> HIDE DEF T, n
  <2> QED
    BY <1>3, <1>4 DEF ErrorPageTexts
<1>6. Flattened(DirectiveTexts(b)) \in T /\ Flattened(ErrorPageTexts(b)) \in T
  BY <1>2, <1>3, <1>5, FlattenedType
<1>7. DirectivesText(b) \in T
  BY <1>6, ConcatProperties DEF DirectivesText
<1>8. Opening(b) \in T
  <2>1. <<b.kind>> \in T /\ <<"{">> \in T
    <3>1. b.kind \in Spellings /\ "{" \in Spellings
      BY DEF HasWords, Spellings
    <3> QED
      BY <3>1, OneWord
  <2>2. b.name \in T
    <3>1. Values \cup {"", "="} \subseteq Spellings
      BY DEF Spellings
    <3> QED
      BY <3>1, SeqMonotonic DEF HasWords
  <2> QED
    BY <2>1, <2>2, ConcatProperties DEF Opening
<1> QED
  BY <1>2, <1>3, <1>5, <1>6, <1>7, <1>8

\* The text of a block is its beginning, its directives, what is inside and its end.
LEMMA OpenTextIs ==
    ASSUME NEW k \in 1..3, NEW b, HasWords(b), IsRow(b.inside),
           InsideTexts(k, b) \in [1..Len(b.inside) -> Seq(Spellings)]
    PROVE  /\ OpenText(k, b) \in Seq(Spellings)
           /\ BlockText(b, Flattened(InsideTexts(k, b))) = OpenText(k, b) \o <<"}">>
           /\ BlockText(b, Flattened(InsideTexts(k, b))) \in Seq(Spellings)
<1> DEFINE n == Len(b.inside)
           parts == InsideTexts(k, b)
<1>1. Flattened(parts) \in Seq(Spellings)
  <2>1. n \in Nat
    BY DEF IsRow
  <2> HIDE DEF parts
  <2> QED
    BY <2>1, FlattenedType DEF parts
<1>2. OpenText(k, b) \in Seq(Spellings)
  BY <1>1, DirectivesTextIs, ConcatProperties DEF OpenText
<1>3. BlockText(b, Flattened(parts)) = OpenText(k, b) \o <<"}">>
  BY Zenon DEF BlockText, OpenText, Opening
<1>4. <<"}">> \in Seq(Spellings)
  <2>1. "}" \in Spellings
    BY DEF Spellings
  <2> QED
    BY <2>1, OneWord
<1>5. OpenText(k, b) \o <<"}">> \in Seq(Spellings)
  BY <1>2, <1>4, ConcatProperties
<1> QED
  BY <1>2, <1>3, <1>5

\* What can be written of a location: its text, open and closed.
LEMMA LocationTextIs ==
    ASSUME NEW b, Legible(3, b)
    PROVE  /\ InsideTexts(3, b) \in [1..Len(b.inside) -> Seq(Spellings)]
           /\ OpenText(3, b) \in Seq(Spellings) /\ TextAt(3, b) = OpenText(3, b) \o <<"}">>
           /\ TextAt(3, b) \in Seq(Spellings)
<1>0. 3 \in 1..3
  OBVIOUS
<1>1. HasWords(b) /\ b.inside = <<>>
  BY DEF Legible, Legible3
<1>2. IsRow(b.inside) /\ Len(b.inside) = 0
  BY <1>1 DEF IsRow
<1> DEFINE parts == InsideTexts(3, b)
<1>3. parts \in [1..0 -> Seq(Spellings)] /\ parts \in [1..0 -> {<<>>}]
  BY <1>2 DEF InsideTexts, IsRow
<1> HIDE DEF parts
<1>4. Flattened(parts) = <<>>
  BY <1>3, FlattenedNone
<1>5. TextAt(3, b) = BlockText(b, Flattened(InsideTexts(3, b)))
  BY <1>4 DEF TextAt, LocationText, parts
<1>6. InsideTexts(3, b) \in [1..Len(b.inside) -> Seq(Spellings)]
  BY <1>2, <1>3 DEF parts
<1> QED
  BY <1>0, <1>1, <1>2, <1>5, <1>6, OpenTextIs, Zenon

\* The same of a server, whose locations can be written.
LEMMA ServerTextIs ==
    ASSUME NEW b, Legible(2, b)
    PROVE  /\ InsideTexts(2, b) \in [1..Len(b.inside) -> Seq(Spellings)]
           /\ OpenText(2, b) \in Seq(Spellings) /\ TextAt(2, b) = OpenText(2, b) \o <<"}">>
           /\ TextAt(2, b) \in Seq(Spellings)
<1>0. 2 \in 1..3
  OBVIOUS
<1>1. HasWords(b) /\ IsRow(b.inside) /\ \A m \in DOMAIN b.inside : Legible(3, b.inside[m])
  BY DEF Legible, Legible2
<1>2. DOMAIN b.inside = 1..Len(b.inside)
  BY <1>1 DEF IsRow
<1>3. \A m \in DOMAIN b.inside : TextAt(3, b.inside[m]) \in Seq(Spellings)
  BY <1>1, LocationTextIs
<1>4. InsideTexts(2, b) = [m \in DOMAIN b.inside |-> TextAt(3, b.inside[m])]
  BY DEF InsideTexts
<1>5. InsideTexts(2, b) \in [1..Len(b.inside) -> Seq(Spellings)]
  BY <1>2, <1>3, <1>4
<1>6. TextAt(2, b) = BlockText(b, Flattened(InsideTexts(2, b)))
  BY <1>4 DEF TextAt, ServerText
<1> QED
  BY <1>0, <1>1, <1>5, <1>6, OpenTextIs, Zenon

\* At each depth.
LEMMA TextIs ==
    ASSUME NEW k \in 1..3, NEW b, Legible(k, b)
    PROVE  /\ HasWords(b) /\ IsRow(b.inside)
           /\ InsideTexts(k, b) \in [1..Len(b.inside) -> Seq(Spellings)]
           /\ OpenText(k, b) \in Seq(Spellings) /\ TextAt(k, b) = OpenText(k, b) \o <<"}">>
           /\ TextAt(k, b) \in Seq(Spellings)
<1>0. HasWords(b) /\ IsRow(b.inside)
  BY DEF Legible, Legible1, Legible2, Legible3, IsRow
<1>1. CASE k = 1
  <2>1. \A m \in DOMAIN b.inside : Legible(2, b.inside[m])
    BY <1>1 DEF Legible, Legible1
  <2>2. DOMAIN b.inside = 1..Len(b.inside)
    BY <1>0 DEF IsRow
  <2>3. \A m \in DOMAIN b.inside : TextAt(2, b.inside[m]) \in Seq(Spellings)
    BY <2>1, ServerTextIs
  <2>4. InsideTexts(1, b) = [m \in DOMAIN b.inside |-> TextAt(2, b.inside[m])]
    BY DEF InsideTexts
  <2>5. InsideTexts(1, b) \in [1..Len(b.inside) -> Seq(Spellings)]
    BY <2>2, <2>3, <2>4
  <2>6. TextAt(1, b) = BlockText(b, Flattened(InsideTexts(1, b)))
    BY <2>4 DEF TextAt, HttpText
  <2>7. /\ OpenText(1, b) \in Seq(Spellings) /\ TextAt(1, b) = OpenText(1, b) \o <<"}">>
        /\ TextAt(1, b) \in Seq(Spellings)
    BY <1>0, <1>1, <2>5, <2>6, OpenTextIs, Zenon
  <2> QED
    BY <1>0, <1>1, <2>5, <2>7
<1>2. CASE k = 2
  BY <1>0, <1>2, ServerTextIs
<1>3. CASE k = 3
  BY <1>0, <1>3, LocationTextIs
<1>4. k = 1 \/ k = 2 \/ k = 3
  OBVIOUS
<1> QED
  BY <1>1, <1>2, <1>3, <1>4, Zenon

\* The blocks the parser makes can be written.
LEMMA BlockHasWords ==
    ASSUME NEW kind \in {"http", "server", "location"}, NEW within, NEW b \in Blocks(kind, within)
    PROVE  /\ HasWords(b) /\ IsRow(b.inside) /\ \A m \in DOMAIN b.inside : b.inside[m] \in within
           /\ b.inside \in Seq(within)
<1>1. /\ b.kind = kind /\ b.name \in Seq(Values \cup {"", "="}) /\ b.set \in SetType(kind)
      /\ b.errorPages \in Seq(ErrorPageWords) /\ b.inside \in Seq(within)
  BY BlockFields
<1>2. HasFields(b)
  <2> DEFINE N == Seq(Values \cup {"", "="})
             S == SetType(kind)
             P == Seq(ErrorPageWords)
             I == Seq(within)
  <2>1. b \in [kind : {kind}, name : N, set : S, errorPages : P, inside : I]
    BY DEF Blocks
  <2> HIDE DEF N, S, P, I
  <2> QED
    BY <2>1 DEF HasFields
<1>3. DOMAIN b.set \subseteq DirectiveNames /\ \A d \in DOMAIN b.set : b.set[d] \in Seq(Values)
  <2> DEFINE set == b.set
  <2>1. set \in SetType(kind)
    BY <1>1
  <2> HIDE DEF set
  <2>2. DOMAIN set \subseteq Directives[kind] /\ \A d \in DOMAIN set : set[d] \in Arguments1
    BY <2>1, SetTypeIs
  <2>3. DOMAIN set \subseteq DirectiveNames
    BY <2>2, NamesDiffer
  <2> QED
    BY <2>2, <2>3 DEF set, Arguments1
<1>4. b.errorPages \in Seq(Seq(Values))
  <2>1. ErrorPageWords \subseteq Seq(Values)
    <3>1. Words \subseteq Values
      BY DEF Words
    <3> QED
      BY <3>1, SeqMonotonic DEF ErrorPageWords
  <2> QED
    BY <1>1, <2>1, SeqMonotonic
<1>5. IsRow(b.inside) /\ \A m \in DOMAIN b.inside : b.inside[m] \in within
  BY <1>1, LenProperties, ElementOfSeq DEF IsRow
<1> QED
  BY <1>1, <1>2, <1>3, <1>4, <1>5 DEF HasWords

\* What the parser makes at a depth can be written.
LEMMA LevelIsLegible == ASSUME NEW k \in 1..3, NEW b \in Level(k) PROVE Legible(k, b)
<1>1. ASSUME NEW c \in LocationBlocks PROVE Legible3(c)
  <2>1. c \in Blocks("location", {})
    BY DEF LocationBlocks
  <2>2. HasWords(c) /\ c.inside \in Seq({})
    BY <2>1, BlockHasWords
  <2>3. c.inside = <<>>
    BY <2>2
  <2> QED
    BY <2>2, <2>3 DEF Legible3
<1>2. ASSUME NEW c \in ServerBlocks PROVE Legible2(c)
  <2>1. c \in Blocks("server", LocationBlocks)
    BY DEF ServerBlocks
  <2>2. HasWords(c) /\ IsRow(c.inside) /\ \A m \in DOMAIN c.inside : c.inside[m] \in LocationBlocks
    BY <2>1, BlockHasWords
  <2> QED
    BY <1>1, <2>2 DEF Legible2
<1>3. ASSUME NEW c \in HttpBlocks PROVE Legible1(c)
  <2>1. c \in Blocks("http", ClosedServers)
    BY DEF HttpBlocks
  <2>2. HasWords(c) /\ IsRow(c.inside) /\ \A m \in DOMAIN c.inside : c.inside[m] \in ClosedServers
    BY <2>1, BlockHasWords
  <2>3. ClosedServers \subseteq ServerBlocks
    BY DEF ClosedServers
  <2> QED
    BY <1>2, <2>2, <2>3 DEF Legible1
<1>4. k = 1 \/ k = 2 \/ k = 3
  OBVIOUS
<1> QED
  BY <1>1, <1>2, <1>3, <1>4 DEF Level, Legible

\* What a block is written as when nothing is in it yet.
LEMMA NewBlockText ==
    ASSUME NEW k \in 1..3, NEW kind \in {"http", "server", "location"},
           NEW name \in Seq(Values \cup {"", "="})
    PROVE  /\ OpenText(k, Block(kind, name)) = <<kind>> \o name \o <<"{">>
           /\ <<kind>> \o name \o <<"{">> \in Seq(Spellings)
<1> DEFINE b == Block(kind, name)
<1>1. /\ b.kind = kind /\ b.name = name /\ b.set = << >> /\ b.errorPages = <<>> /\ b.inside = <<>>
      /\ HasFields(b)
  BY DEF Block, HasFields
<1>2. DOMAIN << >> = {} /\ Len(<<>>) = 0 /\ 1..0 = {}
  <2>1. DOMAIN << >> = {}
    BY EmptyFunction
  <2> QED
    BY <2>1, EmptySeq, NoNumbers
<1> HIDE DEF b
<1>3. HasWords(b) /\ Opening(b) = <<kind>> \o name \o <<"{">>
  <2>1. <<>> \in Seq(Seq(Values))
    BY EmptySeq
  <2> QED
    BY <1>1, <1>2, <2>1 DEF HasWords, Opening
<1>4. Opening(b) \in Seq(Spellings)
  BY <1>3, DirectivesTextIs
<1>5. Flattened(DirectiveTexts(b)) = <<>>
  <2> DEFINE parts == DirectiveTexts(b)
  <2>1. parts \in [1..10 -> {<<>>}]
    BY <1>1, <1>2, NamesDiffer DEF DirectiveTexts
  <2> HIDE DEF parts
  <2> QED
    BY <2>1, FlattenedNone DEF parts
<1>6. Flattened(ErrorPageTexts(b)) = <<>>
  <2> DEFINE parts == ErrorPageTexts(b)
  <2>1. parts \in [1..0 -> {<<>>}]
    BY <1>1, <1>2 DEF ErrorPageTexts
  <2> HIDE DEF parts
  <2> QED
    BY <2>1, FlattenedNone DEF parts
<1>7. Flattened(InsideTexts(k, b)) = <<>>
  <2> DEFINE parts == InsideTexts(k, b)
  <2>1. parts \in [1..0 -> {<<>>}]
    BY <1>1, <1>2 DEF InsideTexts
  <2> HIDE DEF parts
  <2> QED
    BY <2>1, FlattenedNone DEF parts
<1>8. <<>> \o <<>> = <<>> /\ Opening(b) \o <<>> = Opening(b)
  BY <1>4, EmptySeq, ConcatEmptySeq
<1>9. OpenText(k, b) = Opening(b)
  BY <1>5, <1>6, <1>7, <1>8, Zenon DEF OpenText, DirectivesText
<1> QED
  BY <1>3, <1>4, <1>9 DEF b

\* A directive more.
LEMMA WithDirectiveText ==
    ASSUME NEW W, NEW b, HasWords(b), NEW d, NEW words \in Seq(Values),
           d = "error_page" \/ d \in DirectiveNames \ DOMAIN b.set
    PROVE  LET c == WithDirective(b, d, words)
           IN  /\ HasWords(c) /\ c.kind = b.kind /\ c.name = b.name /\ c.inside = b.inside
               /\ Weight(W, DirectivesText(c)) =
                    Weight(W, DirectivesText(b)) + Weight(W, DirectiveText(d, words))
<1> DEFINE c == WithDirective(b, d, words)
           old == DirectiveTexts(b)
           new == DirectiveTexts(c)
           oldPages == ErrorPageTexts(b)
           newPages == ErrorPageTexts(c)
           text == DirectiveText(d, words)
           n == Len(b.errorPages)
<1>1. /\ old \in [1..10 -> Seq(Spellings)] /\ oldPages \in [1..n -> Seq(Spellings)] /\ n \in Nat
      /\ Flattened(old) \in Seq(Spellings) /\ Flattened(oldPages) \in Seq(Spellings)
      /\ HasFields(b) /\ DOMAIN b.errorPages = 1..n
  <2>1. HasFields(b) /\ DOMAIN b.errorPages = 1..n
    <3>1. b.errorPages \in Seq(Seq(Values))
      BY DEF HasWords
    <3> QED
      BY <3>1, LenProperties DEF HasWords
  <2> QED
    BY <2>1, DirectivesTextIs
<1>2. text \in Seq(Spellings)
  BY DirectiveTextIs
<1>3. CASE d = "error_page"
  <2> DEFINE pages == Append(b.errorPages, words)
  <2>1. c = GivenErrorPages(b, pages)
    BY <1>3 DEF WithDirective, GivenErrorPages
  <2>2. /\ pages \in Seq(Seq(Values)) /\ Len(pages) = n + 1 /\ pages[n + 1] = words
        /\ \A k \in 1..n : pages[k] = b.errorPages[k]
    <3>1. b.errorPages \in Seq(Seq(Values))
      BY DEF HasWords
    <3> QED
      BY <3>1, AppendProperties
  <2> HIDE DEF c, pages
  <2>3. /\ HasFields(c) /\ c.errorPages = pages /\ c.kind = b.kind /\ c.name = b.name
        /\ c.set = b.set /\ c.inside = b.inside
    <3>1. HasFields(b)
      BY <1>1
    <3> QED
      BY <2>1, <3>1, ReplacedFields
  <2>4. HasWords(c)
    BY <2>2, <2>3 DEF HasWords
  <2>5. new = old
    BY <2>3 DEF DirectiveTexts
  <2>6. DOMAIN pages = 1..(n + 1)
    BY <2>2, LenProperties
  <2>7. newPages \in [1..(n + 1) -> Seq(Spellings)]
    BY <2>2, <2>3, <2>4, DirectivesTextIs
  <2> DEFINE page(words1) == DirectiveText("error_page", words1)
             pagesBefore == b.errorPages
  <2>8. \A k \in 1..n : newPages[k] = oldPages[k]
    <3>1. /\ newPages = [k \in 1..(n + 1) |-> page(pages[k])]
          /\ oldPages = [k \in 1..n |-> page(pagesBefore[k])]
      BY <1>1, <2>3, <2>6 DEF ErrorPageTexts
    <3> HIDE DEF newPages, oldPages, page, n
    <3>2. \A k \in 1..n : k \in 1..(n + 1)
      <4>1. n \in Nat
        BY <1>1
      <4> QED
        BY ONLY <4>1
    <3>3. \A k \in 1..n : pages[k] = pagesBefore[k]
      BY <2>2
    <3> HIDE DEF pagesBefore
    <3> QED
      BY <3>1, <3>2, <3>3, SMTT(20)
  <2> HIDE DEF n
  <2>9. newPages[n + 1] = text
    <3>1. newPages = [k \in 1..(n + 1) |-> page(pages[k])] /\ text = page(words)
      BY <1>3, <2>3, <2>6 DEF ErrorPageTexts
    <3> HIDE DEF newPages, page, n, text
    <3>2. n + 1 \in 1..(n + 1)
      <4>1. n \in Nat
        BY <1>1
      <4> QED
        BY <4>1
    <3>3. pages[n + 1] = words
      BY <2>2
    <3> QED
      BY <3>1, <3>2, <3>3
  <2> HIDE DEF old, new, oldPages, newPages, text, n
  <2>10. Flattened(newPages) = Flattened(oldPages) \o text
    <3>1. Flattened(newPages) = Flattened(oldPages) \o newPages[n + 1]
      BY <1>1, <2>7, <2>8, FlattenedAppend
    <3> QED
      BY <2>9, <3>1, Zenon
  <2>11. /\ Flattened(newPages) \in Seq(Spellings)
         /\ Weight(W, Flattened(newPages)) = Weight(W, Flattened(oldPages)) + Weight(W, text)
    BY <1>1, <1>2, <2>10, ConcatProperties, WeightConcat
  <2>12. /\ Weight(W, DirectivesText(b)) = Weight(W, Flattened(old)) + Weight(W, Flattened(oldPages))
         /\ Weight(W, DirectivesText(c)) = Weight(W, Flattened(old)) + Weight(W, Flattened(newPages))
    <3>1. DirectivesText(b) = Flattened(old) \o Flattened(oldPages)
      BY DEF DirectivesText, old, oldPages
    <3>2. DirectivesText(c) = Flattened(old) \o Flattened(newPages)
      BY <2>5 DEF DirectivesText, new, newPages
    <3>3. /\ Weight(W, Flattened(old) \o Flattened(oldPages)) =
               Weight(W, Flattened(old)) + Weight(W, Flattened(oldPages))
          /\ Weight(W, Flattened(old) \o Flattened(newPages)) =
               Weight(W, Flattened(old)) + Weight(W, Flattened(newPages))
      <4>1. \A s, t \in Seq(Spellings) : Weight(W, s \o t) = Weight(W, s) + Weight(W, t)
        BY WeightConcat
      <4> QED
        BY <1>1, <2>11, <4>1
    <3> QED
      BY <3>1, <3>2, <3>3, Zenon
  <2>13. /\ Weight(W, Flattened(old)) \in Nat /\ Weight(W, Flattened(oldPages)) \in Nat
         /\ Weight(W, text) \in Nat
    BY <1>1, <1>2, WeightIs
  <2>14. Weight(W, DirectivesText(c)) = Weight(W, DirectivesText(b)) + Weight(W, text)
    BY <2>11, <2>12, <2>13
  <2> QED
    BY <2>3, <2>4, <2>14 DEF c, text
<1>4. CASE d # "error_page"
  <2> DEFINE set == With1(b.set, d, words)
  <2>1. c = GivenSet(b, set)
    BY <1>4 DEF WithDirective, GivenSet
  <2>2. DOMAIN set = DOMAIN b.set \cup {d} /\ set[d] = words /\ \A e \in DOMAIN b.set : e # d => set[e] = b.set[e]
    BY DEF With1
  <2> HIDE DEF c, set
  <2>3. /\ HasFields(c) /\ c.set = set /\ c.kind = b.kind /\ c.name = b.name
        /\ c.errorPages = b.errorPages /\ c.inside = b.inside
    <3>1. HasFields(b)
      BY <1>1
    <3> QED
      BY <2>1, <3>1, ReplacedFields
  <2>4. HasWords(c)
    <3>1. DOMAIN set \subseteq DirectiveNames /\ \A e \in DOMAIN set : set[e] \in Seq(Values)
      BY <1>4, <2>2 DEF HasWords
    <3> QED
      BY <2>3, <3>1 DEF HasWords
  <2>5. newPages = oldPages
    BY <2>3 DEF ErrorPageTexts
  <2>6. PICK k \in 1..10 : Order[k] = d
    BY <1>4 DEF DirectiveNames
  <2>7. /\ old[k] = <<>> /\ new \in [1..10 -> Seq(Spellings)] /\ new[k] = text
        /\ \A m \in 1..10 : m # k => new[m] = old[m]
    <3>1. new \in [1..10 -> Seq(Spellings)]
      BY <2>4, DirectivesTextIs
    <3>2. old[k] = <<>>
      BY <1>4, <2>6, NamesDiffer DEF DirectiveTexts
    <3>3. new[k] = text
      BY <2>2, <2>3, <2>6, NamesDiffer DEF DirectiveTexts
    <3>4. ASSUME NEW m \in 1..10, m # k PROVE new[m] = old[m]
      <4>1. Order[m] # d
        BY <2>6, <3>4, NamesDiffer
      <4> QED
        BY <2>2, <2>3, <4>1, NamesDiffer DEF DirectiveTexts
    <3> QED
      BY <3>1, <3>2, <3>3, <3>4
  <2> HIDE DEF old, new, oldPages, newPages, text, n
  <2>8. new = Replaced(old, k, text)
    BY <1>1, <1>2, <2>7 DEF Replaced
  <2>9. Weight(W, Flattened(new)) = Weight(W, Flattened(old)) + Weight(W, text)
    <3>1. /\ Weight(W, Flattened(old)) \in Nat /\ Weight(W, Flattened(new)) \in Nat
          /\ Weight(W, Flattened(new)) + Weight(W, old[k]) = Weight(W, Flattened(old)) + Weight(W, text)
      <4> DEFINE last == 10
      <4>1. last \in Nat /\ old \in [1..last -> Seq(Spellings)] /\ k \in 1..last
        BY <1>1
      <4> HIDE DEF last
      <4>2. SameBut(W, old, k, text)
        BY <1>2, <4>1, WeightAt
      <4> QED
        BY <2>8, <4>2, Zenon DEF SameBut
    <3>2. Weight(W, old[k]) = 0
      BY <2>7, WeightEmpty
    <3>3. Weight(W, text) \in Nat
      BY <1>2, WeightIs
    <3> QED
      BY <3>1, <3>2, <3>3
  <2>10. Flattened(new) \in Seq(Spellings)
    BY <2>4, DirectivesTextIs DEF new
  <2>11. /\ Weight(W, DirectivesText(b)) = Weight(W, Flattened(old)) + Weight(W, Flattened(oldPages))
         /\ Weight(W, DirectivesText(c)) = Weight(W, Flattened(new)) + Weight(W, Flattened(oldPages))
    <3>1. DirectivesText(b) = Flattened(old) \o Flattened(oldPages)
      BY DEF DirectivesText, old, oldPages
    <3>2. DirectivesText(c) = Flattened(new) \o Flattened(oldPages)
      BY <2>5 DEF DirectivesText, new, newPages
    <3>3. /\ Weight(W, Flattened(old) \o Flattened(oldPages)) =
               Weight(W, Flattened(old)) + Weight(W, Flattened(oldPages))
          /\ Weight(W, Flattened(new) \o Flattened(oldPages)) =
               Weight(W, Flattened(new)) + Weight(W, Flattened(oldPages))
      <4>1. \A s, t \in Seq(Spellings) : Weight(W, s \o t) = Weight(W, s) + Weight(W, t)
        BY WeightConcat
      <4> QED
        BY <1>1, <2>10, <4>1
    <3> QED
      BY <3>1, <3>2, <3>3, Zenon
  <2>12. /\ Weight(W, Flattened(old)) \in Nat /\ Weight(W, Flattened(oldPages)) \in Nat
         /\ Weight(W, text) \in Nat
    BY <1>1, <1>2, WeightIs
  <2>13. Weight(W, DirectivesText(c)) = Weight(W, DirectivesText(b)) + Weight(W, text)
    BY <2>9, <2>11, <2>12
  <2> QED
    BY <2>3, <2>4, <2>13 DEF c, text
<1> QED
  BY <1>3, <1>4

-----------------------------------------------------------------------------
(***************************************************************************)
(* ConfParser: the words read so far are those of the blocks made so far.  *)
(***************************************************************************)
\* The words of the blocks the parser is in, at one depth and together.
OpenWeight(W, blocks, k) == IF k \in DOMAIN blocks THEN Weight(W, OpenText(k, blocks[k])) ELSE 0
StackWeight(W, blocks) == OpenWeight(W, blocks, 1) + OpenWeight(W, blocks, 2) + OpenWeight(W, blocks, 3)

\* The words of the http block, once it is closed.
ClosedWeight(W, block) == IF block = Unwritten THEN 0 ELSE Weight(W, HttpText(block))

WordsInv ==
    /\ parsed \in Seq(Spellings)
    /\ contexts # <<>> => httpContext = Unwritten
    /\ parser = "parsed" => contexts = <<>>
    /\ \A W \in SUBSET Spellings :
         Weight(W, parsed) = StackWeight(W, contexts) + ClosedWeight(W, httpContext)

\* A word, some words and a word, one after the other.
LEMMA Bracketed ==
    ASSUME NEW S, NEW s \in Seq(S), NEW h \in Nat, h >= 1, NEW m \in Nat, h + m + 1 <= Len(s)
    PROVE  /\ SubSeq(s, h, h + m + 1) = <<s[h]>> \o SubSeq(s, h + 1, h + m) \o <<s[h + m + 1]>>
           /\ SubSeq(s, h + 1, h + m) \in Seq(S)
<1> DEFINE n == Len(s)
           last == h + m + 1
           middle == SubSeq(s, h + 1, h + m)
           most == SubSeq(s, h + 1, last)
<1>1. n \in Nat /\ DOMAIN s = 1..n /\ h \in 1..n /\ h + 1 \in 1..n /\ last \in h..n /\ last \in (h + 1)..n
      /\ last - 1 = h + m
  BY LenProperties
<1>2. SubSeq(s, h, last) = <<s[h]>> \o most
  <2> HIDE DEF last
  <2> QED
    BY <1>1, SubSeqRecursiveFirst
<1>3. most = middle \o <<s[last]>>
  <2>1. most = SubSeq(s, h + 1, last - 1) \o <<s[last]>>
    <3> HIDE DEF last
    <3> QED
      BY <1>1, SubSeqRecursiveSecond
  <2> HIDE DEF last
  <2> QED
    BY <1>1, <2>1
<1>4. middle \in Seq(S)
  <2> DEFINE a == h + 1
             z == h + m
  <2>1. \A k \in a..z : s[k] \in S
    BY <1>1, ElementOfSeq
  <2>2. a \in Int /\ z \in Int
    OBVIOUS
  <2> HIDE DEF a, z
  <2>3. SubSeq(s, a, z) \in Seq(S)
    BY <2>1, <2>2, SubSeqProperties
  <2> QED
    BY <2>3 DEF a, z
<1>5. s[h] \in S /\ s[last] \in S
  BY <1>1, ElementOfSeq
<1> DEFINE x == s[h]
           y == s[last]
<1> HIDE DEF last, middle, most, x, y
<1>6. <<x>> \in Seq(S) /\ <<y>> \in Seq(S)
  BY <1>5 DEF x, y
<1>7. <<x>> \o (middle \o <<y>>) = (<<x>> \o middle) \o <<y>>
  BY <1>4, <1>6, ConcatAssociative
<1>8. SubSeq(s, h, last) = (<<x>> \o middle) \o <<y>>
  BY <1>2, <1>3, <1>7, Zenon DEF x, y
<1> QED
  BY <1>4, <1>8 DEF last, middle, x, y

\* Words that stand somewhere in a text are a part of it.
LEMMA PartIs ==
    ASSUME NEW S, NEW s \in Seq(S), NEW t \in Seq(S), NEW h \in Nat, h + Len(t) <= Len(s),
           \A k \in 1..Len(t) : t[k] = s[h + k]
    PROVE  SubSeq(s, h + 1, h + Len(t)) = t
<1> DEFINE n == Len(t)
           a == h + 1
           z == h + n
           part == SubSeq(s, a, z)
<1>1. n \in Nat /\ DOMAIN s = 1..Len(s) /\ Len(s) \in Nat /\ a \in Int /\ z \in Int
  BY LenProperties
<1>2. \A k \in a..z : s[k] \in S
  BY <1>1, ElementOfSeq
<1> HIDE DEF n, a, z
<1>3. /\ part \in Seq(S) /\ Len(part) = IF a <= z THEN z - a + 1 ELSE 0
      /\ \A k \in 1..(z - a + 1) : part[k] = s[a + k - 1]
  BY <1>1, <1>2, SubSeqProperties
<1> HIDE DEF part
<1>4. Len(part) = n /\ \A k \in 1..n : part[k] = s[h + k]
  <2>1. z - a + 1 = n /\ (a <= z <=> n # 0)
    BY <1>1 DEF a, z
  <2>2. Len(part) = n
    BY <1>1, <1>3, <2>1
  <2>3. ASSUME NEW k \in 1..n PROVE part[k] = s[h + k]
    <3>1. part[k] = s[a + k - 1] /\ a + k - 1 = h + k
      BY <1>1, <1>3, <2>1 DEF a
    <3> QED
      BY <3>1
  <2> QED
    BY <2>2, <2>3
<1>5. part = t
  <2>1. \A k \in 1..n : part[k] = t[k]
    BY <1>4 DEF n
  <2> QED
    BY <1>3, <1>4, <2>1, SeqEqual DEF n
<1> QED
  BY <1>5 DEF part, n, a, z

\* What a block that is not closed weighs.
LEMMA OpenTextWeight ==
    ASSUME NEW W, NEW k \in 1..3, NEW b, Legible(k, b)
    PROVE  /\ Weight(W, OpenText(k, b)) =
                Weight(W, Opening(b)) + Weight(W, DirectivesText(b)) + Weight(W, Flattened(InsideTexts(k, b)))
           /\ Weight(W, Opening(b)) \in Nat /\ Weight(W, DirectivesText(b)) \in Nat
           /\ Weight(W, Flattened(InsideTexts(k, b))) \in Nat /\ Weight(W, OpenText(k, b)) \in Nat
           /\ Flattened(InsideTexts(k, b)) \in Seq(Spellings)
<1> DEFINE n == Len(b.inside)
           parts == InsideTexts(k, b)
           first == Opening(b)
           second == DirectivesText(b)
           third == Flattened(parts)
<1>1. HasWords(b) /\ n \in Nat /\ parts \in [1..n -> Seq(Spellings)]
  BY TextIs DEF IsRow
<1>2. first \in Seq(Spellings) /\ second \in Seq(Spellings)
  BY <1>1, DirectivesTextIs
<1>3. third \in Seq(Spellings)
  <2> HIDE DEF parts, n
  <2> QED
    BY <1>1, FlattenedType
<1>4. OpenText(k, b) = (first \o second) \o third
  BY DEF OpenText
<1> HIDE DEF first, second, third
<1>5. first \o second \in Seq(Spellings)
  BY <1>2, ConcatProperties
<1>6. /\ Weight(W, first \o second) = Weight(W, first) + Weight(W, second)
      /\ Weight(W, (first \o second) \o third) = Weight(W, first \o second) + Weight(W, third)
  <2>1. \A s, t \in Seq(Spellings) : Weight(W, s \o t) = Weight(W, s) + Weight(W, t)
    BY WeightConcat
  <2> QED
    BY <1>2, <1>3, <1>5, <2>1
<1>7. Weight(W, first) \in Nat /\ Weight(W, second) \in Nat /\ Weight(W, third) \in Nat
  BY <1>2, <1>3, WeightIs
<1>8. Weight(W, OpenText(k, b)) = Weight(W, first) + Weight(W, second) + Weight(W, third)
  BY <1>4, <1>6, Zenon
<1> QED
  BY <1>3, <1>7, <1>8 DEF first, second, third

\* What the parser is in the middle of can be written.
LEMMA StackIs ==
    ASSUME NEW W, NEW blocks, IsStack(blocks)
    PROVE  /\ Len(blocks) \in 0..3 /\ DOMAIN blocks = 1..Len(blocks)
           /\ \A k \in 1..Len(blocks) : Legible(k, blocks[k])
           /\ \A k \in 1..3 : OpenWeight(W, blocks, k) \in Nat
<1>1. Len(blocks) \in 0..3 /\ DOMAIN blocks = 1..Len(blocks)
  <2> DEFINE A == HttpBlocks \cup ServerBlocks \cup LocationBlocks
  <2>1. blocks \in Seq(A) /\ Len(blocks) <= 3
    BY DEF IsStack
  <2> HIDE DEF A
  <2>2. Len(blocks) \in Nat /\ DOMAIN blocks = 1..Len(blocks)
    BY <2>1, LenProperties
  <2> QED
    BY <2>1, <2>2
<1>2. ASSUME NEW k \in 1..Len(blocks) PROVE k \in 1..3 /\ Legible(k, blocks[k])
  <2>1. k \in 1..3 /\ blocks[k] \in Level(k)
    BY <1>1 DEF IsStack
  <2> QED
    BY <2>1, LevelIsLegible
<1>3. ASSUME NEW k \in 1..3 PROVE OpenWeight(W, blocks, k) \in Nat
  <2>1. CASE k \in DOMAIN blocks
    <3>1. Weight(W, OpenText(k, blocks[k])) \in Nat
      BY <1>1, <1>2, <2>1, OpenTextWeight
    <3> QED
      BY <2>1, <3>1 DEF OpenWeight
  <2>2. CASE k \notin DOMAIN blocks
    BY <2>2 DEF OpenWeight
  <2> QED
    BY <2>1, <2>2
<1> QED
  BY <1>1, <1>2, <1>3

\* One depth changes.
LEMMA StackWeightAt ==
    ASSUME NEW W, NEW old, IsStack(old), NEW new, IsStack(new), NEW n \in 1..3,
           \A k \in 1..3 : k # n => OpenWeight(W, new, k) = OpenWeight(W, old, k)
    PROVE  /\ StackWeight(W, old) \in Nat /\ StackWeight(W, new) \in Nat
           /\ StackWeight(W, new) + OpenWeight(W, old, n) = StackWeight(W, old) + OpenWeight(W, new, n)
<1>1. /\ OpenWeight(W, old, 1) \in Nat /\ OpenWeight(W, old, 2) \in Nat /\ OpenWeight(W, old, 3) \in Nat
      /\ OpenWeight(W, new, 1) \in Nat /\ OpenWeight(W, new, 2) \in Nat /\ OpenWeight(W, new, 3) \in Nat
  BY StackIs
<1>2. CASE n = 1
  BY <1>1, <1>2 DEF StackWeight
<1>3. CASE n = 2
  BY <1>1, <1>3 DEF StackWeight
<1>4. CASE n = 3
  BY <1>1, <1>4 DEF StackWeight
<1> QED
  BY <1>2, <1>3, <1>4

\* The innermost block changes, and weighs more or less.
LEMMA ReplacedWeight ==
    ASSUME NEW W, NEW blocks, IsStack(blocks), blocks # <<>>, NEW b \in Level(Len(blocks))
    PROVE  LET n == Len(blocks)
               new == [blocks EXCEPT ![n] = b]
           IN  /\ StackWeight(W, blocks) \in Nat /\ StackWeight(W, new) \in Nat
               /\ StackWeight(W, new) + Weight(W, OpenText(n, blocks[n]))
                    = StackWeight(W, blocks) + Weight(W, OpenText(n, b))
<1> DEFINE n == Len(blocks)
           new == [blocks EXCEPT ![n] = b]
<1>1. n \in 1..3 /\ DOMAIN blocks = 1..n
  <2>1. n # 0
    <3>1. blocks \in Seq(HttpBlocks \cup ServerBlocks \cup LocationBlocks)
      BY DEF IsStack
    <3> QED
      BY <3>1, EmptySeq
  <2>2. n \in 0..3 /\ DOMAIN blocks = 1..n
    BY StackIs
  <2> QED
    BY <2>1, <2>2
<1>2. IsStack(new)
  BY StackReplaced
<1>3. DOMAIN new = 1..n /\ new[n] = b /\ \A k \in 1..n : k # n => new[k] = blocks[k]
  BY <1>1
<1> HIDE DEF n, new
<1>4. ASSUME NEW k \in 1..3, k # n PROVE OpenWeight(W, new, k) = OpenWeight(W, blocks, k)
  BY <1>1, <1>3, <1>4 DEF OpenWeight
<1>5. /\ OpenWeight(W, new, n) = Weight(W, OpenText(n, b))
      /\ OpenWeight(W, blocks, n) = Weight(W, OpenText(n, blocks[n]))
  BY <1>1, <1>3 DEF OpenWeight
<1>6. /\ StackWeight(W, blocks) \in Nat /\ StackWeight(W, new) \in Nat
      /\ StackWeight(W, new) + OpenWeight(W, blocks, n) = StackWeight(W, blocks) + OpenWeight(W, new, n)
  BY <1>1, <1>2, <1>4, StackWeightAt
<1> QED
  BY <1>5, <1>6, Zenon DEF n, new

\* A block is opened.
LEMMA PushedWeight ==
    ASSUME NEW W, NEW blocks, IsStack(blocks), Len(blocks) < 3, NEW b \in Level(Len(blocks) + 1)
    PROVE  /\ StackWeight(W, blocks) \in Nat
           /\ StackWeight(W, Append(blocks, b)) =
                StackWeight(W, blocks) + Weight(W, OpenText(Len(blocks) + 1, b))
<1> DEFINE n == Len(blocks) + 1
           new == Append(blocks, b)
           A == HttpBlocks \cup ServerBlocks \cup LocationBlocks
<1>1. n \in 1..3 /\ DOMAIN blocks = 1..(n - 1)
  <2>1. Len(blocks) \in 0..3 /\ DOMAIN blocks = 1..Len(blocks)
    BY StackIs
  <2> QED
    BY <2>1
<1>2. IsStack(new)
  BY StackPushed
<1>3. DOMAIN new = 1..n /\ new[n] = b /\ \A k \in 1..(n - 1) : new[k] = blocks[k]
  <2>1. blocks \in Seq(A) /\ b \in A
    BY DEF IsStack, Level
  <2>2. Len(blocks) \in Nat
    BY StackIs
  <2> HIDE DEF A
  <2>3. /\ new \in Seq(A) /\ Len(new) = n /\ new[n] = b
        /\ \A k \in 1..Len(blocks) : new[k] = blocks[k]
    BY <2>1, AppendProperties
  <2>4. n - 1 = Len(blocks)
    BY <2>2
  <2> HIDE DEF new, n
  <2>5. DOMAIN new = 1..n
    BY <2>3, LenProperties
  <2> QED
    BY <2>3, <2>4, <2>5
<1> HIDE DEF n, new
<1>4. ASSUME NEW k \in 1..3, k # n PROVE OpenWeight(W, new, k) = OpenWeight(W, blocks, k)
  BY <1>1, <1>3, <1>4 DEF OpenWeight
<1>5. OpenWeight(W, new, n) = Weight(W, OpenText(n, b)) /\ OpenWeight(W, blocks, n) = 0
  <2>1. n \in 1..n /\ n \notin 1..(n - 1)
    BY <1>1
  <2> QED
    BY <1>1, <1>3, <2>1 DEF OpenWeight
<1>6. /\ StackWeight(W, blocks) \in Nat /\ StackWeight(W, new) \in Nat
      /\ StackWeight(W, new) + OpenWeight(W, blocks, n) = StackWeight(W, blocks) + OpenWeight(W, new, n)
  BY <1>1, <1>2, <1>4, StackWeightAt
<1>7. StackWeight(W, new) = StackWeight(W, blocks) + OpenWeight(W, new, n)
  BY <1>5, <1>6
<1> QED
  BY <1>5, <1>6, <1>7, Zenon DEF n, new

\* The innermost block is taken away.
LEMMA PoppedWeight ==
    ASSUME NEW W, NEW blocks, IsStack(blocks), blocks # <<>>
    PROVE  LET n == Len(blocks)
           IN  /\ StackWeight(W, SubSeq(blocks, 1, n - 1)) \in Nat
               /\ StackWeight(W, SubSeq(blocks, 1, n - 1)) + Weight(W, OpenText(n, blocks[n]))
                    = StackWeight(W, blocks)
<1> DEFINE n == Len(blocks)
           new == SubSeq(blocks, 1, n - 1)
<1>1. n \in 1..3 /\ DOMAIN blocks = 1..n
  <2>1. n # 0
    <3>1. blocks \in Seq(HttpBlocks \cup ServerBlocks \cup LocationBlocks)
      BY DEF IsStack
    <3> QED
      BY <3>1, EmptySeq
  <2>2. n \in 0..3 /\ DOMAIN blocks = 1..n
    BY StackIs
  <2> QED
    BY <2>1, <2>2
<1>2. IsStack(new) /\ Len(new) = n - 1 /\ \A k \in 1..Len(new) : new[k] = blocks[k]
  BY StackPopped
<1> HIDE DEF n, new
<1>3. DOMAIN new = 1..(n - 1) /\ \A k \in 1..(n - 1) : new[k] = blocks[k]
  <2>1. DOMAIN new = 1..Len(new)
    BY <1>2, StackIs
  <2> QED
    BY <1>2, <2>1
<1>4. ASSUME NEW k \in 1..3, k # n PROVE OpenWeight(W, new, k) = OpenWeight(W, blocks, k)
  BY <1>1, <1>3, <1>4 DEF OpenWeight
<1>5. OpenWeight(W, blocks, n) = Weight(W, OpenText(n, blocks[n])) /\ OpenWeight(W, new, n) = 0
  <2>1. n \in 1..n /\ n \notin 1..(n - 1)
    BY <1>1
  <2> QED
    BY <1>1, <1>3, <2>1 DEF OpenWeight
<1>6. /\ StackWeight(W, blocks) \in Nat /\ StackWeight(W, new) \in Nat
      /\ StackWeight(W, new) + OpenWeight(W, blocks, n) = StackWeight(W, blocks) + OpenWeight(W, new, n)
  <2>1. IsStack(blocks)
    OBVIOUS
  <2> QED
    BY <1>1, <1>2, <1>4, <2>1, StackWeightAt
<1>7. StackWeight(W, new) + OpenWeight(W, blocks, n) = StackWeight(W, blocks)
  BY <1>5, <1>6
<1> QED
  BY <1>5, <1>6, <1>7, Zenon DEF n, new

\* The parser is in no block.
LEMMA NoWeight == ASSUME NEW W PROVE StackWeight(W, <<>>) = 0
<1>1. DOMAIN <<>> = {}
  OBVIOUS
<1>2. \A k \in 1..3 : OpenWeight(W, <<>>, k) = 0
  BY <1>1 DEF OpenWeight
<1> QED
  BY <1>2 DEF StackWeight

\* A block weighs what one more inside does more than another.
Encloses(W, k, b, d, c) ==
    /\ Weight(W, OpenText(k, b)) \in Nat /\ Weight(W, TextAt(k + 1, c)) \in Nat
    /\ Weight(W, OpenText(k, d)) = Weight(W, OpenText(k, b)) + Weight(W, TextAt(k + 1, c))

\* A block more inside is its text more.
LEMMA InsideWeight ==
    ASSUME NEW W, NEW k \in 1..2, NEW R, NEW b, Legible(k, b), b.inside \in Seq(R), NEW c \in R,
           NEW d, d = GivenInside(b, Append(b.inside, c)), Legible(k, d)
    PROVE  Encloses(W, k, b, d, c)
<1> DEFINE n == Len(b.inside)
           more == Append(b.inside, c)
           old == InsideTexts(k, b)
           new == InsideTexts(k, d)
           inside == b.inside
           text(e) == TextAt(k + 1, e)
<1>1. /\ HasWords(b) /\ old \in [1..n -> Seq(Spellings)]
      /\ new \in [1..Len(d.inside) -> Seq(Spellings)]
  <2>1. k \in 1..3
    OBVIOUS
  <2> QED
    BY <2>1, TextIs
<1>2. n \in Nat /\ DOMAIN inside = 1..n
  BY LenProperties
<1>3. /\ more \in Seq(R) /\ Len(more) = n + 1 /\ more[n + 1] = c
      /\ \A m \in 1..n : more[m] = inside[m]
  BY AppendProperties
<1>4. DOMAIN more = 1..(n + 1)
  <2> HIDE DEF more, n
  <2> QED
    BY <1>3, LenProperties
<1>5. /\ HasFields(b) /\ d.inside = more /\ d.kind = b.kind /\ d.name = b.name
      /\ d.set = b.set /\ d.errorPages = b.errorPages
  <2>1. HasFields(b)
    BY <1>1 DEF HasWords
  <2>2. d = GivenInside(b, more)
    OBVIOUS
  <2> HIDE DEF more
  <2> QED
    BY <2>1, <2>2, ReplacedFields
<1>6. Opening(d) = Opening(b) /\ DirectivesText(d) = DirectivesText(b)
  BY <1>5 DEF Opening, DirectivesText, DirectiveTexts, ErrorPageTexts
<1>7. /\ old = [m \in 1..n |-> text(inside[m])] /\ new = [m \in 1..(n + 1) |-> text(more[m])]
  BY <1>2, <1>4, <1>5 DEF InsideTexts
<1>8. new \in [1..(n + 1) -> Seq(Spellings)]
  BY <1>1, <1>3, <1>5
<1> HIDE DEF n, more, old, new, inside, text
<1>9. \A m \in 1..n : new[m] = old[m]
  <2>1. \A m \in 1..n : m \in 1..(n + 1)
    BY <1>2
  <2> QED
    BY <1>3, <1>7, <2>1
<1>10. new[n + 1] = text(c)
  <2>1. n + 1 \in 1..(n + 1)
    BY <1>2
  <2> QED
    BY <1>3, <1>7, <2>1
<1>11. text(c) \in Seq(Spellings)
  <2>1. n + 1 \in 1..(n + 1)
    BY <1>2
  <2> QED
    BY <1>8, <1>10, <2>1
<1>12. Flattened(new) = Flattened(old) \o text(c)
  <2>1. Flattened(new) = Flattened(old) \o new[n + 1]
    BY <1>1, <1>2, <1>8, <1>9, FlattenedAppend
  <2> QED
    BY <1>10, <2>1, Zenon
<1>13. Flattened(old) \in Seq(Spellings)
  BY <1>1, <1>2, FlattenedType
<1>14. Weight(W, Flattened(new)) = Weight(W, Flattened(old)) + Weight(W, text(c))
  <2>1. \A s, t \in Seq(Spellings) : Weight(W, s \o t) = Weight(W, s) + Weight(W, t)
    BY WeightConcat
  <2>2. Weight(W, Flattened(old) \o text(c)) = Weight(W, Flattened(old)) + Weight(W, text(c))
    BY <1>11, <1>13, <2>1
  <2> QED
    BY <1>12, <2>2, Zenon
<1>15. Weight(W, text(c)) \in Nat /\ Weight(W, Flattened(old)) \in Nat
  BY <1>11, <1>13, WeightIs
<1>16. /\ Weight(W, OpenText(k, b)) =
             Weight(W, Opening(b)) + Weight(W, DirectivesText(b)) + Weight(W, Flattened(old))
       /\ Weight(W, OpenText(k, d)) =
             Weight(W, Opening(d)) + Weight(W, DirectivesText(d)) + Weight(W, Flattened(new))
       /\ Weight(W, Opening(b)) \in Nat /\ Weight(W, DirectivesText(b)) \in Nat
  <2>1. k \in 1..3
    OBVIOUS
  <2> QED
    BY <2>1, OpenTextWeight DEF old, new
<1>17. /\ Weight(W, OpenText(k, d)) = Weight(W, OpenText(k, b)) + Weight(W, text(c))
       /\ Weight(W, OpenText(k, b)) \in Nat
  BY <1>6, <1>14, <1>15, <1>16
<1> QED
  BY <1>15, <1>17 DEF text, Encloses

\* A part of a text between two words.
StandsBetween(s, h, z, t) == SubSeq(s, h, z) = <<s[h]>> \o t \o <<s[z]>>

\* Where the words of a text are those between two others, the part is so made.
LEMMA BracketedPart ==
    ASSUME NEW S, NEW s \in Seq(S), NEW t \in Seq(S), NEW h \in Nat, h >= 1,
           NEW z, z = h + Len(t) + 1, z <= Len(s), \A k \in 1..Len(t) : t[k] = s[h + k]
    PROVE  StandsBetween(s, h, z, t)
<1> DEFINE n == Len(t)
<1>1. n \in Nat /\ h + n <= Len(s)
  <2>1. n \in Nat /\ Len(s) \in Nat
    BY LenProperties
  <2> QED
    BY <2>1
<1>2. SubSeq(s, h + 1, h + n) = t
  BY <1>1, PartIs
<1> HIDE DEF n
<1>3. SubSeq(s, h, h + n + 1) = <<s[h]>> \o SubSeq(s, h + 1, h + n) \o <<s[h + n + 1]>>
  BY <1>1, Bracketed DEF n
<1> QED
  BY <1>2, <1>3, Zenon DEF n, StandsBetween

\* Words after others.
LEMMA MoreWords ==
    ASSUME NEW W, NEW s \in Seq(Spellings), NEW t \in Seq(Spellings)
    PROVE  /\ s \o t \in Seq(Spellings) /\ Weight(W, s \o t) = Weight(W, s) + Weight(W, t)
           /\ Weight(W, s) \in Nat /\ Weight(W, t) \in Nat
<1>1. s \o t \in Seq(Spellings)
  BY ConcatProperties
<1>2. Weight(W, s) \in Nat /\ Weight(W, t) \in Nat
  BY WeightIs
<1>3. \A x, y \in Seq(Spellings) : Weight(W, x \o y) = Weight(W, x) + Weight(W, y)
  BY WeightConcat
<1> QED
  BY <1>1, <1>2, <1>3

\* There is room for a block in one that is not the innermost possible.
LEMMA Deeper == \A x \in 0..3 : x < 3 => x + 1 \in 1..3
  OBVIOUS

\* A block that is opened weighs what its first words do.
LEMMA OpenedWeight ==
    ASSUME NEW W, NEW blocks, IsStack(blocks), Len(blocks) < 3,
           NEW kind \in {"http", "server", "location"}, NEW name \in Seq(Values \cup {"", "="}),
           Block(kind, name) \in Level(Len(blocks) + 1)
    PROVE  /\ StackWeight(W, blocks) \in Nat
           /\ StackWeight(W, Append(blocks, Block(kind, name))) =
                StackWeight(W, blocks) + Weight(W, <<kind>> \o name \o <<"{">>)
<1> DEFINE b == Block(kind, name)
           n == Len(blocks) + 1
<1>1. n \in 1..3
  <2> HIDE DEF b, n
  <2>1. Len(blocks) \in 0..3
    BY StackIs
  <2>2. Len(blocks) + 1 \in 1..3
    BY <2>1, Deeper, Zenon
  <2> QED
    BY <2>2 DEF n
<1>2. OpenText(n, b) = <<kind>> \o name \o <<"{">>
  BY <1>1, NewBlockText
<1> HIDE DEF b
<1>3. /\ StackWeight(W, blocks) \in Nat
      /\ StackWeight(W, Append(blocks, b)) = StackWeight(W, blocks) + Weight(W, OpenText(n, b))
  BY PushedWeight DEF b
<1> QED
  BY <1>2, <1>3, Zenon DEF b

\* Three words one by one.
LEMMA ThreeWords == ASSUME NEW x, NEW y, NEW z PROVE <<x>> \o <<y>> \o <<z>> = <<x, y, z>>
<1> DEFINE S == {x, y, z}
           two == <<x>> \o <<y>>
           three == two \o <<z>>
           row == <<x, y, z>>
<1>1. /\ <<x>> \in Seq(S) /\ <<y>> \in Seq(S) /\ <<z>> \in Seq(S) /\ row \in Seq(S)
      /\ Len(<<x>>) = 1 /\ Len(<<y>>) = 1 /\ Len(<<z>>) = 1 /\ Len(row) = 3
      /\ <<x>>[1] = x /\ <<y>>[1] = y /\ <<z>>[1] = z /\ row[1] = x /\ row[2] = y /\ row[3] = z
  OBVIOUS
<1> HIDE DEF S, row
<1>2. two \in Seq(S) /\ Len(two) = 2 /\ two[1] = x /\ two[2] = y
  BY <1>1, ConcatProperties
<1> HIDE DEF two
<1>3. three \in Seq(S) /\ Len(three) = 3 /\ three[1] = x /\ three[2] = y /\ three[3] = z
  BY <1>1, <1>2, ConcatProperties
<1> HIDE DEF three
<1>4. \A k \in 1..3 : three[k] = row[k]
  BY <1>1, <1>3
<1>5. three = row
  BY <1>1, <1>3, <1>4, SeqEqual
<1> QED
  BY <1>5 DEF row, three, two

\* One block weighs a text more than another.
Heavier(W, k, b, c, text) ==
    /\ Weight(W, OpenText(k, b)) \in Nat /\ Weight(W, text) \in Nat
    /\ Weight(W, OpenText(k, c)) = Weight(W, OpenText(k, b)) + Weight(W, text)

\* A block with a directive more weighs what the directive does.
LEMMA GivenWeight ==
    ASSUME NEW W, NEW k \in 1..3, NEW b, Legible(k, b), NEW d, NEW words \in Seq(Values),
           d = "error_page" \/ d \in DirectiveNames \ DOMAIN b.set,
           NEW c, c = WithDirective(b, d, words), Legible(k, c)
    PROVE  Heavier(W, k, b, c, DirectiveText(d, words))
<1>1. HasWords(b)
  BY TextIs
<1>2. /\ c.kind = b.kind /\ c.name = b.name /\ c.inside = b.inside
      /\ Weight(W, DirectivesText(c)) = Weight(W, DirectivesText(b)) + Weight(W, DirectiveText(d, words))
  BY <1>1, WithDirectiveText
<1>3. Opening(c) = Opening(b) /\ InsideTexts(k, c) = InsideTexts(k, b)
  BY <1>2 DEF Opening, InsideTexts
<1>4. /\ Weight(W, OpenText(k, b)) =
            Weight(W, Opening(b)) + Weight(W, DirectivesText(b)) + Weight(W, Flattened(InsideTexts(k, b)))
      /\ Weight(W, OpenText(k, c)) =
            Weight(W, Opening(c)) + Weight(W, DirectivesText(c)) + Weight(W, Flattened(InsideTexts(k, c)))
      /\ Weight(W, Opening(b)) \in Nat /\ Weight(W, DirectivesText(b)) \in Nat
      /\ Weight(W, Flattened(InsideTexts(k, b))) \in Nat
  BY OpenTextWeight
<1>5. Weight(W, DirectiveText(d, words)) \in Nat
  <2>1. d \in DirectiveNames \cup {"error_page"}
    OBVIOUS
  <2>2. DirectiveText(d, words) \in Seq(Spellings)
    BY <2>1, DirectiveTextIs
  <2> QED
    BY <2>2, WeightIs
<1> DEFINE rest == Flattened(InsideTexts(k, b))
           text == DirectiveText(d, words)
<1>6. Weight(W, OpenText(k, c)) = Weight(W, Opening(b)) + Weight(W, DirectivesText(c)) + Weight(W, rest)
  BY <1>3, <1>4, Zenon
<1> HIDE DEF rest, text
<1>7. /\ Weight(W, OpenText(k, c)) = Weight(W, OpenText(k, b)) + Weight(W, text)
      /\ Weight(W, OpenText(k, b)) \in Nat
  BY <1>2, <1>4, <1>5, <1>6 DEF rest, text
<1> QED
  BY <1>5, <1>7 DEF text, Heavier

\* The default listen directive, if the block is to have it.
ListenWords(yes) == IF yes THEN <<"listen", "80", ";">> ELSE <<>>
WithListen(yes, b) == IF yes THEN WithDirective(b, "listen", <<"80">>) ELSE b

\* What a block that is closed weighs more than when it was open.
EndsWith(W, k, b, c, text) ==
    /\ Weight(W, OpenText(k, b)) \in Nat /\ Weight(W, text) \in Nat
    /\ Weight(W, TextAt(k, c)) = Weight(W, OpenText(k, b)) + Weight(W, text)

\* A block that ends weighs its brace, and the directive it gets, more.
LEMMA EndedWeight ==
    ASSUME NEW W, NEW k \in 1..3, NEW b, Legible(k, b), NEW yes, yes => "listen" \notin DOMAIN b.set,
           NEW c, c = WithListen(yes, b), Legible(k, c)
    PROVE  /\ <<"}">> \o ListenWords(yes) \in Seq(Spellings)
           /\ EndsWith(W, k, b, c, <<"}">> \o ListenWords(yes))
<1> DEFINE words == ListenWords(yes)
           brace == <<"}">>
<1>1. brace \in Seq(Spellings)
  <2>1. "}" \in Spellings
    BY DEF Spellings
  <2> QED
    BY <2>1, OneWord
<1>2. /\ words \in Seq(Spellings) /\ Weight(W, words) \in Nat /\ Weight(W, OpenText(k, b)) \in Nat
      /\ Weight(W, OpenText(k, c)) = Weight(W, OpenText(k, b)) + Weight(W, words)
  <2>1. CASE yes
    <3> DEFINE eighty == <<"80">>
    <3>1. eighty \in Seq(Values)
      BY StartupAssumption
    <3>2. "listen" \in DirectiveNames /\ "listen" # "error_page"
      BY DEF DirectiveNames, Order
    <3>3. words = DirectiveText("listen", eighty)
      <4>1. ListenWords(yes) = <<"listen", "80", ";">>
        BY <2>1 DEF ListenWords
      <4>2. DirectiveText("listen", eighty) = <<"listen">> \o <<"80">> \o <<";">>
        BY DEF DirectiveText, Ending
      <4>3. <<"listen">> \o <<"80">> \o <<";">> = <<"listen", "80", ";">>
        <5> DEFINE x == "listen"
                   y == "80"
                   z == ";"
        <5> HIDE DEF x, y, z
        <5>1. <<x>> \o <<y>> \o <<z>> = <<x, y, z>>
          BY ThreeWords
        <5> QED
          BY <5>1 DEF x, y, z
      <4> QED
        BY <4>1, <4>2, <4>3, Zenon
    <3> DEFINE d == "listen"
    <3>4. c = WithDirective(b, d, eighty)
      BY <2>1 DEF WithListen
    <3>5. d \in DirectiveNames \ DOMAIN b.set
      BY <2>1, <3>2
    <3> HIDE DEF d, eighty, words
    <3>6. DirectiveText(d, eighty) \in Seq(Spellings)
      BY <3>1, <3>5, DirectiveTextIs
    <3>7. Heavier(W, k, b, c, DirectiveText(d, eighty))
      BY <3>1, <3>4, <3>5, GivenWeight
    <3> QED
      BY <3>3, <3>6, <3>7, Zenon DEF d, Heavier
  <2>2. CASE ~yes
    <3>1. words = <<>> /\ c = b
      BY <2>2 DEF ListenWords, WithListen
    <3>2. Weight(W, words) = 0 /\ words \in Seq(Spellings)
      BY <3>1, WeightEmpty, EmptySeq
    <3>3. Weight(W, OpenText(k, b)) \in Nat
      BY OpenTextWeight
    <3> QED
      BY <3>1, <3>2, <3>3
  <2> QED
    BY <2>1, <2>2
<1>3. TextAt(k, c) = OpenText(k, c) \o brace /\ OpenText(k, c) \in Seq(Spellings)
  BY TextIs
<1> HIDE DEF words, brace
<1>4. Weight(W, TextAt(k, c)) = Weight(W, OpenText(k, c)) + Weight(W, brace)
  <2>1. Weight(W, OpenText(k, c) \o brace) = Weight(W, OpenText(k, c)) + Weight(W, brace)
    BY <1>1, <1>3, MoreWords
  <2> QED
    BY <1>3, <2>1, Zenon
<1>5. /\ brace \o words \in Seq(Spellings) /\ Weight(W, brace \o words) = Weight(W, brace) + Weight(W, words)
      /\ Weight(W, brace) \in Nat
  BY <1>1, <1>2, MoreWords
<1>6. /\ Weight(W, TextAt(k, c)) = Weight(W, OpenText(k, b)) + Weight(W, brace \o words)
      /\ Weight(W, brace \o words) \in Nat
  BY <1>2, <1>4, <1>5
<1> QED
  BY <1>2, <1>5, <1>6 DEF words, brace, EndsWith

\* The tokens are words that blocks may be written with.
LEMMA TokensAre ==
    ASSUME SyntaxInv
    PROVE  /\ tokens \in Seq(Spellings) /\ tokens \in Seq(Words) /\ Len(tokens) \in Nat
           /\ DOMAIN tokens = 1..Len(tokens) /\ token_index \in Nat /\ token_index >= 1
           /\ \A k : Token(k) # "" => k \in 1..Len(tokens) /\ tokens[k] = Token(k)
           /\ IsStack(contexts)
<1>1. tokens \in Seq(Words) /\ token_index \in 1..(Len(tokens) + 1) /\ IsStack(contexts)
  BY DEF SyntaxInv
<1>2. Words \subseteq Spellings
  BY DEF Words, Spellings
<1>3. tokens \in Seq(Spellings)
  BY <1>1, <1>2, SeqMonotonic
<1>4. Len(tokens) \in Nat /\ DOMAIN tokens = 1..Len(tokens)
  BY <1>1, LenProperties
<1>5. \A k : Token(k) # "" => k \in 1..Len(tokens) /\ tokens[k] = Token(k)
  BY <1>4 DEF Token
<1>6. token_index \in Nat /\ token_index >= 1
  BY <1>1, <1>4
<1> QED
  BY <1>1, <1>3, <1>4, <1>5, <1>6, Zenon

\* A directive ends with the token that ends it.
LEMMA EndIs ==
    ASSUME tokens \in Seq(Words), NEW k \in DOMAIN tokens, EndOfDirective(k) <= Len(tokens)
    PROVE  /\ tokens[EndOfDirective(k)] = Ending(tokens[k])
           /\ \A m \in (k + 1)..(EndOfDirective(k) - 1) : tokens[m] # Ending(tokens[k])
<1> DEFINE ends == {m \in (k + 1)..Len(tokens) : tokens[m] = Ending(tokens[k])}
           end == EndOfDirective(k)
<1>1. Len(tokens) \in Nat /\ k \in 1..Len(tokens)
  OBVIOUS
<1>2. end = IF ends = {} THEN Len(tokens) + 1 ELSE CHOOSE m \in ends : \A n \in ends : m <= n
  BY Zenon DEF EndOfDirective, Ending
<1>3. ends # {}
  <2> HIDE DEF ends, end
  <2> QED
    BY <1>1, <1>2 DEF end
<1>4. end \in ends /\ \A n \in ends : end <= n
  <2>1. ends \subseteq Nat
    <3>1. (k + 1)..Len(tokens) \subseteq Nat
      BY <1>1
    <3> QED
      BY <3>1
  <2> HIDE DEF ends, end
  <2>2. \E m \in ends : \A n \in ends : m <= n
    BY <1>3, <2>1, LeastNatural
  <2> QED
    BY <1>2, <1>3, <2>2
<1> DEFINE last == Ending(tokens[k])
<1> HIDE DEF end, last
<1>5. tokens[end] = last
  BY <1>4 DEF last
<1>6. ASSUME NEW m \in (k + 1)..(end - 1) PROVE tokens[m] # last
  <2>1. m \in (k + 1)..Len(tokens) /\ ~(end <= m)
    BY <1>1, <1>4
  <2>2. m \notin ends
    BY <1>4, <2>1
  <2> QED
    BY <2>1, <2>2 DEF last
<1> QED
  BY <1>5, <1>6 DEF end, last

\* The words of a piece of the file are those the blocks grow by.
LEMMA ReadWords ==
    ASSUME WordsInv, NEW piece \in Seq(Spellings), parsed' = parsed \o piece,
           contexts' # <<>> => httpContext' = Unwritten, parser' = "parsed" => contexts' = <<>>,
           \A W \in SUBSET Spellings :
             StackWeight(W, contexts') + ClosedWeight(W, httpContext')
               = StackWeight(W, contexts) + ClosedWeight(W, httpContext) + Weight(W, piece)
    PROVE  WordsInv'
<1>1. parsed \in Seq(Spellings)
  BY DEF WordsInv
<1>2. parsed' \in Seq(Spellings)
  BY <1>1, MoreWords
<1>3. ASSUME NEW W \in SUBSET Spellings
      PROVE  Weight(W, parsed') = StackWeight(W, contexts') + ClosedWeight(W, httpContext')
  <2>1. Weight(W, parsed) = StackWeight(W, contexts) + ClosedWeight(W, httpContext)
    BY DEF WordsInv
  <2>2. Weight(W, parsed') = Weight(W, parsed) + Weight(W, piece)
    BY <1>1, MoreWords
  <2>3. StackWeight(W, contexts') + ClosedWeight(W, httpContext')
          = Weight(W, parsed) + Weight(W, piece)
    BY <2>1
  <2> QED
    BY <2>2, <2>3
<1> QED
  BY <1>2, <1>3 DEF WordsInv

\* The words that open the http block.
LEMMA OpenHttpWords == SyntaxInv /\ WordsInv /\ OpenHttp => WordsInv'
<1> SUFFICES ASSUME SyntaxInv, WordsInv, OpenHttp PROVE WordsInv'
  OBVIOUS
<1> DEFINE h == token_index
           words == tokens
           b == Block("http", <<>>)
           piece == <<"http">> \o <<>> \o <<"{">>
<1>1. /\ contexts = <<>> /\ httpContext = Unwritten /\ contexts' = <<b>>
      /\ httpContext' = Unwritten /\ parser = "parsing" /\ parser' = parser
      /\ Token(h) = "http" /\ Token(h + 1) = "{"
      /\ parsed' = parsed \o SubSeq(words, h, h + 2 - 1)
  BY DEF OpenHttp, AtFileLevel, Parse, currentToken
<1>2. /\ words \in Seq(Spellings) /\ h \in Nat /\ h >= 1 /\ Len(words) \in Nat
      /\ h + 1 \in 1..Len(words) /\ words[h] = "http" /\ words[h + 1] = "{"
  BY <1>1, TokensAre
<1> HIDE DEF words, h
<1>3. SubSeq(words, h, h + 2 - 1) = piece
  <2> DEFINE t == <<>>
  <2>1. t \in Seq(Spellings) /\ Len(t) = 0
    BY EmptySeq
  <2> HIDE DEF t, b, piece
  <2>2. \A k \in 1..Len(t) : t[k] = words[h + k]
    BY <2>1, NoNumbers
  <2> DEFINE z == h + 1
  <2>3. h \in Nat /\ z \in 1..Len(words) /\ Len(words) \in Nat
    BY <1>2
  <2>4. h + 0 + 1 = z /\ h + 2 - 1 = z
    BY ONLY <2>3
  <2>5. z <= Len(words)
    BY ONLY <2>3
  <2>6. z = h + Len(t) + 1
    BY <2>1, <2>4, Zenon
  <2>7. words \in Seq(Spellings) /\ h >= 1 /\ words[h] = "http" /\ words[z] = "{"
    BY <1>2
  <2> HIDE DEF z
  <2>8. StandsBetween(words, h, z, t)
    BY <2>1, <2>2, <2>3, <2>5, <2>6, <2>7, BracketedPart
  <2> QED
    BY <2>4, <2>7, <2>8, Zenon DEF t, piece, StandsBetween
<1>4. <<>> \in Seq(Values \cup {"", "="}) /\ <<>> \in Seq(HttpBlocks \cup ServerBlocks \cup LocationBlocks)
  BY EmptySeq
<1>5. piece \in Seq(Spellings)
  <2> DEFINE name == <<>>
             kind == "http"
  <2>1. name \in Seq(Values \cup {"", "="}) /\ kind \in {"http", "server", "location"} /\ 1 \in 1..3
    BY <1>4
  <2> HIDE DEF name, kind
  <2>2. <<kind>> \o name \o <<"{">> \in Seq(Spellings)
    BY <2>1, NewBlockText
  <2> QED
    BY <2>2 DEF name, kind
<1>6. ASSUME NEW W PROVE StackWeight(W, <<b>>) = StackWeight(W, <<>>) + Weight(W, piece)
  <2> DEFINE blocks == <<>>
             kind == "http"
             name == <<>>
  <2>1. b \in HttpBlocks
    BY <1>4, NewBlock DEF HttpBlocks
  <2>2. IsStack(blocks) /\ Len(blocks) < 3 /\ Len(blocks) + 1 = 1 /\ Append(blocks, b) = <<b>>
    <3>1. DOMAIN <<>> = {} /\ Len(<<>>) = 0
      OBVIOUS
    <3>2. IsStack(blocks)
      BY <1>4, <3>1 DEF IsStack
    <3> HIDE DEF b
    <3>3. Append(blocks, b) = <<b>>
      OBVIOUS
    <3> QED
      BY <3>1, <3>2, <3>3
  <2>3. /\ name \in Seq(Values \cup {"", "="}) /\ kind \in {"http", "server", "location"}
        /\ Block(kind, name) \in Level(Len(blocks) + 1)
    BY <1>4, <2>1, <2>2 DEF Level
  <2> HIDE DEF blocks, kind, name
  <2>4. StackWeight(W, Append(blocks, Block(kind, name))) =
          StackWeight(W, blocks) + Weight(W, <<kind>> \o name \o <<"{">>)
    BY <2>2, <2>3, OpenedWeight
  <2> QED
    BY <2>2, <2>4 DEF blocks, kind, name
<1> HIDE DEF b, piece
<1>7. ASSUME NEW W \in SUBSET Spellings
      PROVE  StackWeight(W, contexts') + ClosedWeight(W, httpContext')
               = StackWeight(W, contexts) + ClosedWeight(W, httpContext) + Weight(W, piece)
  <2>1. ClosedWeight(W, Unwritten) = 0
    BY DEF ClosedWeight
  <2>2. Weight(W, piece) \in Nat /\ StackWeight(W, <<>>) = 0
    BY <1>5, WeightIs, NoWeight
  <2>3. StackWeight(W, <<b>>) + 0 = StackWeight(W, <<>>) + 0 + Weight(W, piece)
    BY <1>6, <2>2
  <2> QED
    BY <1>1, <2>1, <2>3, Zenon
<1> QED
  BY <1>1, <1>3, <1>5, <1>7, ReadWords

\* The arguments are the tokens up to the end.
LEMMA ArgumentsAt ==
    ASSUME tokens \in Seq(Words), NEW k \in DOMAIN tokens, EndOfDirective(k) <= Len(tokens)
    PROVE  \A m \in 1..Len(Arguments(k)) : Arguments(k)[m] = tokens[k + m]
<1> DEFINE end == EndOfDirective(k)
           words == Arguments(k)
           a == k + 1
           z == end - 1
<1>1. Len(tokens) \in Nat /\ k \in 1..Len(tokens) /\ end \in (k + 1)..Len(tokens)
      /\ k + Len(words) + 2 = end + 1 /\ words \in Seq(Words)
  BY ArgumentsAre
<1>2. a \in Int /\ z \in Int /\ \A m \in a..z : tokens[m] \in Words
  BY <1>1
<1>3. words = SubSeq(tokens, a, z)
  BY DEF Arguments
<1>4. Len(words) \in Nat
  BY <1>1, LenProperties
<1> HIDE DEF end, words, a, z
<1>5. \A m \in 1..(z - a + 1) : SubSeq(tokens, a, z)[m] = tokens[a + m - 1]
  BY <1>2, SubSeqProperties
<1>6. z - a + 1 = Len(words)
  <2> DEFINE n == Len(words)
  <2>1. n \in Nat /\ end \in Int /\ k \in Nat /\ k + n + 2 = end + 1
    BY <1>1, <1>4
  <2> HIDE DEF n
  <2>2. end - 1 - (k + 1) + 1 = n
    BY ONLY <2>1
  <2> QED
    BY <2>2 DEF a, z, n
<1>7. ASSUME NEW m \in 1..Len(words) PROVE words[m] = tokens[k + m]
  <2>1. words[m] = tokens[a + m - 1]
    BY <1>3, <1>5, <1>6, Zenon
  <2>2. a + m - 1 = k + m
    BY <1>1, <1>4 DEF a
  <2> QED
    BY <2>1, <2>2, Zenon
<1> QED
  BY <1>7 DEF words

\* The words that open a block.
LEMMA OpenBlockWords == SyntaxInv /\ WordsInv /\ OpenBlock /\ SyntaxInv' => WordsInv'
<1> SUFFICES ASSUME SyntaxInv, WordsInv, OpenBlock, SyntaxInv' PROVE WordsInv'
  OBVIOUS
<1> DEFINE h == token_index
           words == tokens
           kind == Inner[Top.kind]
           name == BlockName
           b == Block(kind, name)
           blocks == contexts
           n == Len(blocks)
           piece == <<kind>> \o name \o <<"{">>
           z == h + Len(name) + 1
<1>1. /\ blocks # <<>> /\ contexts' = Append(blocks, b) /\ httpContext' = httpContext
      /\ parser = "parsing" /\ parser' = parser /\ Token(h) = kind
      /\ Token(h + 1 + Len(name)) = "{"
      /\ parsed' = parsed \o SubSeq(words, h, h + (2 + Len(name)) - 1)
  BY DEF OpenBlock, OpensBlock, InBlock, Parse, currentToken
<1>2. IsStack(blocks) /\ IsStack(Append(blocks, b)) /\ httpContext = Unwritten
  <2>1. IsStack(contexts) /\ IsStack(contexts')
    BY DEF SyntaxInv
  <2> QED
    BY <1>1, <2>1, Zenon DEF WordsInv
<1>3. /\ n < 3 /\ n \in 0..3 /\ b \in Level(n + 1) /\ kind \in {"http", "server", "location"}
      /\ name \in Seq(Values \cup {"", "="})
  <2> DEFINE all == Append(blocks, b)
             S == Spellings \cup {b} \cup HttpBlocks \cup ServerBlocks \cup LocationBlocks
  <2>1. blocks \in Seq(S) /\ b \in S
    <3>1. blocks \in Seq(HttpBlocks \cup ServerBlocks \cup LocationBlocks)
      BY <1>2 DEF IsStack
    <3>2. HttpBlocks \cup ServerBlocks \cup LocationBlocks \subseteq S
      OBVIOUS
    <3> QED
      BY <3>1, <3>2, SeqMonotonic
  <2> HIDE DEF S, b
  <2>2. Len(all) = n + 1 /\ all[n + 1] = b
    BY <2>1, AppendProperties
  <2>3. Len(all) \in 0..3 /\ DOMAIN all = 1..Len(all) /\ n \in 0..3
    BY <1>2, StackIs
  <2> HIDE DEF all, n
  <2>4. n < 3 /\ n + 1 \in 1..3 /\ n + 1 \in DOMAIN all
    BY <2>2, <2>3
  <2>5. b \in Level(n + 1)
    BY <1>2, <2>2, <2>4 DEF IsStack, all
  <2>6. Legible(n + 1, b)
    BY <2>4, <2>5, LevelIsLegible
  <2>7. HasWords(b)
    BY <2>4, <2>6, TextIs
  <2>8. b.kind = kind /\ b.name = name
    BY DEF b, Block
  <2> HIDE DEF kind, name
  <2>9. kind \in {"http", "server", "location"} /\ name \in Seq(Values \cup {"", "="})
    BY <2>7, <2>8 DEF HasWords
  <2> QED
    BY <2>3, <2>4, <2>5, <2>9
<1>4. /\ words \in Seq(Spellings) /\ h \in Nat /\ h >= 1 /\ Len(words) \in Nat
      /\ \A k : Token(k) # "" => k \in 1..Len(words) /\ words[k] = Token(k)
      /\ DOMAIN words = 1..Len(words)
  BY TokensAre
<1>5. Len(name) \in Nat /\ \A k \in 1..Len(name) : name[k] = Token(h + k)
  <2>1. Len(name) \in Nat
    BY <1>3, LenProperties
  <2>2. CASE name = <<>>
    BY <2>1, <2>2
  <2>3. CASE name # <<>> /\ Token(h + 1) = "="
    <3>1. name = <<Token(h + 1), Token(h + 2)>>
      BY <2>3 DEF BlockName, LocationName
    <3> HIDE DEF name, h
    <3>2. Len(name) = 2 /\ name[1] = Token(h + 1) /\ name[2] = Token(h + 2)
      BY <3>1
    <3>3. \A k \in 1..2 : k = 1 \/ k = 2
      OBVIOUS
    <3> QED
      BY <2>1, <3>2, <3>3
  <2>4. CASE name # <<>> /\ Token(h + 1) # "="
    <3>1. name = <<Token(h + 1)>>
      BY <2>4 DEF BlockName, LocationName
    <3> HIDE DEF name, h
    <3>2. Len(name) = 1 /\ name[1] = Token(h + 1)
      BY <3>1
    <3>3. \A k \in 1..1 : k = 1
      OBVIOUS
    <3> QED
      BY <2>1, <3>2, <3>3
  <2> QED
    BY <2>2, <2>3, <2>4
<1>6. kind # ""
  BY <1>3
<1>7. piece \in Seq(Spellings)
  <2>1. 1 \in 1..3
    OBVIOUS
  <2> HIDE DEF kind, name
  <2> QED
    BY <1>3, <2>1, NewBlockText
<1> HIDE DEF h, words, kind, name, blocks, n
<1>8. SubSeq(words, h, h + (2 + Len(name)) - 1) = piece
  <2> DEFINE m == Len(name)
  <2>1. h \in Nat /\ m \in Nat /\ Len(words) \in Nat
    BY <1>4, <1>5
  <2> HIDE DEF m
  <2>2. h + (2 + m) - 1 = h + m + 1 /\ h + 1 + m = h + m + 1
    BY ONLY <2>1
  <2>3. Token(z) = "{" /\ h + (2 + Len(name)) - 1 = z
    BY <1>1, <2>2, Zenon DEF m
  <2>4. z \in 1..Len(words) /\ words[z] = "{" /\ words[h] = kind
    BY <1>1, <1>4, <1>6, <2>3
  <2>5. z \in 1..Len(words)
    BY <2>4
  <2>6. ASSUME NEW k \in 1..m PROVE name[k] = words[h + k]
    <3>1. z = h + m + 1
      BY DEF m
    <3>2. h + k \in 1..Len(words)
      <4> HIDE DEF z
      <4> QED
        BY <2>1, <2>5, <3>1
    <3>3. name[k] = Token(h + k)
      BY <1>5 DEF m
    <3> QED
      BY <1>4, <3>2, <3>3 DEF Token, words
  <2>7. z = h + Len(name) + 1 /\ z <= Len(words)
    <3>1. z <= Len(words)
      <4> HIDE DEF z
      <4> QED
        BY <2>1, <2>5
    <3> QED
      BY <3>1
  <2>8. name \in Seq(Spellings)
    <3>1. Values \cup {"", "="} \subseteq Spellings
      BY DEF Spellings
    <3> QED
      BY <1>3, <3>1, SeqMonotonic
  <2> HIDE DEF z
  <2>9. StandsBetween(words, h, z, name)
    BY <1>4, <2>6, <2>7, <2>8, BracketedPart DEF m
  <2> QED
    BY <2>3, <2>4, <2>9, Zenon DEF StandsBetween
<1> HIDE DEF piece, b, z
<1>9. ASSUME NEW W \in SUBSET Spellings
      PROVE  StackWeight(W, contexts') + ClosedWeight(W, httpContext')
               = StackWeight(W, contexts) + ClosedWeight(W, httpContext) + Weight(W, piece)
  <2>1. ClosedWeight(W, Unwritten) = 0
    BY DEF ClosedWeight
  <2>2. Weight(W, piece) \in Nat
    BY <1>7, WeightIs
  <2>3. /\ StackWeight(W, blocks) \in Nat
        /\ StackWeight(W, Append(blocks, b)) = StackWeight(W, blocks) + Weight(W, piece)
    <3>1. IsStack(blocks) /\ Len(blocks) < 3 /\ Block(kind, name) \in Level(Len(blocks) + 1)
      BY <1>2, <1>3 DEF n, b
    <3> QED
      BY <1>3, <3>1, OpenedWeight DEF b, piece
  <2>4. StackWeight(W, Append(blocks, b)) + 0 = StackWeight(W, blocks) + 0 + Weight(W, piece)
    BY <2>2, <2>3
  <2> QED
    BY <1>1, <1>2, <2>1, <2>4, Zenon DEF blocks
<1> QED
  BY <1>1, <1>2, <1>7, <1>8, <1>9, ReadWords

\* The words of a directive.
LEMMA SetDirectiveWords == SyntaxInv /\ WordsInv /\ SetDirective /\ SyntaxInv' => WordsInv'
<1> SUFFICES ASSUME SyntaxInv, WordsInv, SetDirective, SyntaxInv' PROVE WordsInv'
  OBVIOUS
<1> DEFINE h == token_index
           text == tokens
           d == currentToken
           words == Arguments(h)
           blocks == contexts
           n == Len(blocks)
           top == Top
           b == WithDirective(top, d, words)
           piece == DirectiveText(d, words)
           z == EndOfDirective(h)
<1>1. /\ blocks # <<>> /\ contexts' = [blocks EXCEPT ![n] = b] /\ httpContext' = httpContext
      /\ parser = "parsing" /\ parser' = parser
      /\ z <= Len(text)
      /\ d \in Directives[top.kind] \ DOMAIN top.set \/ d = "error_page"
      /\ parsed' = parsed \o SubSeq(text, h, h + (Len(words) + 2) - 1)
  BY Zenon DEF SetDirective, IsDirective, MayBeSet, InBlock, Parse, Top
<1>2. IsStack(blocks) /\ IsStack([blocks EXCEPT ![n] = b]) /\ httpContext = Unwritten
  <2>1. IsStack(contexts) /\ IsStack(contexts')
    BY DEF SyntaxInv
  <2> QED
    BY <1>1, <2>1, Zenon DEF WordsInv
<1>3. n \in 1..3 /\ top \in Level(n) /\ top.kind \in {"http", "server", "location"} /\ top = blocks[n]
  BY <1>1, <1>2, TopIs DEF Top
<1>4. b \in Level(n) /\ DOMAIN blocks = 1..n
  <2> DEFINE new == [blocks EXCEPT ![n] = b]
  <2>1. DOMAIN blocks = 1..n
    BY <1>2, StackIs
  <2> HIDE DEF b, n
  <2>2. new[n] = b /\ DOMAIN new = 1..n /\ n \in 1..n
    BY <1>3, <2>1
  <2> HIDE DEF new
  <2>3. new[n] \in Level(n)
    BY <1>2, <2>2 DEF IsStack, new
  <2> QED
    BY <2>1, <2>2, <2>3
<1>5. /\ text \in Seq(Spellings) /\ text \in Seq(Words) /\ h \in Nat /\ h >= 1 /\ Len(text) \in Nat
      /\ \A k : Token(k) # "" => k \in 1..Len(text) /\ text[k] = Token(k)
      /\ DOMAIN text = 1..Len(text)
  BY TokensAre
<1>6. d = "error_page" \/ d \in DirectiveNames \ DOMAIN top.set
  BY <1>1, <1>3, NamesDiffer
<1>7. h \in 1..Len(text) /\ text[h] = d
  <2>1. Token(h) # ""
    BY <1>6, NamesDiffer DEF currentToken
  <2> QED
    BY <1>5, <2>1 DEF currentToken
<1>8. /\ z \in (h + 1)..Len(text) /\ words \in Seq(Values) /\ h + Len(words) + 2 = z + 1
      /\ text[z] = Ending(text[h]) /\ \A k \in 1..Len(words) : words[k] = text[h + k]
  <2>1. h \in DOMAIN tokens /\ tokens \in Seq(Words) /\ EndOfDirective(h) <= Len(tokens)
    BY <1>1, <1>5, <1>7, Zenon
  <2> HIDE DEF h
  <2>2. /\ z \in (h + 1)..Len(text) /\ words \in Seq(Values) /\ h + Len(words) + 2 = z + 1
    BY <2>1, ArgumentsAre
  <2>3. text[z] = Ending(text[h])
    BY <2>1, EndIs
  <2>4. \A k \in 1..Len(words) : words[k] = text[h + k]
    BY <2>1, ArgumentsAt
  <2> QED
    BY <2>2, <2>3, <2>4
<1>9. piece \in Seq(Spellings)
  <2>1. d \in DirectiveNames \cup {"error_page"}
    BY <1>6
  <2> HIDE DEF d, words
  <2> QED
    BY <1>8, <2>1, DirectiveTextIs
<1> HIDE DEF h, text, d, words, blocks, n, top, z
<1>10. SubSeq(text, h, h + (Len(words) + 2) - 1) = piece
  <2> DEFINE m == Len(words)
  <2>1. m \in Nat
    BY <1>8, LenProperties
  <2> HIDE DEF m
  <2>2. h \in Nat /\ Len(text) \in Nat /\ z \in (h + 1)..Len(text) /\ h + m + 2 = z + 1
    BY <1>5, <1>8 DEF m
  <2>3. h + (m + 2) - 1 = z /\ z = h + m + 1 /\ z <= Len(text)
    BY ONLY <2>1, <2>2
  <2>4. words \in Seq(Spellings)
    <3>1. Values \subseteq Spellings
      BY DEF Spellings
    <3> QED
      BY <1>8, <3>1, SeqMonotonic
  <2>5. StandsBetween(text, h, z, words)
    BY <1>5, <1>8, <2>3, <2>4, BracketedPart DEF m
  <2>6. h + (Len(words) + 2) - 1 = z
    BY <2>3 DEF m
  <2> QED
    BY <1>7, <1>8, <2>5, <2>6, Zenon DEF StandsBetween, DirectiveText
<1> HIDE DEF b, piece
<1>11. ASSUME NEW W \in SUBSET Spellings
       PROVE  StackWeight(W, contexts') + ClosedWeight(W, httpContext')
                = StackWeight(W, contexts) + ClosedWeight(W, httpContext) + Weight(W, piece)
  <2> DEFINE new == [blocks EXCEPT ![n] = b]
  <2>1. ClosedWeight(W, Unwritten) = 0
    BY DEF ClosedWeight
  <2>2. Heavier(W, n, top, b, piece)
    <3>1. Legible(n, top) /\ Legible(n, b)
      BY <1>3, <1>4, LevelIsLegible
    <3> QED
      BY <1>3, <1>6, <1>8, <3>1, GivenWeight DEF b, piece
  <2>3. /\ StackWeight(W, blocks) \in Nat /\ StackWeight(W, new) \in Nat
        /\ StackWeight(W, new) + Weight(W, OpenText(n, top))
             = StackWeight(W, blocks) + Weight(W, OpenText(n, b))
    <3>1. b \in Level(Len(blocks))
      BY <1>4 DEF n
    <3> QED
      BY <1>1, <1>2, <1>3, <3>1, ReplacedWeight, ZenonT(30) DEF n
  <2> HIDE DEF new
  <2>4. StackWeight(W, new) + 0 = StackWeight(W, blocks) + 0 + Weight(W, piece)
    BY <2>2, <2>3 DEF Heavier
  <2> QED
    BY <1>1, <1>2, <2>1, <2>4, Zenon DEF blocks, new
<1> QED
  BY <1>1, <1>2, <1>9, <1>10, <1>11, ReadWords

\* The words that end a block.
LEMMA CloseBlockWords == SyntaxInv /\ WordsInv /\ CloseBlock /\ SyntaxInv' => WordsInv'
<1> SUFFICES ASSUME SyntaxInv, WordsInv, CloseBlock, SyntaxInv' PROVE WordsInv'
  OBVIOUS
<1> DEFINE yes == HasDefaultListen
           piece == <<"}">> \o ListenWords(yes)
           blocks == contexts
           n == Len(blocks)
           top == Top
           done == Finished
           rest == SubSeq(blocks, 1, n - 1)
           outer == rest[n - 1]
           wider == GivenInside(outer, Append(outer.inside, done))
           new == [rest EXCEPT ![n - 1] = wider]
<1>1. /\ blocks # <<>> /\ parser = "parsing" /\ parser' = parser
      /\ parsed' = parsed \o <<"}">> \o ListenWords(yes)
      /\ n = 1 => httpContext' = done /\ contexts' = <<>>
      /\ n # 1 => httpContext' = httpContext /\ contexts' = new
  BY Zenon DEF CloseBlock, InBlock, ListenWords, GivenInside
<1>2. IsStack(blocks) /\ IsStack(contexts') /\ httpContext = Unwritten /\ parsed \in Seq(Spellings)
  <2>1. IsStack(contexts) /\ IsStack(contexts')
    BY DEF SyntaxInv
  <2> QED
    BY <1>1, <2>1, Zenon DEF WordsInv
<1>3. n \in 1..3 /\ top \in Level(n) /\ top = blocks[n] /\ DOMAIN blocks = 1..n
      /\ top.kind = <<"http", "server", "location">>[n]
  <2>1. DOMAIN blocks = 1..n
    BY <1>2, StackIs
  <2> QED
    BY <1>1, <1>2, <2>1, TopIs DEF Top
<1>4. done \in Level(n) /\ (n = 2 => done \in ClosedServers)
  BY <1>1, <1>2, FinishedIs
<1>5. done = WithListen(yes, top) /\ (yes => "listen" \notin DOMAIN top.set /\ n = 2)
  <2>1. n # 2 => top.kind # "server"
    BY <1>3
  <2>2. yes => n = 2
    BY <2>1 DEF HasDefaultListen
  <2>3. "listen" # "error_page"
    OBVIOUS
  <2>4. done = WithListen(yes, top)
    BY <2>3 DEF Finished, WithListen, WithDirective
  <2> QED
    BY <2>2, <2>4 DEF HasDefaultListen
<1> HIDE DEF yes, blocks, n, top, done
<1>6. /\ piece \in Seq(Spellings)
      /\ \A W : EndsWith(W, n, top, done, piece)
  <2>1. Legible(n, top) /\ Legible(n, done)
    BY <1>3, <1>4, LevelIsLegible
  <2>2. ASSUME NEW W
        PROVE  piece \in Seq(Spellings) /\ EndsWith(W, n, top, done, piece)
    BY <1>3, <1>5, <2>1, EndedWeight
  <2> HIDE DEF piece
  <2> QED
    BY <2>2
<1>7. parsed' = parsed \o piece
  <2> DEFINE brace == <<"}">>
             listen == ListenWords(yes)
             T == Seq(Spellings)
  <2>1. brace \in T /\ listen \in T
    <3>1. "}" \in Spellings
      BY DEF Spellings
    <3>2. ListenWords(TRUE) \in T /\ ListenWords(FALSE) \in T
      <4>1. ListenWords(TRUE) = <<"listen", "80", ";">> /\ ListenWords(FALSE) = <<>>
        BY DEF ListenWords
      <4>2. "listen" \in Spellings /\ "80" \in Spellings /\ ";" \in Spellings
        BY DEF Spellings, DirectiveNames, Order
      <4> HIDE DEF T
      <4>3. <<"listen", "80", ";">> \in T
        <5>1. \A x, y, q \in Spellings : <<x, y, q>> \in Seq(Spellings)
          OBVIOUS
        <5> QED
          BY <4>2, <5>1, Zenon DEF T
      <4>4. <<>> \in T
        BY EmptySeq DEF T
      <4> QED
        BY <4>1, <4>3, <4>4, Zenon
    <3>3. listen = ListenWords(TRUE) \/ listen = ListenWords(FALSE)
      BY DEF ListenWords
    <3>4. brace \in T
      BY <3>1, OneWord
    <3> HIDE DEF T, listen
    <3> QED
      BY <3>2, <3>3, <3>4
  <2>2. parsed' = (parsed \o brace) \o listen
    BY <1>1
  <2>3. parsed \in T
    BY <1>2
  <2>4. AreTexts(T)
    BY SequencesAreTexts
  <2> HIDE DEF T, brace, listen
  <2>5. \A p, q, r \in T : p \o (q \o r) = (p \o q) \o r
    BY <2>4 DEF AreTexts
  <2> QED
    BY <2>1, <2>2, <2>3, <2>5, Zenon DEF brace, listen
<1> HIDE DEF piece
<1>8. CASE n = 1
  <2>1. /\ done # Unwritten /\ contexts' = <<>> /\ httpContext' = done
    <3>1. Unwritten.kind = "none"
      BY DEF Unwritten
    <3>2. done.kind # "none"
      <4>1. done \in Blocks("http", ClosedServers)
        BY <1>4, <1>8 DEF Level, HttpBlocks
      <4>2. done.kind = "http"
        BY <4>1, BlockFields
      <4> QED
        BY <4>2
    <3> QED
      BY <1>1, <1>8, <3>1, <3>2
  <2>2. ASSUME NEW W \in SUBSET Spellings
        PROVE  StackWeight(W, contexts') + ClosedWeight(W, httpContext')
                 = StackWeight(W, contexts) + ClosedWeight(W, httpContext) + Weight(W, piece)
    <3>1. ClosedWeight(W, Unwritten) = 0 /\ StackWeight(W, <<>>) = 0
      BY NoWeight DEF ClosedWeight
    <3>2. ClosedWeight(W, done) = Weight(W, TextAt(n, done))
      BY <1>8, <2>1 DEF ClosedWeight, TextAt
    <3>3. StackWeight(W, blocks) = Weight(W, OpenText(n, top))
      <4> DEFINE left == SubSeq(blocks, 1, n - 1)
      <4>1. /\ StackWeight(W, left) \in Nat
            /\ StackWeight(W, left) + Weight(W, OpenText(n, top)) = StackWeight(W, blocks)
        BY <1>1, <1>2, <1>3, PoppedWeight DEF n
      <4>2. left = <<>>
        <5>1. 1 \in Int /\ n - 1 \in Int /\ n - 1 < 1
          BY <1>8
        <5> QED
          BY <5>1, SubSeqEmpty
      <4> HIDE DEF left
      <4> QED
        BY <1>6, <3>1, <4>1, <4>2 DEF EndsWith
    <3>4. 0 + Weight(W, TextAt(n, done)) = Weight(W, OpenText(n, top)) + 0 + Weight(W, piece)
      BY <1>6 DEF EndsWith
    <3> QED
      BY <1>2, <2>1, <3>1, <3>2, <3>3, <3>4, Zenon DEF blocks
  <2> QED
    BY <1>1, <1>6, <1>7, <2>1, <2>2, ReadWords
<1>9. CASE n # 1
  <2>1. contexts' = new /\ httpContext' = Unwritten
    BY <1>1, <1>2, <1>9
  <2>2. /\ IsStack(rest) /\ Len(rest) = n - 1 /\ \A k \in 1..Len(rest) : rest[k] = blocks[k]
    BY <1>1, <1>2, StackPopped DEF n
  <2>3. n - 1 \in 1..2 /\ DOMAIN rest = 1..(n - 1) /\ rest # <<>> /\ n - 1 + 1 = n
    <3>1. n - 1 \in 1..2 /\ n - 1 + 1 = n
      BY <1>3, <1>9
    <3> HIDE DEF rest
    <3>2. DOMAIN rest = 1..Len(rest)
      BY <2>2, StackIs
    <3>3. Len(rest) # 0
      BY <2>2, <3>1
    <3>4. rest # <<>>
      BY <3>3, EmptySeq
    <3> QED
      BY <2>2, <3>1, <3>2, <3>4
  <2> DEFINE m == n - 1
  <2> HIDE DEF rest, m
  <2>4. m \in 1..2 /\ m \in 1..3 /\ Len(rest) = m /\ DOMAIN rest = 1..m /\ n = m + 1
    BY <2>2, <2>3 DEF m
  <2>5. outer \in Level(m) /\ outer = rest[m] /\ m \in 1..m
    <3>1. m \in 1..m
      BY <2>4
    <3>2. rest[m] \in Level(m)
      BY <2>2, <2>4, <3>1 DEF IsStack
    <3> QED
      BY <3>1, <3>2 DEF m
  <2>6. new = [rest EXCEPT ![m] = wider]
    BY DEF m
  <2> HIDE DEF outer, wider, new
  <2>7. wider \in Level(m)
    <3>1. new[m] = wider /\ DOMAIN new = 1..m
      BY <2>4, <2>5, <2>6
    <3>2. IsStack(new)
      BY <1>2, <2>1
    <3> QED
      BY <2>5, <3>1, <3>2 DEF IsStack
  <2>8. PICK R : outer.inside \in Seq(R) /\ done \in R
    <3>1. CASE m = 1
      <4>1. outer \in Blocks("http", ClosedServers) /\ done \in ClosedServers
        BY <1>4, <2>4, <2>5, <3>1 DEF Level, HttpBlocks
      <4>2. outer.inside \in Seq(ClosedServers)
        BY <4>1, BlockFields
      <4> QED
        BY <4>1, <4>2
    <3>2. CASE m = 2
      <4>1. outer \in Blocks("server", LocationBlocks) /\ done \in LocationBlocks
        BY <1>4, <2>4, <2>5, <3>2 DEF Level, ServerBlocks
      <4>2. outer.inside \in Seq(LocationBlocks)
        BY <4>1, BlockFields
      <4> QED
        BY <4>1, <4>2
    <3>3. m = 1 \/ m = 2
      BY <2>4
    <3> QED
      BY <3>1, <3>2, <3>3
  <2>9. ASSUME NEW W \in SUBSET Spellings
        PROVE  StackWeight(W, contexts') + ClosedWeight(W, httpContext')
                 = StackWeight(W, contexts) + ClosedWeight(W, httpContext) + Weight(W, piece)
    <3>1. ClosedWeight(W, Unwritten) = 0
      BY DEF ClosedWeight
    <3>2. /\ StackWeight(W, rest) \in Nat
          /\ StackWeight(W, rest) + Weight(W, OpenText(n, top)) = StackWeight(W, blocks)
      BY <1>1, <1>2, <1>3, PoppedWeight DEF n, rest
    <3>3. /\ StackWeight(W, new) \in Nat
          /\ StackWeight(W, new) + Weight(W, OpenText(m, outer))
               = StackWeight(W, rest) + Weight(W, OpenText(m, wider))
      <4>1. wider \in Level(Len(rest))
        BY <2>4, <2>7
      <4>2. LET k == Len(rest)
                other == [rest EXCEPT ![k] = wider]
            IN  /\ StackWeight(W, rest) \in Nat /\ StackWeight(W, other) \in Nat
                /\ StackWeight(W, other) + Weight(W, OpenText(k, rest[k]))
                     = StackWeight(W, rest) + Weight(W, OpenText(k, wider))
        <5>1. IsStack(rest) /\ rest # <<>>
          BY <2>2, <2>3
        <5> QED
          BY <4>1, <5>1, ReplacedWeight
      <4> QED
        BY <2>4, <2>5, <2>6, <4>2, Zenon
    <3>4. /\ Weight(W, OpenText(m, outer)) \in Nat /\ Weight(W, TextAt(n, done)) \in Nat
          /\ Weight(W, OpenText(m, wider)) = Weight(W, OpenText(m, outer)) + Weight(W, TextAt(n, done))
      <4>1. Legible(m, outer) /\ Legible(m, wider)
        BY <2>4, <2>5, <2>7, LevelIsLegible
      <4>2. wider = GivenInside(outer, Append(outer.inside, done))
        BY DEF wider
      <4>3. Encloses(W, m, outer, wider, done)
        BY <2>4, <2>8, <4>1, <4>2, InsideWeight
      <4> QED
        BY <2>4, <4>3, Zenon DEF Encloses
    <3>5. StackWeight(W, new) + 0 = StackWeight(W, blocks) + 0 + Weight(W, piece)
      <4>1. /\ Weight(W, OpenText(n, top)) \in Nat /\ Weight(W, piece) \in Nat
            /\ Weight(W, TextAt(n, done)) = Weight(W, OpenText(n, top)) + Weight(W, piece)
        BY <1>6, Zenon DEF EndsWith
      <4> QED
        BY ONLY <3>2, <3>3, <3>4, <4>1
    <3> QED
      BY <1>2, <2>1, <3>1, <3>5, Zenon DEF blocks
  <2> QED
    BY <1>1, <1>6, <1>7, <2>1, <2>9, ReadWords
<1> QED
  BY <1>8, <1>9

\* Nothing has been read to begin with.
LEMMA WordsInit == ParserInit => WordsInv
<1> SUFFICES ASSUME ParserInit PROVE WordsInv
  OBVIOUS
<1>1. parsed = <<>> /\ contexts = <<>> /\ httpContext = Unwritten /\ parser = "parsing"
  BY DEF ParserInit
<1>2. ASSUME NEW W
      PROVE  Weight(W, <<>>) = 0 /\ StackWeight(W, <<>>) = 0 /\ ClosedWeight(W, Unwritten) = 0
  BY WeightEmpty, NoWeight DEF ClosedWeight
<1>3. \A W : Weight(W, parsed) = StackWeight(W, contexts) + ClosedWeight(W, httpContext)
  BY <1>1, <1>2
<1>4. <<>> \in Seq(Spellings)
  BY EmptySeq
<1> QED
  BY <1>1, <1>3, <1>4 DEF WordsInv

\* The remaining steps of the parser read no part of a block.
LEMMA WordsStep == SyntaxInv /\ WordsInv /\ [ParserNext]_parserVars /\ SyntaxInv' => WordsInv'
<1> SUFFICES ASSUME SyntaxInv, WordsInv, [ParserNext]_parserVars, SyntaxInv' PROVE WordsInv'
  OBVIOUS
<1>1. CASE SkipToken
  BY <1>1 DEF WordsInv, SkipToken
<1>2. CASE ThrowError
  BY <1>2 DEF WordsInv, ThrowError
<1>3. CASE EndOfFile
  BY <1>3 DEF WordsInv, EndOfFile, AtFileLevel
<1>4. CASE UNCHANGED parserVars
  BY <1>4 DEF WordsInv, parserVars
<1> QED
  BY <1>1, <1>2, <1>3, <1>4, OpenHttpWords, OpenBlockWords, SetDirectiveWords, CloseBlockWords
     DEF ParserNext

\* A word occurs as often as texts of that word weigh.
LEMMA NothingHolds == SyntaxInv /\ WordsInv => NothingIsSkipped
<1> SUFFICES ASSUME SyntaxInv, WordsInv, parser = "parsed"
             PROVE  LET text == HttpText(httpContext)
                    IN  /\ Len(parsed) = Len(text)
                        /\ \A k \in DOMAIN text : Count(text[k], parsed) = Count(text[k], text)
  BY DEF NothingIsSkipped
<1> DEFINE block == httpContext
           text == HttpText(block)
           words == parsed
<1>1. block \in HttpBlocks /\ contexts = <<>> /\ words \in Seq(Spellings)
  BY DEF SyntaxInv, WordsInv
<1>2. text \in Seq(Spellings) /\ block # Unwritten
  <2>1. 1 \in 1..3 /\ block \in Level(1)
    BY <1>1 DEF Level
  <2>2. Legible(1, block)
    BY <2>1, LevelIsLegible
  <2>3. TextAt(1, block) \in Seq(Spellings) /\ HasWords(block)
    BY <2>1, <2>2, TextIs
  <2>4. block.kind # "none"
    BY <2>3 DEF HasWords
  <2>5. Unwritten.kind = "none"
    BY DEF Unwritten
  <2> QED
    BY <2>3, <2>4, <2>5 DEF TextAt
<1>3. ASSUME NEW W \in SUBSET Spellings PROVE Weight(W, words) = Weight(W, text)
  <2>1. Weight(W, words) = StackWeight(W, <<>>) + ClosedWeight(W, block)
    BY <1>1 DEF WordsInv
  <2>2. StackWeight(W, <<>>) = 0 /\ ClosedWeight(W, block) = Weight(W, text)
    BY <1>2, NoWeight DEF ClosedWeight
  <2>3. Weight(W, text) \in Nat
    BY <1>2, WeightIs
  <2> QED
    BY <2>1, <2>2, <2>3
<1> HIDE DEF text, words
<1>4. Len(words) = Len(text)
  <2>1. Weight(Spellings, words) = Len(words) /\ Weight(Spellings, text) = Len(text)
    BY <1>1, <1>2, WeightIs
  <2> QED
    BY <1>3, <2>1
<1>5. ASSUME NEW k \in DOMAIN text PROVE Count(text[k], words) = Count(text[k], text)
  <2> DEFINE word == text[k]
  <2>1. word \in Spellings
    <3>1. DOMAIN text = 1..Len(text)
      BY <1>2, LenProperties
    <3> QED
      BY <1>2, <3>1, ElementOfSeq
  <2> HIDE DEF word
  <2>2. \A t : Count(word, t) = Weight({word}, t)
    BY DEF Count, Weight
  <2>3. {word} \in SUBSET Spellings
    BY <2>1
  <2> QED
    BY <1>3, <2>2, <2>3 DEF word
<1> QED
  BY <1>4, <1>5 DEF text, words

\* ConfParser: whatever the files are, the words between "http" and the brace that
\* ends its block have all become part of a block when the file is accepted: the
\* blocks, written out again, have as many words, and each of them as often.
THEOREM NothingSkippedCorrect == StartupSpec => []NothingIsSkipped
<1>1. StartupInit => SyntaxInv /\ WordsInv
  BY ParserInitInv, WordsInit DEF StartupInit
<1>2. SyntaxInv /\ WordsInv /\ [StartupNext]_startupVars => (SyntaxInv /\ WordsInv)'
  <2> SUFFICES ASSUME SyntaxInv, WordsInv, [StartupNext]_startupVars PROVE SyntaxInv' /\ WordsInv'
    OBVIOUS
  <2>1. [ParserNext]_parserVars
    BY DEF StartupNext, Parsing, ParseFails, CallApplyCascade, Cascading, InitServer, SkipServer,
           addListenPort, ListenFails, Run, Ended, startupVars, parserVars
  <2> QED
    BY <2>1, SyntaxStep, WordsStep
<1> QED
  BY <1>1, <1>2, NothingHolds, PTL DEF StartupSpec

-----------------------------------------------------------------------------
(***************************************************************************)
(* ConfParser: what is left of the text of a block that was written.       *)
(***************************************************************************)
\* The parts that have not been read.
Unread(parts, done) == [m \in DOMAIN parts |-> IF m \in done THEN <<>> ELSE parts[m]]
Left(parts, done) == Flattened(Unread(parts, done))

\* A text that begins with a part, and what is left after it.
Begins(parts, done, k) ==
    /\ Left(parts, done) = parts[k] \o Left(parts, done \cup {k})
    /\ Left(parts, done \cup {k}) \in Seq(Spellings)

\* What is left is a text; if nothing is read it is all, if all is read nothing.
LEMMA LeftIs ==
    ASSUME NEW n \in Nat, NEW parts \in [1..n -> Seq(Spellings)], NEW done
    PROVE  /\ Unread(parts, done) \in [1..n -> Seq(Spellings)]
           /\ Left(parts, done) \in Seq(Spellings)
           /\ (\A m \in 1..n : m \notin done) => Left(parts, done) = Flattened(parts)
           /\ (\A m \in 1..n : m \in done \/ parts[m] = <<>>) => Left(parts, done) = <<>>
<1> DEFINE left == Unread(parts, done)
           T == Seq(Spellings)
<1>1. <<>> \in T
  BY EmptySeq
<1> HIDE DEF T
<1>2. left \in [1..n -> T] /\ \A m \in 1..n : left[m] = IF m \in done THEN <<>> ELSE parts[m]
  BY <1>1 DEF Unread, T
<1> HIDE DEF left
<1>3. Flattened(left) \in T
  BY <1>2, FlattenedType DEF T
<1>4. (\A m \in 1..n : m \notin done) => left = parts
  BY <1>2 DEF T
<1>5. ASSUME \A m \in 1..n : m \in done \/ parts[m] = <<>> PROVE Flattened(left) = <<>>
  <2>1. left \in [1..n -> {<<>>}]
    BY <1>2, <1>5
  <2> QED
    BY <2>1, FlattenedNone
<1> QED
  BY <1>2, <1>3, <1>4, <1>5, Zenon DEF Left, left, T

\* The first part that is not read or empty comes first.
LEMMA LeftNext ==
    ASSUME NEW n \in Nat, NEW parts \in [1..n -> Seq(Spellings)], NEW done, NEW k \in 1..n, k \notin done,
           \A m \in 1..(k - 1) : m \in done \/ parts[m] = <<>>
    PROVE  Begins(parts, done, k)
<1> DEFINE left == Unread(parts, done)
           next == Unread(parts, done \cup {k})
           T == Seq(Spellings)
           p == <<>>
<1>1. p \in T
  BY EmptySeq
<1>2. left \in [1..n -> T] /\ next \in [1..n -> T] /\ Flattened(next) \in T
  BY LeftIs DEF Left
<1>3. /\ \A m \in 1..n : left[m] = IF m \in done THEN p ELSE parts[m]
      /\ \A m \in 1..n : next[m] = IF m \in done \cup {k} THEN p ELSE parts[m]
  BY DEF Unread
<1> HIDE DEF left, next, p
<1>4. next = Replaced(left, k, p)
  <2> HIDE DEF T
  <2>1. \A m \in 1..n : next[m] = IF m = k THEN p ELSE left[m]
    BY <1>3
  <2> QED
    BY <1>2, <2>1 DEF Replaced
<1>5. PICK before \in T, after \in T : Surround(before, after, left, k, p)
  BY <1>1, <1>2, FlattenedAt
<1>6. \A m \in 1..(k - 1) : left[m] = <<>>
  <2>1. \A m \in 1..(k - 1) : m \in 1..n
    OBVIOUS
  <2> QED
    BY <1>3, <2>1 DEF p
<1>7. /\ Flattened(left) = <<>> \o (left[k] \o after) /\ Flattened(next) = <<>> \o (<<>> \o after)
      /\ left[k] = parts[k]
  BY <1>3, <1>4, <1>5, <1>6 DEF Surround, p
<1>8. parts[k] \in T
  OBVIOUS
<1>9. AreTexts(T)
  BY SequencesAreTexts
<1> HIDE DEF T
<1>10. (\A x \in T : <<>> \o x = x) /\ (\A x, y \in T : x \o y \in T)
  BY <1>9 DEF AreTexts
<1>11. Flattened(next) = after /\ Flattened(left) = parts[k] \o after
  <2>1. <<>> \o after = after /\ parts[k] \o after \in T
    BY <1>5, <1>8, <1>10
  <2>2. <<>> \o (parts[k] \o after) = parts[k] \o after
    BY <1>10, <2>1
  <2> QED
    BY <1>7, <2>1, <2>2, Zenon
<1> QED
  BY <1>2, <1>11, Zenon DEF Begins, Left, left, next, T

\* Blocks as they may be written, at each depth.
WrittenAs(k, w) ==
    IF k = 1 THEN IsWrittenHttp(w) ELSE IF k = 2 THEN IsWrittenServer(w) ELSE IsWrittenLocation(w)

KindAt(k) == IF k = 1 THEN "http" ELSE IF k = 2 THEN "server" ELSE "location"

\* What a block that may be written has.
Sound(k, w) ==
    /\ HasWords(w) /\ w.kind = KindAt(k) /\ (IF k = 3 THEN CanBeNamed(w.name) ELSE w.name = <<>>)
    /\ DOMAIN w.set \subseteq Directives[KindAt(k)]
    /\ \A d \in DOMAIN w.set : CanBeGiven(d, w.set[d])
    /\ w.set \in [DOMAIN w.set -> {w.set[d] : d \in DOMAIN w.set}]
    /\ \A m \in DOMAIN w.errorPages : CanBeGiven("error_page", w.errorPages[m])
    /\ k = 3 => ~({"root", "alias"} \subseteq DOMAIN w.set)
    /\ IsRow(w.inside) /\ w.inside \in Seq({w.inside[m] : m \in DOMAIN w.inside})
    /\ \A m \in DOMAIN w.inside : k # 3 /\ WrittenAs(k + 1, w.inside[m])

\* A block by itself.
LEMMA WrittenHas ==
    ASSUME NEW k \in 1..3, NEW w, IsWritten(w, KindAt(k))
    PROVE  /\ HasWords(w) /\ w.kind = KindAt(k) /\ (IF k = 3 THEN CanBeNamed(w.name) ELSE w.name = <<>>)
           /\ DOMAIN w.set \subseteq Directives[KindAt(k)]
           /\ \A d \in DOMAIN w.set : CanBeGiven(d, w.set[d])
           /\ w.set \in [DOMAIN w.set -> {w.set[d] : d \in DOMAIN w.set}]
           /\ \A m \in DOMAIN w.errorPages : CanBeGiven("error_page", w.errorPages[m])
           /\ k = 3 => ~({"root", "alias"} \subseteq DOMAIN w.set)
<1> DEFINE kind == KindAt(k)
<1>1. kind \in {"http", "server", "location"} /\ (kind = "location" <=> k = 3)
  BY DEF KindAt
<1> HIDE DEF kind
<1>2. /\ w = [kind |-> kind, name |-> w.name, set |-> w.set, errorPages |-> w.errorPages,
              inside |-> w.inside]
      /\ IF kind = "location" THEN CanBeNamed(w.name) ELSE w.name = <<>>
      /\ DOMAIN w.set \subseteq Directives[kind] /\ \A d \in DOMAIN w.set : CanBeGiven(d, w.set[d])
      /\ w.errorPages \in Seq(Seq(Values))
      /\ \A m \in DOMAIN w.errorPages : CanBeGiven("error_page", w.errorPages[m])
      /\ kind = "location" => ~({"root", "alias"} \subseteq DOMAIN w.set)
  BY DEF IsWritten, kind
<1>3. w.set = [d \in DOMAIN w.set |-> w.set[d]]
  BY Zenon DEF IsWritten, kind
<1>4. w.set \in [DOMAIN w.set -> {w.set[d] : d \in DOMAIN w.set}]
  <2> DEFINE f == w.set
             D == DOMAIN f
             R == {f[d] : d \in D}
  <2>1. [d \in D |-> f[d]] \in [D -> R]
    OBVIOUS
  <2>2. f = [d \in D |-> f[d]]
    BY <1>3
  <2> HIDE DEF f, D, R
  <2>3. f \in [D -> R]
    BY <2>1, <2>2, Zenon
  <2> QED
    BY <2>3 DEF f, D, R
<1>5. w.kind = kind /\ HasFields(w)
  <2> DEFINE name == w.name
             set == w.set
             pages == w.errorPages
             inside == w.inside
  <2>1. w = [kind |-> kind, name |-> name, set |-> set, errorPages |-> pages, inside |-> inside]
    BY <1>2
  <2> HIDE DEF name, set, pages, inside
  <2>2. w.kind = kind
    BY <2>1
  <2> QED
    BY <1>2, <2>2, Zenon DEF HasFields
<1>6. w.name \in Seq(Values \cup {"", "="})
  <2> DEFINE S == Values \cup {"", "="}
  <2>1. \A path \in Values : path \in S
    OBVIOUS
  <2>2. "=" \in S
    OBVIOUS
  <2> HIDE DEF S
  <2>3. \A x, y \in S : <<x>> \in Seq(S) /\ <<x, y>> \in Seq(S)
    OBVIOUS
  <2>4. CanBeNamed(w.name) => w.name \in Seq(S)
    BY <2>1, <2>2, <2>3 DEF CanBeNamed
  <2>5. <<>> \in Seq(S)
    BY EmptySeq
  <2> QED
    BY <1>2, <2>4, <2>5 DEF S
<1>7. DOMAIN w.set \subseteq DirectiveNames /\ \A d \in DOMAIN w.set : w.set[d] \in Seq(Values)
  BY <1>1, <1>2, NamesDiffer DEF CanBeGiven
<1>8. HasWords(w)
  BY <1>1, <1>2, <1>5, <1>6, <1>7 DEF HasWords
<1> QED
  BY <1>1, <1>2, <1>4, <1>5, <1>8 DEF kind

\* A block with those inside.
LEMMA WrittenIsSound == ASSUME NEW k \in 1..3, NEW w, WrittenAs(k, w) PROVE Sound(k, w)
<1>1. IsWritten(w, KindAt(k))
  BY DEF WrittenAs, KindAt, IsWrittenHttp, IsWrittenServer, IsWrittenLocation
<1>2. CASE k = 3
  <2>1. w.inside = <<>>
    BY <1>2 DEF WrittenAs, IsWrittenLocation
  <2>2. IsRow(w.inside) /\ DOMAIN w.inside = {} /\ w.inside \in Seq({w.inside[m] : m \in DOMAIN w.inside})
    BY <2>1, EmptySeq DEF IsRow
  <2> QED
    BY <1>1, <1>2, <2>2, WrittenHas DEF Sound
<1>3. CASE k # 3
  <2> DEFINE inside == w.inside
             R == {inside[m] : m \in DOMAIN inside}
  <2>1. inside \in Seq(R) /\ \A m \in DOMAIN inside : WrittenAs(k + 1, inside[m])
    <3>1. CASE k = 1
      BY <3>1 DEF WrittenAs, IsWrittenHttp
    <3>2. CASE k = 2
      BY <3>2 DEF WrittenAs, IsWrittenServer
    <3> QED
      BY <1>3, <3>1, <3>2
  <2>2. IsRow(inside)
    <3> HIDE DEF inside, R
    <3> QED
      BY <2>1, LenProperties DEF IsRow
  <2> QED
    BY <1>1, <1>3, <2>1, <2>2, WrittenHas DEF Sound
<1> QED
  BY <1>2, <1>3

\* It has a text.
LEMMA WrittenIsLegible == ASSUME NEW k \in 1..3, NEW w, WrittenAs(k, w) PROVE Legible(k, w)
<1>1. ASSUME NEW v, WrittenAs(3, v) PROVE Legible3(v)
  <2>1. 3 \in 1..3
    OBVIOUS
  <2>2. Sound(3, v)
    BY <1>1, <2>1, WrittenIsSound
  <2>3. v.inside = <<>>
    BY <1>1 DEF WrittenAs, IsWrittenLocation
  <2> QED
    BY <2>2, <2>3 DEF Sound, Legible3
<1>2. ASSUME NEW v, WrittenAs(2, v) PROVE Legible2(v)
  <2>1. 2 \in 1..3 /\ 2 + 1 = 3
    OBVIOUS
  <2>2. Sound(2, v)
    BY <1>2, <2>1, WrittenIsSound
  <2>3. \A m \in DOMAIN v.inside : WrittenAs(3, v.inside[m])
    BY <2>1, <2>2 DEF Sound
  <2> QED
    BY <1>1, <2>2, <2>3 DEF Sound, Legible2
<1>3. ASSUME NEW v, WrittenAs(1, v) PROVE Legible1(v)
  <2>1. 1 \in 1..3 /\ 1 + 1 = 2
    OBVIOUS
  <2>2. Sound(1, v)
    BY <1>3, <2>1, WrittenIsSound
  <2>3. \A m \in DOMAIN v.inside : WrittenAs(2, v.inside[m])
    BY <2>1, <2>2 DEF Sound
  <2> QED
    BY <1>2, <2>2, <2>3 DEF Sound, Legible1
<1>4. k = 1 \/ k = 2 \/ k = 3
  OBVIOUS
<1> QED
  BY <1>1, <1>2, <1>3, <1>4 DEF Legible

-----------------------------------------------------------------------------
(***************************************************************************)
(* ConfParser: a block that was written, part of which has been read.      *)
(***************************************************************************)
\* What the parser makes of a block at a depth.
MeaningOf(k, w) ==
    IF k = 1 THEN Meaning(w)
    ELSE IF k = 2 /\ "listen" \notin DOMAIN w.set THEN WithListen(TRUE, w) ELSE w

\* The block of which some directives, error pages and blocks inside are read.
Read(k, w, D, p, q) ==
    [kind |-> w.kind, name |-> w.name, set |-> [d \in D |-> w.set[d]],
     errorPages |-> [m \in 1..p |-> w.errorPages[m]],
     inside |-> [m \in 1..q |-> MeaningOf(k + 1, w.inside[m])]]

\* The text that is left then, and what comes after the block.
EndAnd(tail) == <<"}">> \o tail
Positions(D) == {m \in 1..10 : Order[m] \in D}
PagesRest(k, w, p, q, tail) ==
    Left(ErrorPageTexts(w), 1..p) \o (Left(InsideTexts(k, w), 1..q) \o EndAnd(tail))
Rest(k, w, D, p, q, tail) == Left(DirectiveTexts(w), Positions(D)) \o PagesRest(k, w, p, q, tail)

\* So much can have been read.
CanBeRead(w, D, p, q) ==
    D \subseteq DOMAIN w.set /\ p \in 0..Len(w.errorPages) /\ q \in 0..Len(w.inside)

\* How much of a block has been read.
LEMMA ReadIs ==
    ASSUME NEW k, NEW w, NEW D, NEW p \in Nat, NEW q \in Nat, NEW b, b = Read(k, w, D, p, q)
    PROVE  DOMAIN b.set = D /\ Len(b.errorPages) = p /\ Len(b.inside) = q
<1> DEFINE kind == w.kind
           name == w.name
           set == [d \in D |-> w.set[d]]
           pages == [m \in 1..p |-> w.errorPages[m]]
           inside == [m \in 1..q |-> MeaningOf(k + 1, w.inside[m])]
<1>1. b = [kind |-> kind, name |-> name, set |-> set, errorPages |-> pages, inside |-> inside]
  BY Zenon DEF Read
<1>2. DOMAIN set = D
  OBVIOUS
<1>3. Len(pages) = p
  OBVIOUS
<1>4. Len(inside) = q
  OBVIOUS
<1> HIDE DEF kind, name, set, pages, inside
<1>5. b.set = set /\ b.errorPages = pages /\ b.inside = inside
  BY <1>1
<1> QED
  BY <1>2, <1>3, <1>4, <1>5

\* The text that is left is a text.
LEMMA RestIs ==
    ASSUME NEW k \in 1..3, NEW w, WrittenAs(k, w), NEW D, NEW p, NEW q, NEW tail \in Seq(Spellings)
    PROVE  /\ Left(DirectiveTexts(w), Positions(D)) \in Seq(Spellings)
           /\ Left(ErrorPageTexts(w), 1..p) \in Seq(Spellings)
           /\ Left(InsideTexts(k, w), 1..q) \in Seq(Spellings)
           /\ <<"}">> \in Seq(Spellings) /\ EndAnd(tail) \in Seq(Spellings)
           /\ Rest(k, w, D, p, q, tail) \in Seq(Spellings)
<1>1. Legible(k, w)
  BY WrittenIsLegible
<1>2. HasWords(w) /\ IsRow(w.inside) /\ InsideTexts(k, w) \in [1..Len(w.inside) -> Seq(Spellings)]
  BY <1>1, TextIs
<1>3. /\ DirectiveTexts(w) \in [1..10 -> Seq(Spellings)]
      /\ ErrorPageTexts(w) \in [1..Len(w.errorPages) -> Seq(Spellings)] /\ Len(w.errorPages) \in Nat
  BY <1>2, DirectivesTextIs
<1>4. Len(w.inside) \in Nat
  BY <1>2 DEF IsRow
<1>5. Left(DirectiveTexts(w), Positions(D)) \in Seq(Spellings)
  BY <1>3, LeftIs
<1>6. Left(ErrorPageTexts(w), 1..p) \in Seq(Spellings)
  BY <1>3, LeftIs
<1>7. Left(InsideTexts(k, w), 1..q) \in Seq(Spellings)
  BY <1>2, <1>4, LeftIs
<1>8. <<"}">> \in Seq(Spellings)
  <2>1. "}" \in Spellings
    BY DEF Spellings
  <2> QED
    BY <2>1, OneWord
<1> DEFINE T == Seq(Spellings)
<1>9. \A s, t \in T : s \o t \in T
  BY ConcatProperties
<1> HIDE DEF T
<1>10. EndAnd(tail) \in T
  BY <1>8, <1>9 DEF T, EndAnd
<1>11. Rest(k, w, D, p, q, tail) \in T
  <2> DEFINE t1 == Left(DirectiveTexts(w), Positions(D))
             t2 == Left(ErrorPageTexts(w), 1..p)
             t3 == Left(InsideTexts(k, w), 1..q)
             t4 == EndAnd(tail)
  <2>1. t1 \in T /\ t2 \in T /\ t3 \in T /\ t4 \in T
    BY <1>5, <1>6, <1>7, <1>10 DEF T
  <2>2. Rest(k, w, D, p, q, tail) = t1 \o (t2 \o (t3 \o t4))
    BY Zenon DEF Rest, PagesRest
  <2> HIDE DEF t1, t2, t3, t4
  <2>3. t3 \o t4 \in T
    BY <1>9, <2>1
  <2>4. t2 \o (t3 \o t4) \in T
    BY <1>9, <2>1, <2>3
  <2> QED
    BY <1>9, <2>1, <2>2, <2>4
<1> QED
  BY <1>5, <1>6, <1>7, <1>8, <1>10, <1>11 DEF T

\* Three texts may be put together in either order.
Associated(s, t, u) == (s \o t) \o u = s \o (t \o u)

\* Texts are put together one way or the other.
LEMMA Associates ==
    ASSUME NEW T, AreTexts(T), NEW s \in T, NEW t \in T, NEW u \in T PROVE Associated(s, t, u)
BY DEF AreTexts, Associated

\* A text is what it begins with and the rest.
LEMMA InFront ==
    ASSUME NEW s \in Seq(Spellings), NEW t \in Seq(Spellings), NEW u \in Seq(Spellings)
    PROVE  Associated(s, t, u) /\ t \o u \in Seq(Spellings) /\ <<>> \o s = s
<1> DEFINE T == Seq(Spellings)
<1>1. AreTexts(T)
  BY SequencesAreTexts
<1>2. s \in T /\ t \in T /\ u \in T
  OBVIOUS
<1> HIDE DEF T
<1>3. Associated(s, t, u) /\ t \o u \in T /\ <<>> \o s = s
  BY <1>1, <1>2, Associates DEF AreTexts
<1> QED
  BY <1>3 DEF T

\* A directive that is not read yet is left, and one of them comes next.
SetNext(k, w, D, p, q, tail) ==
    \E d \in DOMAIN w.set \ D :
        Rest(k, w, D, p, q, tail) = DirectiveText(d, w.set[d]) \o Rest(k, w, D \cup {d}, p, q, tail)

\* It does as long as one is left.
LEMMA RestSet ==
    ASSUME NEW k \in 1..3, NEW w, WrittenAs(k, w), NEW D, NEW p \in Nat, NEW q \in Nat,
           CanBeRead(w, D, p, q), D # DOMAIN w.set, NEW tail \in Seq(Spellings)
    PROVE  SetNext(k, w, D, p, q, tail)
<1> DEFINE parts == DirectiveTexts(w)
           done == Positions(D)
           open == {m \in 1..10 : Order[m] \in DOMAIN w.set \ D}
<1>1. HasWords(w) /\ parts \in [1..10 -> Seq(Spellings)]
  <2>1. Legible(k, w)
    BY WrittenIsLegible
  <2>2. HasWords(w)
    BY <2>1, TextIs
  <2> QED
    BY <2>2, DirectivesTextIs
<1>2. /\ D \subseteq DOMAIN w.set /\ DOMAIN w.set \subseteq DirectiveNames
      /\ \A m \in 1..10 : parts[m] = IF Order[m] \in DOMAIN w.set
                                      THEN DirectiveText(Order[m], w.set[Order[m]]) ELSE <<>>
  BY <1>1, NamesDiffer DEF CanBeRead, HasWords, DirectiveTexts
<1>3. PICK k0 \in open : \A m \in open : k0 <= m
  <2>1. open # {}
    <3>1. PICK x : x \in DOMAIN w.set \ D
      BY <1>2
    <3>2. x \in DirectiveNames
      BY <1>2, <3>1
    <3> HIDE DEF parts
    <3> QED
      BY <3>1, <3>2 DEF DirectiveNames
  <2>2. open \subseteq Nat
    OBVIOUS
  <2> HIDE DEF open
  <2> QED
    BY <2>1, <2>2, LeastNatural
<1> DEFINE d == Order[k0]
<1>4. k0 \in 1..10 /\ d \in DOMAIN w.set \ D /\ k0 \notin done
  BY <1>3 DEF Positions
<1>5. parts[k0] = DirectiveText(d, w.set[d])
  BY <1>2, <1>4
<1>6. \A m \in 1..(k0 - 1) : m \in done \/ parts[m] = <<>>
  <2>1. \A m \in 1..(k0 - 1) : m \in 1..10 /\ m \notin open
    BY <1>3, <1>4, SMTT(30)
  <2> QED
    BY <1>2, <2>1 DEF Positions
<1>7. Positions(D \cup {d}) = done \cup {k0}
  BY <1>4, NamesDiffer DEF Positions
<1> HIDE DEF parts, done, open
<1>8. Begins(parts, done, k0)
  BY <1>1, <1>4, <1>6, LeftNext
<1> DEFINE t2 == Left(ErrorPageTexts(w), 1..p) \o (Left(InsideTexts(k, w), 1..q) \o EndAnd(tail))
           next == Left(parts, Positions(D \cup {d}))
           text == DirectiveText(d, w.set[d])
<1>9. Left(parts, done) = text \o next
  BY <1>5, <1>7, <1>8, Zenon DEF Begins
<1>10. text \in Seq(Spellings) /\ next \in Seq(Spellings) /\ t2 \in Seq(Spellings)
  <2>1. d \in DirectiveNames /\ w.set[d] \in Seq(Values)
    BY <1>1, <1>2, <1>4 DEF HasWords
  <2>2. text \in Seq(Spellings)
    BY <2>1, DirectiveTextIs
  <2>3. next \in Seq(Spellings)
    BY RestIs DEF parts
  <2>4. t2 \in Seq(Spellings)
    <3> DEFINE t3 == Left(ErrorPageTexts(w), 1..p)
               t4 == Left(InsideTexts(k, w), 1..q)
               t5 == EndAnd(tail)
    <3>1. t3 \in Seq(Spellings) /\ t4 \in Seq(Spellings) /\ t5 \in Seq(Spellings)
      BY RestIs
    <3> HIDE DEF t3, t4, t5
    <3>2. t4 \o t5 \in Seq(Spellings)
      BY <3>1, InFront
    <3>3. t3 \o (t4 \o t5) \in Seq(Spellings)
      BY <3>1, <3>2, InFront
    <3> QED
      BY <3>3 DEF t3, t4, t5
  <2> QED
    BY <2>2, <2>3, <2>4
<1>11. /\ Rest(k, w, D, p, q, tail) = Left(parts, done) \o t2
       /\ Rest(k, w, D \cup {d}, p, q, tail) = next \o t2
  BY Zenon DEF Rest, PagesRest, parts, done
<1> HIDE DEF t2, next, text
<1>12. Rest(k, w, D, p, q, tail) = text \o (next \o t2)
  <2>1. Associated(text, next, t2)
    BY <1>10, InFront
  <2> QED
    BY <1>9, <1>11, <2>1, Zenon DEF Associated
<1> QED
  BY <1>4, <1>11, <1>12, Zenon DEF SetNext, text

\* All before the k-th part are read: it comes next.
LEMMA NextInRow ==
    ASSUME NEW n \in Nat, NEW parts \in [1..n -> Seq(Spellings)], NEW p \in Nat, p < n,
           NEW next, next = p + 1
    PROVE  /\ Left(parts, 1..p) = parts[next] \o Left(parts, 1..next)
           /\ Left(parts, 1..next) \in Seq(Spellings)
<1> DEFINE done == 1..p
<1>1. next \in 1..n /\ next \notin done /\ done \cup {next} = 1..next
  OBVIOUS
<1>2. \A m \in 1..(next - 1) : m \in done \/ parts[m] = <<>>
  OBVIOUS
<1>3. Begins(parts, done, next)
  <2> HIDE DEF done
  <2> QED
    BY <1>1, <1>2, LeftNext
<1> QED
  BY <1>1, <1>3, Zenon DEF Begins, done

\* All parts are read: nothing is left.
LEMMA AllOfRow ==
    ASSUME NEW n \in Nat, NEW parts \in [1..n -> Seq(Spellings)]
    PROVE  Left(parts, 1..n) = <<>>
<1> DEFINE done == 1..n
<1>1. \A m \in 1..n : m \in done \/ parts[m] = <<>>
  OBVIOUS
<1> HIDE DEF done
<1> QED
  BY <1>1, LeftIs DEF done

\* The directives are read: the error pages come next.
LEMMA RestAfterSet ==
    ASSUME NEW k \in 1..3, NEW w, WrittenAs(k, w), NEW p, NEW q, NEW tail \in Seq(Spellings)
    PROVE  Rest(k, w, DOMAIN w.set, p, q, tail) = PagesRest(k, w, p, q, tail)
<1> DEFINE parts == DirectiveTexts(w)
           done == Positions(DOMAIN w.set)
<1>1. parts \in [1..10 -> Seq(Spellings)]
  <2>1. Legible(k, w)
    BY WrittenIsLegible
  <2>2. HasWords(w)
    BY <2>1, TextIs
  <2> QED
    BY <2>2, DirectivesTextIs
<1>2. \A m \in 1..10 : m \in done \/ parts[m] = <<>>
  BY NamesDiffer DEF Positions, DirectiveTexts
<1> HIDE DEF parts, done
<1>3. Left(parts, done) = <<>>
  BY <1>1, <1>2, LeftIs
<1> DEFINE t3 == Left(ErrorPageTexts(w), 1..p)
           t4 == Left(InsideTexts(k, w), 1..q)
           t5 == EndAnd(tail)
<1>4. t3 \in Seq(Spellings) /\ t4 \in Seq(Spellings) /\ t5 \in Seq(Spellings)
  BY RestIs
<1>5. Rest(k, w, DOMAIN w.set, p, q, tail) = Left(parts, done) \o (t3 \o (t4 \o t5))
  BY Zenon DEF Rest, PagesRest, parts, done
<1> HIDE DEF t3, t4, t5
<1>6. t4 \o t5 \in Seq(Spellings)
  BY <1>4, InFront
<1>7. t3 \o (t4 \o t5) \in Seq(Spellings)
  BY <1>4, <1>6, InFront
<1>8. <<>> \o (t3 \o (t4 \o t5)) = t3 \o (t4 \o t5)
  BY <1>7, InFront
<1> QED
  BY <1>3, <1>5, <1>8, Zenon DEF PagesRest, t3, t4, t5

\* The next error page.
PageNext(k, w, p, q, z, tail) ==
    Rest(k, w, DOMAIN w.set, p, q, tail) =
      DirectiveText("error_page", w.errorPages[z]) \o Rest(k, w, DOMAIN w.set, z, q, tail)

\* It comes when the directives are read.
LEMMA RestErrorPage ==
    ASSUME NEW k \in 1..3, NEW w, WrittenAs(k, w), NEW p \in Nat, NEW q, p < Len(w.errorPages),
           NEW z, z = p + 1, NEW tail \in Seq(Spellings)
    PROVE  PageNext(k, w, p, q, z, tail)
<1> DEFINE parts == ErrorPageTexts(w)
           n == Len(w.errorPages)
           text == DirectiveText("error_page", w.errorPages[z])
           next == Left(parts, 1..(z))
           t4 == Left(InsideTexts(k, w), 1..q) \o EndAnd(tail)
<1>1. HasWords(w) /\ parts \in [1..n -> Seq(Spellings)] /\ n \in Nat
  <2>1. Legible(k, w)
    BY WrittenIsLegible
  <2>2. HasWords(w)
    BY <2>1, TextIs
  <2> QED
    BY <2>2, DirectivesTextIs
<1>2. DOMAIN w.errorPages = 1..n
  BY <1>1, LenProperties DEF HasWords
<1>3. z \in 1..n
  <2> HIDE DEF parts
  <2> QED
    BY <1>1
<1>4. parts[z] = text
  BY <1>2, <1>3 DEF ErrorPageTexts
<1>5. t4 \in Seq(Spellings)
  <2>1. Left(InsideTexts(k, w), 1..q) \in Seq(Spellings) /\ EndAnd(tail) \in Seq(Spellings)
    BY RestIs
  <2> QED
    BY <2>1, InFront
<1>6. /\ Rest(k, w, DOMAIN w.set, p, q, tail) = Left(parts, 1..p) \o t4
      /\ Rest(k, w, DOMAIN w.set, z, q, tail) = next \o t4
  <2>1. \A m : Rest(k, w, DOMAIN w.set, m, q, tail) = PagesRest(k, w, m, q, tail)
    BY RestAfterSet
  <2> QED
    BY <2>1, Zenon DEF PagesRest
<1>7. p < n
  OBVIOUS
<1>8. text \in Seq(Spellings)
  BY <1>1, <1>3, <1>4
<1> HIDE DEF parts, n, t4
<1>9. Left(parts, 1..p) = parts[z] \o next /\ next \in Seq(Spellings)
  BY <1>1, <1>7, NextInRow, ZenonT(30)
<1> HIDE DEF text, next
<1>10. Associated(text, next, t4)
  BY <1>5, <1>8, <1>9, InFront
<1> QED
  BY <1>4, <1>6, <1>9, <1>10, Zenon DEF PageNext, Associated, text

\* A block and what comes after it, from the first word on.
Regrouped(o, x, y, e, end, after) ==
    (((o \o (x \o y)) \o e) \o end) \o after = o \o (x \o (y \o (e \o (end \o after))))

\* The words are the same, however they are put together.
LEMMA Regroup ==
    ASSUME NEW T, AreTexts(T), NEW o \in T, NEW x \in T, NEW y \in T, NEW e \in T, NEW end \in T,
           NEW after \in T
    PROVE  Regrouped(o, x, y, e, end, after)
<1>2. \A s, t \in T : s \o t \in T
  BY DEF AreTexts
<1>3. PICK s1 \in T : s1 = end \o after
  BY <1>2
<1>4. PICK s2 \in T : s2 = e \o s1
  BY <1>2
<1>5. PICK s4 \in T : s4 = x \o y
  BY <1>2
<1>6. PICK s5 \in T : s5 = o \o s4
  BY <1>2
<1>7. PICK s6 \in T : s6 = s5 \o e
  BY <1>2
<1>8. /\ Associated(s6, end, after) /\ Associated(s5, e, s1) /\ Associated(o, s4, s2)
      /\ Associated(x, y, s2)
  BY Associates
<1> QED
  BY <1>3, <1>4, <1>5, <1>6, <1>7, <1>8, Zenon DEF Regrouped, Associated

\* The text of a block is how it begins, and what is left when nothing is read.
BeginsWhole(k, c, after) == TextAt(k, c) \o after = Opening(c) \o Rest(k, c, {}, 0, 0, after)

\* So a text of a block begins, whatever comes after it.
LEMMA WholeText ==
    ASSUME NEW k \in 1..3, NEW c, WrittenAs(k, c), NEW after \in Seq(Spellings)
    PROVE  BeginsWhole(k, c, after)
<1> DEFINE d == DirectivesText(c)
           e == Flattened(InsideTexts(k, c))
           end == <<"}">>
           o == Opening(c)
           T == Seq(Spellings)
<1>1. Legible(k, c) /\ TextAt(k, c) = OpenText(k, c) \o <<"}">>
  BY WrittenIsLegible, TextIs
<1>2. HasWords(c) /\ Opening(c) \in T
  BY <1>1, TextIs, DirectivesTextIs
<1>3. d \in T /\ e \in T /\ end \in T
  BY <1>1, <1>2, DirectivesTextIs, TextIs, FlattenedType, RestIs DEF IsRow
<1>4. /\ Left(DirectiveTexts(c), Positions({})) = Flattened(DirectiveTexts(c))
       /\ Left(ErrorPageTexts(c), 1..0) = Flattened(ErrorPageTexts(c))
       /\ Left(InsideTexts(k, c), 1..0) = e
  <2>1. (\A m : m \notin Positions({})) /\ 10 \in Nat
    BY DEF Positions
  <2>2. \A m : m \notin 1..0
    OBVIOUS
  <2>3. /\ DirectiveTexts(c) \in [1..10 -> T] /\ ErrorPageTexts(c) \in [1..Len(c.errorPages) -> T]
        /\ Len(c.errorPages) \in Nat
    BY <1>2, DirectivesTextIs
  <2>4. InsideTexts(k, c) \in [1..Len(c.inside) -> T] /\ Len(c.inside) \in Nat
    BY <1>1, TextIs DEF IsRow
  <2>5. Left(DirectiveTexts(c), Positions({})) = Flattened(DirectiveTexts(c))
    BY <2>1, <2>3, LeftIs
  <2>6. Left(ErrorPageTexts(c), 1..0) = Flattened(ErrorPageTexts(c))
    BY <2>2, <2>3, LeftIs
  <2>7. Left(InsideTexts(k, c), 1..0) = e
    BY <2>2, <2>4, LeftIs
  <2> QED
    BY <2>5, <2>6, <2>7
<1> DEFINE d1 == Flattened(DirectiveTexts(c))
           d2 == Flattened(ErrorPageTexts(c))
<1>5. d1 \in T /\ d2 \in T
  BY <1>2, DirectivesTextIs
<1>6. Rest(k, c, {}, 0, 0, after) = d1 \o (d2 \o (e \o (end \o after)))
  BY <1>4, Zenon DEF Rest, PagesRest, EndAnd
<1>7. TextAt(k, c) = ((o \o (d1 \o d2)) \o e) \o end
  BY <1>1, Zenon DEF OpenText, DirectivesText
<1>8. o \in T /\ e \in T /\ end \in T
  BY <1>2, <1>3
<1>9. AreTexts(T)
  BY SequencesAreTexts
<1>10. after \in T
  OBVIOUS
<1> HIDE DEF d1, d2, e, end, o, T
<1>11. Regrouped(o, d1, d2, e, end, after)
  BY <1>10, <1>5, <1>8, <1>9, Regroup
<1> QED
  BY <1>6, <1>7, <1>11, Zenon DEF BeginsWhole, Regrouped, o

\* The next block inside.
LEMMA RestInside ==
    ASSUME NEW k \in 1..2, NEW w, WrittenAs(k, w), NEW q \in Nat, q < Len(w.inside),
           NEW tail \in Seq(Spellings)
    PROVE  LET c == w.inside[q + 1]
               D == DOMAIN w.set
               p == Len(w.errorPages)
           IN  Rest(k, w, D, p, q, tail) =
                 Opening(c) \o Rest(k + 1, c, {}, 0, 0, Rest(k, w, D, p, q + 1, tail))
<1> DEFINE c == w.inside[q + 1]
           D == DOMAIN w.set
           p == Len(w.errorPages)
           parts == InsideTexts(k, w)
           n == Len(w.inside)
           next == Left(parts, 1..(q + 1))
           t5 == EndAnd(tail)
           after == Rest(k, w, D, p, q + 1, tail)
           T == Seq(Spellings)
<1>1. HasWords(w) /\ parts \in [1..n -> T] /\ n \in Nat /\ DOMAIN w.inside = 1..n
  <2>1. k \in 1..3
    OBVIOUS
  <2>2. Legible(k, w)
    BY <2>1, WrittenIsLegible
  <2> QED
    BY <2>1, <2>2, TextIs DEF IsRow
<1>2. q + 1 \in 1..n /\ k + 1 \in 1..3 /\ k \in 1..3
  <2> HIDE DEF parts
  <2> QED
    BY <1>1
<1>3. WrittenAs(k + 1, c)
  BY <1>1, <1>2, WrittenIsSound DEF Sound
<1>4. parts[q + 1] = TextAt(k + 1, c)
  BY <1>1, <1>2 DEF InsideTexts
<1>5. Legible(k + 1, c)
  BY <1>2, <1>3, WrittenIsLegible
<1>6. TextAt(k + 1, c) \in T
  BY <1>2, <1>5, TextIs
<1>7. Left(ErrorPageTexts(w), 1..p) = <<>>
  BY <1>1, DirectivesTextIs, AllOfRow
<1>8. next \in T /\ t5 \in T /\ next \o t5 \in T
  <2>1. next \in T /\ t5 \in T
    BY <1>2, RestIs
  <2> HIDE DEF next, t5
  <2> QED
    BY <2>1, InFront
<1>9. after = next \o t5
  <2>1. after = <<>> \o (next \o t5)
    <3>1. \A m : Rest(k, w, D, p, m, tail) = PagesRest(k, w, p, m, tail)
      BY <1>2, RestAfterSet
    <3> QED
      BY <1>7, <3>1, Zenon DEF PagesRest
  <2>2. <<>> \o (next \o t5) = next \o t5
    BY <1>8, InFront
  <2> QED
    BY <2>1, <2>2, Zenon
<1>10. Rest(k, w, D, p, q, tail) = Left(parts, 1..q) \o t5
  <2> DEFINE t4 == Left(parts, 1..q)
  <2>1. t4 \in T
    BY <1>2, RestIs
  <2>2. t4 \o t5 \in T
    <3> HIDE DEF t4, t5
    <3> QED
      BY <1>8, <2>1, InFront
  <2>3. Rest(k, w, D, p, q, tail) = <<>> \o (t4 \o t5)
    <3>1. \A m : Rest(k, w, D, p, m, tail) = PagesRest(k, w, p, m, tail)
      BY <1>2, RestAfterSet
    <3> QED
      BY <1>7, <3>1, Zenon DEF PagesRest
  <2>4. <<>> \o (t4 \o t5) = t4 \o t5
    BY <2>2, InFront
  <2> QED
    BY <2>3, <2>4, Zenon
<1>11. q < n
  OBVIOUS
<1>12. Left(parts, 1..q) = TextAt(k + 1, c) \o next
  <2> DEFINE z == q + 1
  <2>1. z = q + 1
    OBVIOUS
  <2> HIDE DEF parts, n, z
  <2>2. Left(parts, 1..q) = parts[z] \o Left(parts, 1..z)
    BY ONLY <1>1, <1>11, <2>1, q \in Nat, NextInRow, ZenonT(30)
  <2> QED
    BY <1>4, <2>2, Zenon DEF z
<1>13. after \in T
  BY <1>8, <1>9
<1>14. Rest(k, w, D, p, q, tail) = TextAt(k + 1, c) \o after
  <2> DEFINE text == TextAt(k + 1, c)
  <2>1. text \in T
    BY <1>6
  <2> HIDE DEF text, next, t5
  <2>2. Associated(text, next, t5)
    BY <1>8, <2>1, InFront
  <2> QED
    BY <1>9, <1>10, <1>12, <2>2, Zenon DEF Associated, text
<1>15. TextAt(k + 1, c) \o after = Opening(c) \o Rest(k + 1, c, {}, 0, 0, after)
  <2> HIDE DEF c, after
  <2>1. BeginsWhole(k + 1, c, after)
    BY <1>2, <1>3, <1>13, WholeText
  <2> QED
    BY <2>1, Zenon DEF BeginsWhole
<1> QED
  BY <1>14, <1>15, Zenon

\* Everything is read: the end comes next.
LEMMA RestEnd ==
    ASSUME NEW k \in 1..3, NEW w, WrittenAs(k, w), NEW tail \in Seq(Spellings)
    PROVE  Rest(k, w, DOMAIN w.set, Len(w.errorPages), Len(w.inside), tail) = EndAnd(tail)
<1> DEFINE pages == Left(ErrorPageTexts(w), 1..Len(w.errorPages))
           inside == Left(InsideTexts(k, w), 1..Len(w.inside))
<1>1. HasWords(w) /\ IsRow(w.inside) /\ InsideTexts(k, w) \in [1..Len(w.inside) -> Seq(Spellings)]
  BY WrittenIsLegible, TextIs
<1>2. Len(w.inside) \in Nat
  BY <1>1 DEF IsRow
<1>3. pages = <<>>
  BY <1>1, DirectivesTextIs, AllOfRow
<1>4. inside = <<>>
  BY <1>1, <1>2, AllOfRow
<1>5. EndAnd(tail) \in Seq(Spellings)
  BY RestIs
<1>6. <<>> \o EndAnd(tail) = EndAnd(tail)
  BY <1>5, InFront
<1>7. Rest(k, w, DOMAIN w.set, Len(w.errorPages), Len(w.inside), tail)
        = PagesRest(k, w, Len(w.errorPages), Len(w.inside), tail)
  BY RestAfterSet
<1>8. PagesRest(k, w, Len(w.errorPages), Len(w.inside), tail) = pages \o (inside \o EndAnd(tail))
  BY Zenon DEF PagesRest
<1> HIDE DEF pages, inside
<1> QED
  BY <1>3, <1>4, <1>6, <1>7, <1>8, Zenon

\* The first values of a row, and one more.
RowOf(f, n) == [m \in 1..n |-> f[m]]

\* One more of the values makes the row one longer.
LEMMA MoreOfRow ==
    ASSUME NEW f, NEW n \in Nat, NEW z, z = n + 1
    PROVE  Append(RowOf(f, n), f[z]) = RowOf(f, z)
<1> DEFINE S == {f[m] : m \in 1..z}
           old == RowOf(f, n)
           new == RowOf(f, z)
<1>1. 1..n \subseteq 1..z /\ z \in 1..z /\ z \in Nat
  OBVIOUS
<1>2. old \in Seq(S) /\ Len(old) = n /\ \A m \in 1..n : old[m] = f[m]
  BY <1>1 DEF RowOf
<1>3. new \in Seq(S) /\ Len(new) = z /\ \A m \in 1..z : new[m] = f[m]
  BY <1>1 DEF RowOf
<1>4. f[z] \in S
  BY <1>1
<1> HIDE DEF S, old, new
<1> DEFINE more == Append(old, f[z])
<1>5. more \in Seq(S) /\ Len(more) = n + 1 /\ more[n + 1] = f[z] /\ \A m \in 1..n : more[m] = old[m]
  BY <1>2, <1>4, AppendProperties
<1> HIDE DEF more
<1>6. \A m \in 1..z : more[m] = new[m]
  <2>1. \A m \in 1..z : m \in 1..n \/ m = n + 1
    OBVIOUS
  <2> QED
    BY <1>2, <1>3, <1>5, <2>1
<1>7. more = new
  BY <1>3, <1>5, <1>6, SeqEqual
<1> QED
  BY <1>7 DEF more, old, new

\* A block of which nothing is read.
LEMMA ReadNothing == ASSUME NEW k, NEW w PROVE Block(w.kind, w.name) = Read(k, w, {}, 0, 0)
<1> DEFINE set == [d \in {} |-> w.set[d]]
           pages == [m \in 1..0 |-> w.errorPages[m]]
           inside == [m \in 1..0 |-> MeaningOf(k + 1, w.inside[m])]
<1>1. set = << >>
  <2>1. set \in [{} -> {}]
    OBVIOUS
  <2> HIDE DEF set
  <2>2. << >> \in [{} -> {}]
    BY EmptyFunction
  <2> QED
    BY <2>1, <2>2
<1>2. pages = <<>>
  OBVIOUS
<1>3. inside = <<>>
  OBVIOUS
<1> QED
  BY <1>1, <1>2, <1>3, Zenon DEF Read, Block

\* A directive more is read.
LEMMA ReadSet ==
    ASSUME NEW k, NEW w, NEW D, NEW p \in Nat, NEW q \in Nat, NEW d, d # "error_page", d \notin D
    PROVE  WithDirective(Read(k, w, D, p, q), d, w.set[d]) = Read(k, w, D \cup {d}, p, q)
<1> DEFINE b == Read(k, w, D, p, q)
           set == With1(b.set, d, w.set[d])
           new == [x \in D \cup {d} |-> w.set[x]]
<1>1. b.set = [x \in D |-> w.set[x]]
  BY Zenon DEF Read
<1>2. set = new
  BY <1>1 DEF With1
<1>3. WithDirective(b, d, w.set[d]) = [b EXCEPT !.set = set]
  BY Zenon DEF WithDirective
<1> DEFINE old == [x \in D |-> w.set[x]]
           kind == w.kind
           name == w.name
           pages == [m \in 1..p |-> w.errorPages[m]]
           inside == [m \in 1..q |-> MeaningOf(k + 1, w.inside[m])]
<1>4. /\ b = [kind |-> kind, name |-> name, set |-> old, errorPages |-> pages, inside |-> inside]
      /\ Read(k, w, D \cup {d}, p, q) =
           [kind |-> kind, name |-> name, set |-> new, errorPages |-> pages, inside |-> inside]
  BY Zenon DEF Read
<1> HIDE DEF b, set, new, old, kind, name, pages, inside
<1>5. [b EXCEPT !.set = set] =
        [kind |-> kind, name |-> name, set |-> set, errorPages |-> pages, inside |-> inside]
  BY <1>4
<1> QED
  BY <1>2, <1>3, <1>4, <1>5, Zenon DEF b

\* An error page more.
LEMMA ReadErrorPage ==
    ASSUME NEW k, NEW w, NEW D, NEW p \in Nat, NEW q \in Nat, NEW z, z = p + 1
    PROVE  WithDirective(Read(k, w, D, p, q), "error_page", w.errorPages[z]) = Read(k, w, D, z, q)
<1> DEFINE b == Read(k, w, D, p, q)
           words == w.errorPages[z]
           old == RowOf(w.errorPages, p)
           new == RowOf(w.errorPages, z)
           kind == w.kind
           name == w.name
           set == [x \in D |-> w.set[x]]
           inside == [m \in 1..q |-> MeaningOf(k + 1, w.inside[m])]
<1>1. Append(old, words) = new
  BY MoreOfRow
<1>2. /\ b = [kind |-> kind, name |-> name, set |-> set, errorPages |-> old, inside |-> inside]
      /\ Read(k, w, D, z, q) =
           [kind |-> kind, name |-> name, set |-> set, errorPages |-> new, inside |-> inside]
  BY Zenon DEF Read, RowOf
<1>3. WithDirective(b, "error_page", words) = [b EXCEPT !.errorPages = Append(@, words)]
  BY Zenon DEF WithDirective
<1> HIDE DEF b, words, old, new, kind, name, set, inside
<1>4. b.errorPages = old
  BY <1>2
<1>5. [b EXCEPT !.errorPages = Append(@, words)] = [b EXCEPT !.errorPages = Append(b.errorPages, words)]
  OBVIOUS
<1>6. [b EXCEPT !.errorPages = new] =
        [kind |-> kind, name |-> name, set |-> set, errorPages |-> new, inside |-> inside]
  BY <1>2
<1> QED
  BY <1>1, <1>2, <1>3, <1>4, <1>5, <1>6, Zenon DEF b, words

\* A block inside more.
LEMMA ReadInside ==
    ASSUME NEW k, NEW w, NEW D, NEW p \in Nat, NEW q \in Nat, NEW z, z = q + 1,
           NEW b, b = Read(k, w, D, p, q)
    PROVE  GivenInside(b, Append(b.inside, MeaningOf(k + 1, w.inside[z]))) = Read(k, w, D, p, z)
<1> DEFINE f == [m \in 1..z |-> MeaningOf(k + 1, w.inside[m])]
           c == MeaningOf(k + 1, w.inside[z])
           old == RowOf(f, q)
           new == RowOf(f, z)
           kind == w.kind
           name == w.name
           set == [x \in D |-> w.set[x]]
           pages == [m \in 1..p |-> w.errorPages[m]]
<1>1. f[z] = c
  OBVIOUS
<1>2. Append(old, f[z]) = new
  <2> HIDE DEF f
  <2> QED
    BY MoreOfRow
<1>3. old = [m \in 1..q |-> MeaningOf(k + 1, w.inside[m])]
  <2>1. 1..q \subseteq 1..z
    OBVIOUS
  <2> QED
    BY <2>1 DEF RowOf
<1>4. new = f
  BY DEF RowOf
<1>5. /\ b = [kind |-> kind, name |-> name, set |-> set, errorPages |-> pages, inside |-> old]
      /\ Read(k, w, D, p, z) =
           [kind |-> kind, name |-> name, set |-> set, errorPages |-> pages, inside |-> new]
  BY <1>3, <1>4, Zenon DEF Read
<1> HIDE DEF f, c, old, new, kind, name, set, pages
<1>6. b.inside = old
  BY <1>5
<1>7. GivenInside(b, new) =
        [kind |-> kind, name |-> name, set |-> set, errorPages |-> pages, inside |-> new]
  BY <1>5 DEF GivenInside
<1> QED
  BY <1>1, <1>2, <1>5, <1>6, <1>7, Zenon DEF c

\* A sequence is the row of its values.
LEMMA RowOfAll ==
    ASSUME NEW S, NEW s \in Seq(S)
    PROVE  s = [m \in 1..Len(s) |-> s[m]]
<1> DEFINE row == [m \in 1..Len(s) |-> s[m]]
<1>1. Len(s) \in Nat /\ \A m \in 1..Len(s) : s[m] \in S
  BY LenProperties, ElementOfSeq
<1>2. row \in Seq(S) /\ Len(row) = Len(s) /\ \A m \in 1..Len(s) : row[m] = s[m]
  BY <1>1
<1> HIDE DEF row
<1>3. s = row
  BY <1>2, SeqEqual
<1> QED
  BY <1>3, Zenon DEF row

\* All of a block is read: what the parser has made of it is what it means.
LEMMA ReadAll ==
    ASSUME NEW k \in 1..3, NEW w, WrittenAs(k, w), NEW yes,
           yes <=> (k = 2 /\ "listen" \notin DOMAIN w.set)
    PROVE  WithListen(yes, Read(k, w, DOMAIN w.set, Len(w.errorPages), Len(w.inside))) = MeaningOf(k, w)
<1> DEFINE b == Read(k, w, DOMAIN w.set, Len(w.errorPages), Len(w.inside))
           inside == [m \in 1..Len(w.inside) |-> MeaningOf(k + 1, w.inside[m])]
           S == {w.inside[m] : m \in DOMAIN w.inside}
<1>1. /\ HasWords(w) /\ w.set \in [DOMAIN w.set -> {w.set[d] : d \in DOMAIN w.set}]
      /\ w.inside \in Seq(S) /\ IsRow(w.inside)
  <2>1. Sound(k, w)
    BY WrittenIsSound
  <2> QED
    BY <2>1, Zenon DEF Sound
<1>2. w.set = [d \in DOMAIN w.set |-> w.set[d]]
  <2> DEFINE set == w.set
             D == DOMAIN w.set
             R == {w.set[d] : d \in DOMAIN w.set}
  <2>1. set \in [D -> R]
    BY <1>1
  <2> HIDE DEF set, D, R
  <2>2. set = [d \in D |-> set[d]]
    BY <2>1
  <2> QED
    BY <2>2, Zenon DEF set, D
<1>3. w.errorPages = [m \in 1..Len(w.errorPages) |-> w.errorPages[m]]
  BY <1>1, RowOfAll DEF HasWords
<1>4. w.inside = [m \in 1..Len(w.inside) |-> w.inside[m]]
  BY <1>1, RowOfAll
<1>5. b = GivenInside(w, inside)
  <2> DEFINE kind == w.kind
             name == w.name
             set == w.set
             pages == w.errorPages
             old == w.inside
  <2>1. w = [kind |-> kind, name |-> name, set |-> set, errorPages |-> pages, inside |-> old]
    BY <1>1, Zenon DEF HasWords, HasFields
  <2>2. b = [kind |-> kind, name |-> name, set |-> set, errorPages |-> pages, inside |-> inside]
    BY <1>2, <1>3, Zenon DEF Read
  <2> HIDE DEF kind, name, set, pages, old, b, inside
  <2>3. GivenInside(w, inside) =
          [kind |-> kind, name |-> name, set |-> set, errorPages |-> pages, inside |-> inside]
    BY <2>1 DEF GivenInside
  <2> QED
    BY <2>2, <2>3, Zenon
<1>6. inside = w.inside => b = w
  <2> DEFINE old == w.inside
  <2>1. HasFields(w)
    BY <1>1 DEF HasWords
  <2> HIDE DEF old
  <2>2. GivenInside(w, w.inside) = w
    BY <2>1 DEF HasFields, GivenInside
  <2> HIDE DEF b, inside
  <2> QED
    BY <1>5, <2>2, Zenon
<1>7. CASE k = 1
  <2> DEFINE meant == [m \in DOMAIN w.inside |-> Listening(w.inside[m])]
  <2>1. \A m : MeaningOf(k + 1, w.inside[m]) = Listening(w.inside[m])
    <3>1. k + 1 = 2 /\ 2 # 1
      BY <1>7
    <3> QED
      BY <3>1, Zenon DEF MeaningOf, Listening, WithListen
  <2>2. DOMAIN w.inside = 1..Len(w.inside)
    BY <1>1 DEF IsRow
  <2>3. inside = meant
    <3> DEFINE f(m) == MeaningOf(k + 1, w.inside[m])
               g(m) == Listening(w.inside[m])
    <3>1. \A m : f(m) = g(m)
      BY <2>1, Zenon
    <3>2. inside = [m \in 1..Len(w.inside) |-> f(m)] /\ meant = [m \in 1..Len(w.inside) |-> g(m)]
      BY <2>2
    <3> HIDE DEF f, g, inside, meant
    <3> QED
      BY <3>1, <3>2
  <2>4. MeaningOf(k, w) = GivenInside(w, meant)
    <3>1. MeaningOf(k, w) = Meaning(w)
      BY <1>7, Zenon DEF MeaningOf
    <3>2. Meaning(w) = [w EXCEPT !.inside = meant]
      BY Zenon DEF Meaning
    <3> QED
      BY <3>1, <3>2, Zenon DEF GivenInside
  <2>5. WithListen(yes, b) = b
    BY <1>7 DEF WithListen
  <2> HIDE DEF b, inside, meant
  <2> QED
    BY <1>5, <2>3, <2>4, <2>5, Zenon DEF b
<1>8. CASE k = 2
  <2>1. \A m : MeaningOf(k + 1, w.inside[m]) = w.inside[m]
    BY <1>8 DEF MeaningOf
  <2>2. inside = w.inside
    <3> DEFINE f(m) == MeaningOf(k + 1, w.inside[m])
    <3>1. \A m : f(m) = w.inside[m]
      BY <2>1
    <3> HIDE DEF f
    <3>2. [m \in 1..Len(w.inside) |-> f(m)] = [m \in 1..Len(w.inside) |-> w.inside[m]]
      BY <3>1
    <3> QED
      BY <1>4, <3>2, Zenon DEF f
  <2>3. b = w
    BY <1>6, <2>2
  <2> HIDE DEF b
  <2>4. WithListen(yes, w) = MeaningOf(k, w)
    BY <1>8 DEF WithListen, MeaningOf
  <2> QED
    BY <2>3, <2>4, Zenon DEF b
<1>9. CASE k = 3
  <2>1. w.inside = <<>>
    BY <1>9 DEF WrittenAs, IsWrittenLocation
  <2>2. inside = w.inside
    BY <2>1
  <2>3. b = w
    BY <1>6, <2>2
  <2> HIDE DEF b
  <2>4. WithListen(yes, w) = MeaningOf(k, w)
    BY <1>9 DEF WithListen, MeaningOf
  <2> QED
    BY <2>3, <2>4, Zenon DEF b
<1>10. k = 1 \/ k = 2 \/ k = 3
  OBVIOUS
<1> QED
  BY <1>7, <1>8, <1>9, <1>10

\* How far a block has been read, as the parser has it, and what is left then.
ReadOf(k, b, w) == Read(k, w, DOMAIN b.set, Len(b.errorPages), Len(b.inside))
RestOf(k, b, w, tail) == Rest(k, w, DOMAIN b.set, Len(b.errorPages), Len(b.inside), tail)
\* The same, after the block inside that is being read.
RestBelow(k, b, w, tail) == Rest(k, w, DOMAIN b.set, Len(b.errorPages), Len(b.inside) + 1, tail)

\* A block that is being read is a part of the one that was written.
Partly(k, b, w) ==
    b = ReadOf(k, b, w) /\ CanBeRead(w, DOMAIN b.set, Len(b.errorPages), Len(b.inside))

\* What is read in part has its numbers.
LEMMA PartlyIs ==
    ASSUME NEW k, NEW w, NEW D, NEW p \in Nat, NEW q \in Nat, CanBeRead(w, D, p, q),
           NEW b, b = Read(k, w, D, p, q)
    PROVE  /\ Partly(k, b, w) /\ DOMAIN b.set = D /\ Len(b.errorPages) = p /\ Len(b.inside) = q
           /\ \A tail : RestOf(k, b, w, tail) = Rest(k, w, D, p, q, tail)
<1>1. DOMAIN b.set = D /\ Len(b.errorPages) = p /\ Len(b.inside) = q
  BY ReadIs
<1>2. Partly(k, b, w)
  BY <1>1, Zenon DEF Partly, ReadOf
<1>3. \A tail : RestOf(k, b, w, tail) = Rest(k, w, D, p, q, tail)
  BY <1>1, Zenon DEF RestOf
<1> QED
  BY <1>1, <1>2, <1>3

\* A directive comes next, and the block is then read so far.
Reads(k, b, w, tail, d, words) ==
    /\ d = "error_page" \/ d \in Directives[KindAt(k)] \ DOMAIN b.set
    /\ CanBeGiven(d, words) /\ Partly(k, WithDirective(b, d, words), w)
    /\ RestOf(k, b, w, tail)
         = DirectiveText(d, words) \o RestOf(k, WithDirective(b, d, words), w, tail)
ReadsSome(k, b, w, tail) == \E d, words : Reads(k, b, w, tail, d, words)

\* One does while some are left.
LEMMA NextIsDirective ==
    ASSUME NEW k \in 1..3, NEW w, WrittenAs(k, w), NEW b, Partly(k, b, w), NEW tail \in Seq(Spellings),
           DOMAIN b.set # DOMAIN w.set \/ Len(b.errorPages) # Len(w.errorPages)
    PROVE  ReadsSome(k, b, w, tail)
<1> DEFINE D == DOMAIN b.set
           p == Len(b.errorPages)
           q == Len(b.inside)
           z == p + 1
<1>1. /\ HasWords(w) /\ w.kind = KindAt(k) /\ DOMAIN w.set \subseteq Directives[KindAt(k)]
      /\ \A d \in DOMAIN w.set : CanBeGiven(d, w.set[d])
      /\ \A m \in DOMAIN w.errorPages : CanBeGiven("error_page", w.errorPages[m])
      /\ IsRow(w.inside)
  <2>1. Sound(k, w)
    BY WrittenIsSound
  <2> QED
    BY <2>1, Zenon DEF Sound
<1>2. /\ b = Read(k, w, D, p, q) /\ CanBeRead(w, D, p, q)
      /\ p \in 0..Len(w.errorPages) /\ q \in 0..Len(w.inside) /\ D \subseteq DOMAIN w.set
  BY Zenon DEF Partly, ReadOf, CanBeRead
<1>3. Len(w.errorPages) \in Nat /\ DOMAIN w.errorPages = 1..Len(w.errorPages) /\ Len(w.inside) \in Nat
  BY <1>1, LenProperties DEF HasWords, IsRow
<1> HIDE DEF D, p, q
<1>4. p \in Nat /\ q \in Nat
  BY <1>2, <1>3
<1>5. RestOf(k, b, w, tail) = Rest(k, w, D, p, q, tail)
  BY Zenon DEF RestOf, D, p, q
<1>6. CASE D # DOMAIN w.set
  <2>1. PICK d \in DOMAIN w.set \ D :
          Rest(k, w, D, p, q, tail) = DirectiveText(d, w.set[d]) \o Rest(k, w, D \cup {d}, p, q, tail)
    <3>1. SetNext(k, w, D, p, q, tail)
      BY <1>2, <1>4, <1>6, RestSet
    <3> QED
      BY <3>1, Zenon DEF SetNext
  <2>2. d \in DirectiveNames /\ d # "error_page" /\ d \notin D
    BY <1>1, <2>1, NamesDiffer DEF HasWords
  <2> DEFINE c == WithDirective(b, d, w.set[d])
             E == D \cup {d}
  <2>3. c = Read(k, w, E, p, q)
    <3> HIDE DEF c
    <3>1. WithDirective(Read(k, w, D, p, q), d, w.set[d]) = Read(k, w, D \cup {d}, p, q)
      BY <1>4, <2>2, ReadSet
    <3> QED
      BY <1>2, <3>1, Zenon DEF c
  <2>4. CanBeRead(w, E, p, q)
    BY <1>2, <2>1 DEF CanBeRead
  <2> HIDE DEF c, E
  <2>5. Partly(k, c, w) /\ \A x : RestOf(k, c, w, x) = Rest(k, w, E, p, q, x)
    BY <1>4, <2>3, <2>4, PartlyIs
  <2>6. CanBeGiven(d, w.set[d]) /\ d \in Directives[KindAt(k)] \ DOMAIN b.set
    BY <1>1, <2>1 DEF D
  <2>7. Reads(k, b, w, tail, d, w.set[d])
    BY <1>5, <2>1, <2>5, <2>6, Zenon DEF Reads, c, E
  <2> QED
    BY <2>7, Zenon DEF ReadsSome
<1>7. CASE D = DOMAIN w.set /\ p # Len(w.errorPages)
  <2> DEFINE words == w.errorPages[z]
             c == WithDirective(b, "error_page", words)
  <2>1. p < Len(w.errorPages) /\ z \in Nat /\ z \in 0..Len(w.errorPages) /\ z \in DOMAIN w.errorPages
    BY <1>2, <1>3, <1>4, <1>7
  <2>2. Rest(k, w, D, p, q, tail) = DirectiveText("error_page", words) \o Rest(k, w, D, z, q, tail)
    <3>1. PageNext(k, w, p, q, z, tail)
      BY <1>4, <2>1, RestErrorPage
    <3> QED
      BY <1>7, <3>1, Zenon DEF PageNext
  <2>3. c = Read(k, w, D, z, q)
    <3>1. WithDirective(Read(k, w, D, p, q), "error_page", w.errorPages[z]) = Read(k, w, D, z, q)
      BY <1>4, ReadErrorPage
    <3> QED
      BY <1>2, <3>1, Zenon
  <2>4. CanBeRead(w, D, z, q)
    BY <1>2, <2>1, Zenon DEF CanBeRead
  <2>5. CanBeGiven("error_page", words)
    BY <1>1, <2>1
  <2> HIDE DEF c, z, words
  <2>6. Partly(k, c, w) /\ RestOf(k, c, w, tail) = Rest(k, w, D, z, q, tail)
    BY <1>4, <2>1, <2>3, <2>4, PartlyIs
  <2>7. Reads(k, b, w, tail, "error_page", words)
    BY <1>5, <2>2, <2>5, <2>6, Zenon DEF Reads, c
  <2> QED
    BY <2>7, Zenon DEF ReadsSome
<1> QED
  BY <1>6, <1>7 DEF D, p

\* A block comes next, of which nothing is read then.
Opens(k, b, w, tail) ==
    LET c == w.inside[Len(b.inside) + 1]
        new == Block(c.kind, c.name)
    IN  /\ WrittenAs(k + 1, c) /\ Partly(k + 1, new, c) /\ Len(b.inside) < Len(w.inside)
        /\ RestBelow(k, b, w, tail) \in Seq(Spellings)
        /\ RestOf(k, b, w, tail) = Opening(c) \o RestOf(k + 1, new, c, RestBelow(k, b, w, tail))

\* One does when all directives are read and a block is left.
LEMMA NextIsBlock ==
    ASSUME NEW k \in 1..3, NEW w, WrittenAs(k, w), NEW b, Partly(k, b, w), NEW tail \in Seq(Spellings),
           DOMAIN b.set = DOMAIN w.set, Len(b.errorPages) = Len(w.errorPages),
           Len(b.inside) # Len(w.inside)
    PROVE  k \in 1..2 /\ Opens(k, b, w, tail)
<1> DEFINE q == Len(b.inside)
           D == DOMAIN w.set
           p == Len(w.errorPages)
           c == w.inside[q + 1]
           new == Block(c.kind, c.name)
           after == Rest(k, w, D, p, q + 1, tail)
<1>1. /\ IsRow(w.inside) /\ \A m \in DOMAIN w.inside : k # 3 /\ WrittenAs(k + 1, w.inside[m])
      /\ HasWords(w)
  <2>1. Sound(k, w)
    BY WrittenIsSound
  <2> QED
    BY <2>1, Zenon DEF Sound
<1>2. q \in 0..Len(w.inside) /\ Len(w.inside) \in Nat /\ DOMAIN w.inside = 1..Len(w.inside)
  <2>1. q \in 0..Len(w.inside)
    BY Zenon DEF Partly, CanBeRead
  <2> QED
    BY <1>1, <2>1 DEF IsRow
<1> HIDE DEF q
<1>3. q \in Nat /\ q < Len(w.inside) /\ q + 1 \in 1..Len(w.inside) /\ q + 1 \in DOMAIN w.inside
  BY <1>2 DEF q
<1>4. k \in 1..2 /\ WrittenAs(k + 1, c) /\ k + 1 \in 1..3
  BY <1>1, <1>3
<1>5. after \in Seq(Spellings)
  BY RestIs
<1>6. Rest(k, w, D, p, q, tail) = Opening(c) \o Rest(k + 1, c, {}, 0, 0, after)
  BY <1>3, <1>4, RestInside
<1>7. new = Read(k + 1, c, {}, 0, 0)
  BY ReadNothing
<1>8. CanBeRead(c, {}, 0, 0)
  <2>1. HasWords(c) /\ IsRow(c.inside)
    <3>1. Sound(k + 1, c)
      BY <1>4, WrittenIsSound
    <3> QED
      BY <3>1, Zenon DEF Sound
  <2>2. Len(c.errorPages) \in Nat /\ Len(c.inside) \in Nat
    BY <2>1, LenProperties DEF HasWords, IsRow
  <2> HIDE DEF c
  <2>3. 0 \in 0..Len(c.errorPages) /\ 0 \in 0..Len(c.inside) /\ {} \subseteq DOMAIN c.set
    BY <2>2
  <2> QED
    BY <2>3, Zenon DEF CanBeRead
<1>9. 0 \in Nat
  OBVIOUS
<1> DEFINE kk == k + 1
<1> HIDE DEF c, new, after, kk
<1>10. Partly(kk, new, c) /\ RestOf(kk, new, c, after) = Rest(kk, c, {}, 0, 0, after)
  BY <1>7, <1>8, <1>9, PartlyIs DEF kk
<1>11. RestOf(k, b, w, tail) = Rest(k, w, D, p, q, tail) /\ RestBelow(k, b, w, tail) = after
  BY Zenon DEF RestOf, RestBelow, q, after
<1> QED
  BY <1>3, <1>4, <1>5, <1>6, <1>10, <1>11, Zenon DEF Opens, new, c, q, kk

\* The brace that ends a block comes when all is read, and the block is what it means.
LEMMA NextIsEnd ==
    ASSUME NEW k \in 1..3, NEW w, WrittenAs(k, w), NEW b, Partly(k, b, w), NEW tail \in Seq(Spellings),
           DOMAIN b.set = DOMAIN w.set, Len(b.errorPages) = Len(w.errorPages),
           Len(b.inside) = Len(w.inside), NEW yes, yes <=> (k = 2 /\ "listen" \notin DOMAIN b.set)
    PROVE  RestOf(k, b, w, tail) = EndAnd(tail) /\ WithListen(yes, b) = MeaningOf(k, w)
<1>1. RestOf(k, b, w, tail) = Rest(k, w, DOMAIN w.set, Len(w.errorPages), Len(w.inside), tail)
  BY Zenon DEF RestOf
<1>2. b = Read(k, w, DOMAIN w.set, Len(w.errorPages), Len(w.inside))
  BY Zenon DEF Partly, ReadOf
<1>3. RestOf(k, b, w, tail) = EndAnd(tail)
  BY <1>1, RestEnd
<1>4. WithListen(yes, Read(k, w, DOMAIN w.set, Len(w.errorPages), Len(w.inside))) = MeaningOf(k, w)
  BY ReadAll
<1> QED
  BY <1>2, <1>3, <1>4, Zenon

\* What a block is at its end.
AtItsEnd(k, b) == IF k = 2 /\ "listen" \notin DOMAIN b.set THEN WithListen(TRUE, b) ELSE b

\* When all is read, the brace comes, and what the parser makes is what was meant.
LEMMA EndIsMeaning ==
    ASSUME NEW k \in 1..3, NEW w, WrittenAs(k, w), NEW b, Partly(k, b, w), NEW tail \in Seq(Spellings),
           DOMAIN b.set = DOMAIN w.set, Len(b.errorPages) = Len(w.errorPages),
           Len(b.inside) = Len(w.inside)
    PROVE  RestOf(k, b, w, tail) = EndAnd(tail) /\ AtItsEnd(k, b) = MeaningOf(k, w)
<1>1. PICK yes : yes <=> (k = 2 /\ "listen" \notin DOMAIN b.set)
  OBVIOUS
<1>2. RestOf(k, b, w, tail) = EndAnd(tail) /\ WithListen(yes, b) = MeaningOf(k, w)
  BY <1>1, NextIsEnd
<1>3. AtItsEnd(k, b) = WithListen(yes, b)
  BY <1>1, Zenon DEF AtItsEnd, WithListen
<1> QED
  BY <1>2, <1>3

\* The block it is inside then has it.
LEMMA AfterInside ==
    ASSUME NEW k, NEW w, NEW b, Partly(k, b, w), Len(w.inside) \in Nat, Len(w.errorPages) \in Nat,
           Len(b.inside) < Len(w.inside), NEW z, z = Len(b.inside) + 1,
           NEW c, c = MeaningOf(k + 1, w.inside[z]), NEW d, d = GivenInside(b, Append(b.inside, c))
    PROVE  Partly(k, d, w) /\ \A tail : RestOf(k, d, w, tail) = RestBelow(k, b, w, tail)
<1> DEFINE D == DOMAIN b.set
           p == Len(b.errorPages)
           q == Len(b.inside)
<1>1. b = Read(k, w, D, p, q) /\ CanBeRead(w, D, p, q)
  BY Zenon DEF Partly, ReadOf
<1>2. z = q + 1 /\ q < Len(w.inside)
  OBVIOUS
<1> HIDE DEF D, p, q
<1>3. p \in Nat /\ q \in Nat /\ z \in Nat /\ z \in 0..Len(w.inside)
  <2>1. p \in 0..Len(w.errorPages) /\ q \in 0..Len(w.inside)
    BY <1>1, Zenon DEF CanBeRead
  <2>2. p \in Nat /\ q \in Nat
    BY <2>1
  <2> QED
    BY <1>2, <2>2
<1>4. CanBeRead(w, D, p, z)
  BY <1>1, <1>3, Zenon DEF CanBeRead
<1>5. d = Read(k, w, D, p, z)
  <2>1. GivenInside(b, Append(b.inside, MeaningOf(k + 1, w.inside[z]))) = Read(k, w, D, p, z)
    BY <1>1, <1>2, <1>3, ReadInside, SMTT(30)
  <2> QED
    BY <2>1, Zenon
<1>6. Partly(k, d, w) /\ \A tail : RestOf(k, d, w, tail) = Rest(k, w, D, p, z, tail)
  BY <1>3, <1>4, <1>5, PartlyIs
<1>7. \A tail : RestBelow(k, b, w, tail) = Rest(k, w, D, p, z, tail)
  BY <1>2, Zenon DEF RestBelow, D, p, q
<1> QED
  BY <1>6, <1>7, Zenon

-----------------------------------------------------------------------------
(***************************************************************************)
(* ConfParser: a file that was written from blocks is what they mean.      *)
(***************************************************************************)
\* Of the blocks that were written, the one that is being read at each depth.
At(blocks, w, k) ==
    IF k = 1 THEN w
    ELSE IF k = 2 THEN w.inside[Len(blocks[1].inside) + 1]
    ELSE w.inside[Len(blocks[1].inside) + 1].inside[Len(blocks[2].inside) + 1]

\* What comes after it.
TailAt(blocks, w, k) ==
    IF k = 1 THEN <<>>
    ELSE IF k = 2 THEN RestBelow(1, blocks[1], w, <<>>)
    ELSE RestBelow(2, blocks[2], At(blocks, w, 2), RestBelow(1, blocks[1], w, <<>>))

\* The block that is being read at a depth is the one that was written, so far.
FollowsAt(blocks, w, k) ==
    /\ WrittenAs(k, At(blocks, w, k)) /\ Partly(k, blocks[k], At(blocks, w, k))
    /\ TailAt(blocks, w, k) \in Seq(Spellings)
    /\ k < Len(blocks) => Len(blocks[k].inside) < Len(At(blocks, w, k).inside)

\* So are all, and what is left of the file is what is left of them.
Follows(blocks, w, text) ==
    /\ \A k \in 1..Len(blocks) : FollowsAt(blocks, w, k)
    /\ text = RestOf(Len(blocks), blocks[Len(blocks)], At(blocks, w, Len(blocks)),
                     TailAt(blocks, w, Len(blocks)))

Remaining == SubSeq(tokens, token_index, Len(tokens))

\* A file that was written from blocks is read as they were written.
WrittenInv ==
    written # Unwritten =>
        /\ IsWrittenHttp(written) /\ parser # "error"
        /\ parser = "parsed" => httpContext = Meaning(written)
        /\ contexts = <<>> =>
             \/ httpContext = Unwritten /\ Remaining = HttpText(written)
             \/ httpContext = Meaning(written) /\ Remaining = <<>>
        /\ contexts # <<>> => httpContext = Unwritten /\ Follows(contexts, written, Remaining)

\* Only the blocks around it matter to where a block is.
LEMMA SameAround ==
    ASSUME NEW old, NEW new, NEW w, NEW n \in 1..3, \A m \in 1..(n - 1) : new[m] = old[m]
    PROVE  At(new, w, n) = At(old, w, n) /\ TailAt(new, w, n) = TailAt(old, w, n)
<1>1. CASE n = 1
  BY <1>1 DEF At, TailAt
<1>2. CASE n = 2
  <2>1. new[1] = old[1]
    BY <1>2
  <2> QED
    BY <1>2, <2>1, Zenon DEF At, TailAt
<1>3. CASE n = 3
  <2>1. new[1] = old[1] /\ new[2] = old[2]
    BY <1>3
  <2> QED
    BY <1>3, <2>1, Zenon DEF At, TailAt
<1>4. n = 1 \/ n = 2 \/ n = 3
  OBVIOUS
<1> QED
  BY <1>1, <1>2, <1>3, <1>4

\* One deeper.
LEMMA AtNext ==
    ASSUME NEW blocks, NEW w, NEW k \in 1..2, NEW z, z = k + 1
    PROVE  /\ At(blocks, w, z) = At(blocks, w, k).inside[Len(blocks[k].inside) + 1]
           /\ TailAt(blocks, w, z) = RestBelow(k, blocks[k], At(blocks, w, k), TailAt(blocks, w, k))
<1>1. CASE k = 1
  <2>1. z = 2 /\ 2 # 1
    BY <1>1
  <2> QED
    BY <1>1, <2>1, Zenon DEF At, TailAt
<1>2. CASE k = 2
  <2>1. z = 3 /\ 3 # 1 /\ 3 # 2 /\ 2 # 1
    BY <1>2
  <2> QED
    BY <1>2, <2>1, Zenon DEF At, TailAt
<1>3. k = 1 \/ k = 2
  OBVIOUS
<1> QED
  BY <1>1, <1>2, <1>3

\* When the innermost block changes, or one is opened or closed.
LEMMA FollowsIf ==
    ASSUME NEW old, NEW new, NEW w, NEW n \in 1..3, Len(new) = n,
           \A m \in 1..(n - 1) : /\ new[m] = old[m] /\ FollowsAt(old, w, m)
                                 /\ Len(old[m].inside) < Len(At(old, w, m).inside),
           WrittenAs(n, At(old, w, n)), Partly(n, new[n], At(old, w, n)),
           TailAt(old, w, n) \in Seq(Spellings), NEW text,
           text = RestOf(n, new[n], At(old, w, n), TailAt(old, w, n))
    PROVE  Follows(new, w, text)
<1>1. At(new, w, n) = At(old, w, n) /\ TailAt(new, w, n) = TailAt(old, w, n)
  <2>1. n \in 1..3 /\ \A m \in 1..(n - 1) : new[m] = old[m]
    OBVIOUS
  <2> QED
    BY ONLY <2>1, SameAround
<1>2. FollowsAt(new, w, n)
  <2>1. ~(n < Len(new))
    OBVIOUS
  <2> QED
    BY <1>1, <2>1, Zenon DEF FollowsAt
<1>3. ASSUME NEW k \in 1..(n - 1) PROVE FollowsAt(new, w, k)
  <2>1. k \in 1..3 /\ \A m \in 1..(k - 1) : new[m] = old[m]
    OBVIOUS
  <2>2. At(new, w, k) = At(old, w, k) /\ TailAt(new, w, k) = TailAt(old, w, k)
    BY ONLY <2>1, SameAround
  <2>3. new[k] = old[k] /\ FollowsAt(old, w, k) /\ Len(old[k].inside) < Len(At(old, w, k).inside)
    OBVIOUS
  <2> QED
    BY <2>2, <2>3, Zenon DEF FollowsAt
<1>4. \A k \in 1..Len(new) : k \in 1..(n - 1) \/ k = n
  OBVIOUS
<1>5. \A k \in 1..Len(new) : FollowsAt(new, w, k)
  BY <1>2, <1>3, <1>4
<1> QED
  BY <1>1, <1>5, Zenon DEF Follows

\* A word, a text and a word.
LEMMA BracketIs ==
    ASSUME NEW S, NEW x \in S, NEW z \in S, NEW t \in Seq(S), NEW p, p = <<x>> \o t \o <<z>>
    PROVE  /\ p \in Seq(S) /\ Len(p) = Len(t) + 2 /\ p[1] = x /\ p[Len(t) + 2] = z
           /\ \A m \in 1..Len(t) : p[m + 1] = t[m]
<1> DEFINE first == <<x>>
           last == <<z>>
           most == first \o t
<1>1. /\ first \in Seq(S) /\ Len(first) = 1 /\ first[1] = x
      /\ last \in Seq(S) /\ Len(last) = 1 /\ last[1] = z
  BY OneWord
<1>2. p = most \o last
  OBVIOUS
<1>3. Len(t) \in Nat
  BY LenProperties
<1> HIDE DEF first, last
<1>4. /\ most \in Seq(S) /\ Len(most) = Len(t) + 1 /\ most[1] = x
      /\ \A m \in 1..Len(t) : most[m + 1] = t[m]
  <2>1. /\ most \in Seq(S) /\ Len(most) = Len(first) + Len(t)
        /\ \A m \in 1..(Len(first) + Len(t)) :
             most[m] = IF m <= Len(first) THEN first[m] ELSE t[m - Len(first)]
    BY <1>1, ConcatProperties
  <2> HIDE DEF most
  <2>2. Len(most) = Len(t) + 1 /\ most[1] = x
    BY <1>1, <1>3, <2>1
  <2>3. ASSUME NEW m \in 1..Len(t) PROVE most[m + 1] = t[m]
    <3>1. m + 1 \in 1..(Len(first) + Len(t)) /\ ~(m + 1 <= Len(first)) /\ (m + 1) - Len(first) = m
      BY <1>1, <1>3
    <3> QED
      BY <2>1, <3>1
  <2> QED
    BY <2>1, <2>2, <2>3
<1> HIDE DEF most
<1>5. /\ p \in Seq(S) /\ Len(p) = Len(most) + 1
      /\ \A m \in 1..(Len(most) + 1) : p[m] = IF m <= Len(most) THEN most[m] ELSE last[m - Len(most)]
  BY <1>1, <1>2, <1>4, ConcatProperties
<1>6. Len(p) = Len(t) + 2 /\ p[1] = x /\ p[Len(t) + 2] = z
  <2>1. Len(most) = Len(t) + 1 /\ Len(t) + 2 \in 1..(Len(most) + 1) /\ ~(Len(t) + 2 <= Len(most))
        /\ (Len(t) + 2) - Len(most) = 1 /\ 1 \in 1..(Len(most) + 1) /\ 1 <= Len(most)
    BY <1>3, <1>4
  <2>2. p[Len(t) + 2] = last[1]
    BY <1>5, <2>1
  <2>3. p[1] = most[1]
    BY <1>5, <2>1
  <2>4. Len(p) = Len(t) + 2
    BY <1>3, <1>5, <2>1
  <2> QED
    BY <1>1, <1>4, <2>2, <2>3, <2>4
<1>7. ASSUME NEW m \in 1..Len(t) PROVE p[m + 1] = t[m]
  <2>1. m + 1 \in 1..(Len(most) + 1) /\ m + 1 <= Len(most)
    BY <1>3, <1>4
  <2>2. p[m + 1] = most[m + 1]
    BY <1>5, <2>1
  <2> QED
    BY <1>4, <2>2
<1> QED
  BY <1>5, <1>6, <1>7

\* What is left of a file begins with a piece: the next tokens are the piece,
\* and the others are what is left after it.
Comes(h, piece, rest) ==
    /\ \A m \in 1..Len(piece) : h + m - 1 \in 1..Len(tokens) /\ tokens[h + m - 1] = piece[m]
    /\ SubSeq(tokens, h + Len(piece), Len(tokens)) = rest

\* So it is when what is left is the piece and a rest.
LEMMA PieceComes ==
    ASSUME tokens \in Seq(Spellings), NEW h \in Nat, h >= 1,
           NEW piece \in Seq(Spellings), NEW rest \in Seq(Spellings), piece # <<>>,
           SubSeq(tokens, h, Len(tokens)) = piece \o rest
    PROVE  Comes(h, piece, rest)
<1> DEFINE L == Len(tokens)
           P == Len(piece)
           R == Len(rest)
           all == SubSeq(tokens, h, L)
           left == SubSeq(tokens, h + P, L)
<1>1. L \in Nat /\ P \in Nat /\ R \in Nat /\ P >= 1
      /\ \A m \in 1..L : tokens[m] \in Spellings
  BY LenProperties, EmptySeq
<1>2. /\ Len(all) = P + R
      /\ \A m \in 1..(P + R) : all[m] = IF m <= P THEN piece[m] ELSE rest[m - P]
  <2> DEFINE both == piece \o rest
  <2>1. /\ Len(both) = P + R
        /\ \A m \in 1..(P + R) : both[m] = IF m <= P THEN piece[m] ELSE rest[m - P]
    BY ConcatProperties
  <2>2. all = both
    OBVIOUS
  <2> HIDE DEF all, both
  <2> QED
    BY <2>1, <2>2
<1>3. \A m \in h..L : m \in 1..L
  BY <1>1
<1> HIDE DEF L, P, R
<1>4. /\ Len(all) = IF h <= L THEN L - h + 1 ELSE 0
      /\ \A m \in 1..(L - h + 1) : all[m] = tokens[h + m - 1]
  <2>1. h \in Int /\ L \in Int /\ \A m \in h..L : tokens[m] \in Spellings
    BY <1>1, <1>3
  <2> QED
    BY <2>1, SubSeqProperties
<1> HIDE DEF all
<1>5. h <= L /\ L - h + 1 = P + R
  BY <1>1, <1>2, <1>4
<1>6. ASSUME NEW m \in 1..P PROVE h + m - 1 \in 1..L /\ tokens[h + m - 1] = piece[m]
  <2>1. m \in 1..(P + R) /\ m <= P /\ m \in 1..(L - h + 1) /\ h + m - 1 \in 1..L
    BY <1>1, <1>5
  <2> QED
    BY <1>2, <1>4, <2>1
<1>7. left = rest
  <2> DEFINE a == h + P
  <2>1. a \in Int /\ L \in Int /\ \A m \in a..L : tokens[m] \in Spellings
    BY <1>1
  <2>2. /\ left \in Seq(Spellings) /\ Len(left) = IF a <= L THEN L - a + 1 ELSE 0
        /\ \A m \in 1..(L - a + 1) : left[m] = tokens[a + m - 1]
    <3>1. left = SubSeq(tokens, a, L)
      OBVIOUS
    <3> HIDE DEF a, left
    <3> QED
      BY <2>1, <3>1, SubSeqProperties
  <2> HIDE DEF left
  <2>3. Len(left) = R /\ L - (h + P) + 1 = R
    BY <1>1, <1>5, <2>2
  <2>4. ASSUME NEW m \in 1..R PROVE left[m] = rest[m]
    <3>1. /\ P + m \in 1..(P + R) /\ ~(P + m <= P) /\ (P + m) - P = m
          /\ P + m \in 1..(L - h + 1) /\ h + (P + m) - 1 = (h + P) + m - 1
      BY <1>1, <1>5
    <3>2. left[m] = tokens[(h + P) + m - 1]
      BY <2>2, <2>3
    <3>3. all[P + m] = tokens[h + (P + m) - 1]
      BY <1>4, <3>1
    <3>4. all[P + m] = rest[m]
      BY <1>2, <3>1
    <3> QED
      BY <3>1, <3>2, <3>3, <3>4
  <2> QED
    BY <2>2, <2>3, <2>4, SeqEqual DEF R
<1> QED
  BY <1>6, <1>7 DEF Comes, left, L, P

\* Where a directive ends.
LEMMA EndIsAt ==
    ASSUME tokens \in Seq(Words), NEW k \in DOMAIN tokens, NEW e \in (k + 1)..Len(tokens),
           tokens[e] = Ending(tokens[k]), \A m \in (k + 1)..(e - 1) : tokens[m] # Ending(tokens[k])
    PROVE  EndOfDirective(k) = e
<1> DEFINE ends == {m \in (k + 1)..Len(tokens) : tokens[m] = Ending(tokens[k])}
           end == EndOfDirective(k)
<1>1. Len(tokens) \in Nat /\ k \in 1..Len(tokens)
  OBVIOUS
<1>2. end = IF ends = {} THEN Len(tokens) + 1 ELSE CHOOSE m \in ends : \A n \in ends : m <= n
  BY Zenon DEF EndOfDirective, Ending
<1>3. e \in ends
  OBVIOUS
<1>4. \A m \in ends : e <= m
  <2>1. \A m \in (k + 1)..Len(tokens) : e <= m \/ m \in (k + 1)..(e - 1)
    BY <1>1
  <2> QED
    BY <2>1
<1>5. ends \subseteq Int /\ e \in Int
  BY <1>1
<1> HIDE DEF ends, end
<1>6. end \in ends /\ \A n \in ends : end <= n
  BY <1>2, <1>3, <1>4
<1>7. end <= e /\ e <= end /\ end \in Int
  BY <1>3, <1>4, <1>5, <1>6
<1> QED
  BY <1>5, <1>7 DEF end

\* A directive is what comes next.
DirectiveRead(d, words, rest) ==
    /\ currentToken = d /\ EndOfDirective(token_index) <= Len(tokens)
    /\ Arguments(token_index) = words
    /\ SubSeq(tokens, token_index + (Len(words) + 2), Len(tokens)) = rest

\* It is when the text of one is in front of what is left.
LEMMA DirectiveComes ==
    ASSUME SyntaxInv, NEW d \in DirectiveNames \cup {"error_page"}, NEW words \in Seq(Values),
           \A m \in DOMAIN words : words[m] # Ending(d), NEW rest \in Seq(Spellings),
           Remaining = DirectiveText(d, words) \o rest
    PROVE  DirectiveRead(d, words, rest)
<1> DEFINE h == token_index
           L == Len(tokens)
           piece == DirectiveText(d, words)
           last == Ending(d)
           n == Len(words)
           e == h + n + 1
<1>1. /\ tokens \in Seq(Spellings) /\ tokens \in Seq(Words) /\ L \in Nat
      /\ DOMAIN tokens = 1..L /\ h \in Nat /\ h >= 1
  BY TokensAre
<1>2. words \in Seq(Spellings) /\ n \in Nat /\ DOMAIN words = 1..n
  <2>1. Values \subseteq Spellings
    BY DEF Spellings
  <2>2. words \in Seq(Spellings)
    BY <2>1, SeqMonotonic
  <2> QED
    BY <2>2, LenProperties
<1>3. d \in Spellings /\ last \in Spellings
  BY DEF Spellings, Ending
<1>4. piece = <<d>> \o words \o <<last>>
  BY DEF DirectiveText
<1> HIDE DEF h, L, piece, last, n
<1>5. /\ piece \in Seq(Spellings) /\ Len(piece) = n + 2 /\ piece[1] = d /\ piece[n + 2] = last
      /\ \A m \in 1..n : piece[m + 1] = words[m]
  BY <1>2, <1>3, <1>4, BracketIs DEF n
<1>6. Comes(h, piece, rest)
  <2>1. piece # <<>>
    <3>1. Len(piece) # 0
      BY <1>2, <1>5
    <3> QED
      BY <3>1, EmptySeq
  <2>2. SubSeq(tokens, h, Len(tokens)) = piece \o rest
    BY Zenon DEF Remaining, h, piece
  <2> QED
    BY <1>1, <1>5, <2>1, <2>2, PieceComes
<1>7. /\ \A m \in 1..(n + 2) : h + m - 1 \in 1..L /\ tokens[h + m - 1] = piece[m]
      /\ SubSeq(tokens, h + (n + 2), L) = rest
  BY <1>5, <1>6, Zenon DEF Comes, L
<1>8. h \in 1..L /\ tokens[h] = d
  <2>1. 1 \in 1..(n + 2) /\ h + 1 - 1 = h
    BY <1>1, <1>2
  <2> QED
    BY <1>5, <1>7, <2>1
<1>9. e \in (h + 1)..L /\ tokens[e] = last
  <2>1. n + 2 \in 1..(n + 2) /\ h + (n + 2) - 1 = e /\ e >= h + 1
    BY <1>1, <1>2
  <2>2. e \in 1..L /\ tokens[e] = last
    BY <1>5, <1>7, <2>1
  <2> QED
    BY <1>1, <2>1, <2>2
<1>10. ASSUME NEW m \in 1..n PROVE words[m] = tokens[h + m]
  <2>1. m + 1 \in 1..(n + 2) /\ h + (m + 1) - 1 = h + m
    BY <1>1, <1>2
  <2> QED
    BY <1>5, <1>7, <2>1
<1>11. \A m \in (h + 1)..(e - 1) : tokens[m] # last
  <2>1. ASSUME NEW m \in (h + 1)..(e - 1) PROVE tokens[m] # last
    <3>1. m - h \in 1..n /\ h + (m - h) = m
      BY <1>1, <1>2
    <3>2. tokens[m] = words[m - h]
      BY <1>10, <3>1
    <3> QED
      BY <1>2, <3>1, <3>2 DEF last
  <2> QED
    BY <2>1
<1> HIDE DEF e
<1>12. EndOfDirective(h) = e
  <2>1. h \in DOMAIN tokens /\ Ending(tokens[h]) = last
    BY <1>1, <1>8 DEF last
  <2> QED
    BY <1>1, <1>9, <1>11, <2>1, EndIsAt DEF L
<1>13. e - 1 = h + n /\ h + n <= L
  BY <1>1, <1>2, <1>9 DEF e
<1>14. SubSeq(tokens, h + 1, h + n) = words
  BY <1>1, <1>2, <1>10, <1>13, PartIs DEF n, L
<1>15. Arguments(h) = words
  BY <1>12, <1>13, <1>14, Zenon DEF Arguments
<1>16. currentToken = d
  BY <1>1, <1>8, Zenon DEF currentToken, Token, h
<1>17. EndOfDirective(h) <= L
  BY <1>1, <1>9, <1>12
<1> QED
  BY <1>7, <1>15, <1>16, <1>17, Zenon DEF DirectiveRead, h, n, L

\* The beginning of a block is what comes next.
OpeningRead(c, rest) ==
    /\ currentToken = c.kind
    /\ \A m \in 1..Len(c.name) : Token(token_index + m) = c.name[m]
    /\ Token(token_index + 1 + Len(c.name)) = "{"
    /\ SubSeq(tokens, token_index + (2 + Len(c.name)), Len(tokens)) = rest
    /\ Len(c.name) \in Nat

\* It is when one is in front of what is left.
LEMMA OpeningComes ==
    ASSUME SyntaxInv, NEW c, HasWords(c), NEW rest \in Seq(Spellings), Remaining = Opening(c) \o rest
    PROVE  OpeningRead(c, rest)
<1> DEFINE h == token_index
           L == Len(tokens)
           piece == Opening(c)
           name == c.name
           kind == c.kind
           brace == "{"
           n == Len(name)
<1>1. /\ tokens \in Seq(Spellings) /\ L \in Nat
      /\ DOMAIN tokens = 1..L /\ h \in Nat /\ h >= 1
  BY TokensAre
<1>2. name \in Seq(Spellings) /\ n \in Nat
  <2>1. Values \cup {"", "="} \subseteq Spellings
    BY DEF Spellings
  <2>2. name \in Seq(Spellings)
    BY <2>1, SeqMonotonic DEF HasWords
  <2> QED
    BY <2>2, LenProperties
<1>3. kind \in Spellings /\ brace \in Spellings
  BY DEF Spellings, HasWords
<1>4. piece = <<kind>> \o name \o <<brace>>
  BY DEF Opening
<1> HIDE DEF h, L, piece, name, kind, brace, n
<1>5. /\ piece \in Seq(Spellings) /\ Len(piece) = n + 2 /\ piece[1] = kind /\ piece[n + 2] = brace
      /\ \A m \in 1..n : piece[m + 1] = name[m]
  BY <1>2, <1>3, <1>4, BracketIs DEF n
<1>6. Comes(h, piece, rest)
  <2>1. piece # <<>>
    <3>1. Len(piece) # 0
      BY <1>2, <1>5
    <3> QED
      BY <3>1, EmptySeq
  <2>2. SubSeq(tokens, h, Len(tokens)) = piece \o rest
    BY Zenon DEF Remaining, h, piece
  <2> QED
    BY <1>1, <1>5, <2>1, <2>2, PieceComes
<1>7. /\ \A m \in 1..(n + 2) : h + m - 1 \in 1..L /\ tokens[h + m - 1] = piece[m]
      /\ SubSeq(tokens, h + (n + 2), L) = rest
  BY <1>5, <1>6, Zenon DEF Comes, L
<1>8. \A m \in 1..(n + 2) : Token(h + m - 1) = piece[m]
  BY <1>1, <1>7 DEF Token
<1>9. Token(h) = kind
  <2>1. 1 \in 1..(n + 2) /\ h + 1 - 1 = h
    BY <1>1, <1>2
  <2> QED
    BY <1>5, <1>8, <2>1
<1>10. Token(h + 1 + n) = brace
  <2>1. n + 2 \in 1..(n + 2) /\ h + (n + 2) - 1 = h + 1 + n
    BY <1>1, <1>2
  <2> QED
    BY <1>5, <1>8, <2>1
<1>11. ASSUME NEW m \in 1..n PROVE Token(h + m) = name[m]
  <2>1. m + 1 \in 1..(n + 2) /\ h + (m + 1) - 1 = h + m
    BY <1>1, <1>2
  <2> QED
    BY <1>5, <1>8, <2>1
<1>12. SubSeq(tokens, h + (2 + n), L) = rest
  <2>1. h + (n + 2) = h + (2 + n)
    BY <1>1, <1>2
  <2> QED
    BY <1>7, <2>1, Zenon
<1> QED
  BY <1>2, <1>9, <1>10, <1>11, <1>12, Zenon DEF OpeningRead, currentToken, h, L, name, kind, brace, n

\* The brace that ends a block is.
LEMMA BraceComes ==
    ASSUME SyntaxInv, NEW tail \in Seq(Spellings), Remaining = EndAnd(tail)
    PROVE  currentToken = "}" /\ SubSeq(tokens, token_index + 1, Len(tokens)) = tail
<1> DEFINE h == token_index
           brace == "}"
           piece == <<brace>>
<1>1. tokens \in Seq(Spellings) /\ DOMAIN tokens = 1..Len(tokens) /\ h \in Nat /\ h >= 1
  BY TokensAre
<1>2. brace \in Spellings
  BY DEF Spellings
<1> HIDE DEF brace
<1>3. piece \in Seq(Spellings) /\ Len(piece) = 1 /\ piece[1] = brace
  BY <1>2, OneWord
<1>4. SubSeq(tokens, h, Len(tokens)) = piece \o tail
  BY Zenon DEF Remaining, EndAnd, brace
<1>5. piece # <<>>
  <2> HIDE DEF piece
  <2> QED
    BY <1>3, EmptySeq
<1> HIDE DEF h, piece
<1>6. Comes(h, piece, tail)
  BY <1>1, <1>3, <1>4, <1>5, PieceComes
<1>7. h + 1 - 1 = h /\ 1 \in 1..Len(piece)
  BY <1>1, <1>3
<1>8. h \in 1..Len(tokens) /\ tokens[h] = brace
  BY <1>3, <1>6, <1>7 DEF Comes
<1>9. SubSeq(tokens, h + 1, Len(tokens)) = tail
  BY <1>3, <1>6, Zenon DEF Comes
<1>10. currentToken = brace
  BY <1>1, <1>8, Zenon DEF currentToken, Token, h
<1> QED
  BY <1>9, <1>10, Zenon DEF h, brace

\* What the parser is about to read: a directive, a block or the end of this one.
ReadsNext(k, w, tail) ==
    \E d, words : /\ Reads(k, Top, w, tail, d, words)
                  /\ DirectiveRead(d, words, RestOf(k, WithDirective(Top, d, words), w, tail))
OpensNext(k, w, tail) ==
    LET c == w.inside[Len(Top.inside) + 1]
    IN  /\ k \in 1..2 /\ Opens(k, Top, w, tail)
        /\ OpeningRead(c, RestOf(k + 1, Block(c.kind, c.name), c, RestBelow(k, Top, w, tail)))
EndsNext(k, w, tail) ==
    /\ currentToken = "}" /\ SubSeq(tokens, token_index + 1, Len(tokens)) = tail
    /\ DOMAIN Top.set = DOMAIN w.set /\ Finished = MeaningOf(k, w)

\* The innermost block, and how it is at the end.
LEMMA InnermostIs ==
    ASSUME SyntaxInv, contexts # <<>>
    PROVE  LET k == Len(contexts)
           IN  /\ k \in 1..3 /\ Top = contexts[k] /\ Top.kind = KindAt(k)
               /\ HasDefaultListen <=> (k = 2 /\ "listen" \notin DOMAIN Top.set)
               /\ Finished = AtItsEnd(k, Top)
<1> DEFINE k == Len(contexts)
<1>1. IsStack(contexts)
  BY DEF SyntaxInv
<1>2. k \in 1..3 /\ Top.kind = <<"http", "server", "location">>[k]
  BY <1>1, TopIs
<1> HIDE DEF k
<1>3. Top.kind = KindAt(k) /\ (Top.kind = "server" <=> k = 2)
  BY <1>2 DEF KindAt
<1>4. HasDefaultListen <=> (k = 2 /\ "listen" \notin DOMAIN Top.set)
  BY <1>3 DEF HasDefaultListen
<1>5. Finished = AtItsEnd(k, Top)
  <2>1. "listen" # "error_page"
    OBVIOUS
  <2> DEFINE b == Top
             P == HasDefaultListen
  <2>2. Finished = IF P THEN WithListen(TRUE, b) ELSE b
    BY <2>1 DEF Finished, WithListen, WithDirective
  <2> HIDE DEF b, P
  <2>3. Finished = AtItsEnd(k, b)
    BY <1>4, <2>2, Zenon DEF AtItsEnd, b, P
  <2> QED
    BY <2>3 DEF b
<1> QED
  BY <1>2, <1>3, <1>4, <1>5 DEF Top, k

\* It is one of these.
LEMMA SomethingIsNext ==
    ASSUME SyntaxInv, contexts # <<>>, NEW k, k = Len(contexts), NEW w, WrittenAs(k, w),
           Partly(k, Top, w), NEW tail \in Seq(Spellings), Remaining = RestOf(k, Top, w, tail)
    PROVE  ReadsNext(k, w, tail) \/ OpensNext(k, w, tail) \/ EndsNext(k, w, tail)
<1>1. /\ k \in 1..3
      /\ HasDefaultListen <=> (k = 2 /\ "listen" \notin DOMAIN Top.set)
      /\ Finished = AtItsEnd(k, Top)
  BY InnermostIs
<1>2. \A c : RestOf(k, c, w, tail) \in Seq(Spellings)
  BY <1>1, RestIs DEF RestOf
<1>3. CASE DOMAIN Top.set # DOMAIN w.set \/ Len(Top.errorPages) # Len(w.errorPages)
  <2>1. ReadsSome(k, Top, w, tail)
    BY <1>1, <1>3, NextIsDirective
  <2>2. PICK d, words : Reads(k, Top, w, tail, d, words)
    BY <2>1, Zenon DEF ReadsSome
  <2> DEFINE rest == RestOf(k, WithDirective(Top, d, words), w, tail)
  <2>3. /\ d = "error_page" \/ d \in Directives[KindAt(k)]
        /\ CanBeGiven(d, words) /\ RestOf(k, Top, w, tail) = DirectiveText(d, words) \o rest
    BY <2>2, Zenon DEF Reads
  <2>4. d \in DirectiveNames \cup {"error_page"}
    BY <2>3, NamesDiffer DEF KindAt
  <2>5. words \in Seq(Values) /\ \A m \in DOMAIN words : words[m] # Ending(d)
    BY <2>3, Zenon DEF CanBeGiven
  <2>6. rest \in Seq(Spellings)
    BY <1>2
  <2> HIDE DEF rest
  <2>7. Remaining = DirectiveText(d, words) \o rest
    BY <2>3, Zenon
  <2>8. DirectiveRead(d, words, rest)
    BY <2>4, <2>5, <2>6, <2>7, DirectiveComes
  <2>9. ReadsNext(k, w, tail)
    BY <2>2, <2>8, Zenon DEF ReadsNext, rest
  <2> QED
    BY <2>9
<1>4. CASE /\ DOMAIN Top.set = DOMAIN w.set /\ Len(Top.errorPages) = Len(w.errorPages)
           /\ Len(Top.inside) # Len(w.inside)
  <2> DEFINE c == w.inside[Len(Top.inside) + 1]
             rest == RestOf(k + 1, Block(c.kind, c.name), c, RestBelow(k, Top, w, tail))
  <2>1. k \in 1..2 /\ Opens(k, Top, w, tail)
    BY <1>1, <1>4, NextIsBlock
  <2>2. WrittenAs(k + 1, c) /\ RestBelow(k, Top, w, tail) \in Seq(Spellings)
        /\ RestOf(k, Top, w, tail) = Opening(c) \o rest
    BY <2>1, Zenon DEF Opens
  <2>3. k + 1 \in 1..3
    <3>1. \A x \in 1..2 : x + 1 \in 1..3
      OBVIOUS
    <3> QED
      BY <2>1, <3>1
  <2>4. rest \in Seq(Spellings) /\ HasWords(c)
    <3> HIDE DEF c
    <3>1. \A b : RestOf(k + 1, b, c, RestBelow(k, Top, w, tail)) \in Seq(Spellings)
      BY <2>2, <2>3, RestIs DEF RestOf
    <3>2. HasWords(c)
      BY <2>2, <2>3, WrittenIsLegible, TextIs
    <3> QED
      BY <3>1, <3>2
  <2> HIDE DEF c, rest
  <2>5. OpeningRead(c, rest)
    <3>1. Remaining = Opening(c) \o rest
      BY <2>2, Zenon
    <3> QED
      BY <2>4, <3>1, OpeningComes
  <2>6. OpensNext(k, w, tail)
    BY <2>1, <2>5, Zenon DEF OpensNext, c, rest
  <2> QED
    BY <2>6
<1>5. CASE /\ DOMAIN Top.set = DOMAIN w.set /\ Len(Top.errorPages) = Len(w.errorPages)
           /\ Len(Top.inside) = Len(w.inside)
  <2> DEFINE b == Top
  <2>1. /\ k \in 1..3 /\ WrittenAs(k, w) /\ Partly(k, b, w) /\ DOMAIN b.set = DOMAIN w.set
        /\ Len(b.errorPages) = Len(w.errorPages) /\ Len(b.inside) = Len(w.inside)
        /\ tail \in Seq(Spellings)
    BY <1>1, <1>5
  <2> HIDE DEF b
  <2>5. RestOf(k, b, w, tail) = EndAnd(tail) /\ AtItsEnd(k, b) = MeaningOf(k, w)
    BY ONLY <2>1, EndIsMeaning
  <2>2. Remaining = EndAnd(tail)
    BY <2>5 DEF b
  <2>3. currentToken = "}" /\ SubSeq(tokens, token_index + 1, Len(tokens)) = tail
    BY <2>2, BraceComes
  <2>4. EndsNext(k, w, tail)
    BY <1>1, <1>5, <2>3, <2>5, Zenon DEF EndsNext, b
  <2> QED
    BY <2>4
<1> QED
  BY <1>3, <1>4, <1>5

\* A directive is read as one, and as nothing else.
LEMMA ReadsNextIs ==
    ASSUME SyntaxInv, contexts # <<>>, NEW k, k = Len(contexts), NEW w, NEW tail, ReadsNext(k, w, tail)
    PROVE  IsDirective /\ ~OpensBlock /\ ~ClosesBlock
<1>1. PICK d, words : Reads(k, Top, w, tail, d, words)
          /\ DirectiveRead(d, words, RestOf(k, WithDirective(Top, d, words), w, tail))
  BY Zenon DEF ReadsNext
<1>2. /\ d = "error_page" \/ d \in Directives[KindAt(k)] \ DOMAIN Top.set
      /\ CanBeGiven(d, words)
  BY <1>1, Zenon DEF Reads
<1>3. currentToken = d /\ EndOfDirective(token_index) <= Len(tokens) /\ Arguments(token_index) = words
  BY <1>1, Zenon DEF DirectiveRead
<1>4. Top.kind = KindAt(k) /\ k \in 1..3
  BY InnermostIs
<1>5. d \in DirectiveNames \cup {"error_page"}
  BY <1>2, NamesDiffer DEF KindAt
<1>6. d \notin {"server", "location", "}"}
  BY <1>5, NamesDiffer
<1>7. Accepts(d, words)
  BY <1>2, Zenon DEF CanBeGiven
<1>8. MayBeSet(currentToken) \/ currentToken = "error_page"
  BY <1>2, <1>3, <1>4, Zenon DEF MayBeSet
<1>9. IsDirective
  BY <1>3, <1>7, <1>8, Zenon DEF IsDirective
<1>10. ~OpensBlock
  <2>1. \A kind \in DOMAIN Inner : Inner[kind] \in {"server", "location"}
    BY DEF Inner
  <2> QED
    BY <1>3, <1>6, <2>1 DEF OpensBlock
<1>11. ~ClosesBlock
  BY <1>3, <1>6 DEF ClosesBlock
<1> QED
  BY <1>9, <1>10, <1>11

\* The numbers of the words of a name.
LEMMA OneAndTwo == 1 # 2 /\ 1 \in 1..1 /\ 1 \in 1..2 /\ 2 \in 1..2
OBVIOUS

\* One word, and what it is.
LEMMA OneIs == ASSUME NEW x PROVE Len(<<x>>) = 1 /\ <<x>>[1] = x
OBVIOUS

\* Two words.
LEMMA TwoAre == ASSUME NEW x, NEW y PROVE Len(<<x, y>>) = 2 /\ <<x, y>>[1] = x /\ <<x, y>>[2] = y
OBVIOUS

\* A path by itself is a name of a location.
LEMMA PathIs ==
    ASSUME NEW name, NEW path, path \notin {"", "."}, name = <<path>>
    PROVE  IsLocationName(name) /\ Len(name) = 1 /\ name[1] = path
<1> DEFINE dot == <<".">>
           word == "."
<1>1. Len(name) = 1 /\ name[1] = path
  BY OneIs
<1>2. dot[1] = word
  BY OneIs
<1>3. name # dot
  <2> HIDE DEF dot
  <2> QED
    BY <1>1, <1>2
<1> QED
  BY <1>1, <1>3 DEF IsLocationName

\* So is an exact path, after its sign.
LEMMA ExactPathIs ==
    ASSUME NEW name, NEW path, path # "", name = <<"=", path>>
    PROVE  IsLocationName(name) /\ Len(name) = 2 /\ name[1] = "=" /\ name[2] = path
<1> DEFINE dot == <<".">>
           sign == "="
<1>1. Len(name) = 2 /\ name[1] = sign /\ name[2] = path
  BY TwoAre
<1>2. Len(dot) = 1
  BY OneIs
<1>3. name # dot
  <2>1. 1 # 2
    BY ONLY OneAndTwo
  <2> HIDE DEF dot
  <2> QED
    BY <1>1, <1>2, <2>1, Zenon
<1> QED
  BY <1>1, <1>3 DEF IsLocationName

\* So is the beginning of a block.
LEMMA OpensNextIs ==
    ASSUME SyntaxInv, contexts # <<>>, NEW k, k = Len(contexts), NEW w, NEW tail, OpensNext(k, w, tail)
    PROVE  LET c == w.inside[Len(Top.inside) + 1]
           IN  /\ OpensBlock /\ ~IsDirective /\ ~ClosesBlock
               /\ Inner[Top.kind] = c.kind /\ BlockName = c.name
<1> DEFINE c == w.inside[Len(Top.inside) + 1]
           rest == RestOf(k + 1, Block(c.kind, c.name), c, RestBelow(k, Top, w, tail))
<1>1. k \in 1..2 /\ OpeningRead(c, rest) /\ WrittenAs(k + 1, c)
  BY Zenon DEF OpensNext, Opens
<1>2. Top.kind = KindAt(k)
  BY InnermostIs
<1> HIDE DEF c, rest
<1>3. c.kind = KindAt(k + 1) /\ (IF k + 1 = 3 THEN CanBeNamed(c.name) ELSE c.name = <<>>)
  <2>1. k + 1 \in 1..3
    BY <1>1
  <2>2. Sound(k + 1, c)
    BY <1>1, <2>1, WrittenIsSound
  <2> QED
    BY <2>2, Zenon DEF Sound
<1>4. /\ currentToken = c.kind /\ \A m \in 1..Len(c.name) : Token(token_index + m) = c.name[m]
      /\ Token(token_index + 1 + Len(c.name)) = "{" /\ Len(c.name) \in Nat
  BY <1>1, Zenon DEF OpeningRead
<1>5. Inner[Top.kind] = c.kind /\ Top.kind \in DOMAIN Inner /\ c.kind \in {"server", "location"}
  BY <1>1, <1>2, <1>3 DEF Inner, KindAt
<1>6. BlockName = c.name /\ (Top.kind = "server" => IsLocationName(c.name))
  <2>1. CASE k = 1
    <3>1. Top.kind # "server" /\ c.name = <<>>
      BY <1>2, <1>3, <2>1 DEF KindAt
    <3> QED
      BY <3>1 DEF BlockName
  <2>2. CASE k = 2
    <3>1. Top.kind = "server" /\ CanBeNamed(c.name)
      BY <1>2, <1>3, <2>2 DEF KindAt
    <3>2. CASE \E path \in Values \ {"", "=", "."} : c.name = <<path>>
      <4>1. PICK path \in Values \ {"", "=", "."} : c.name = <<path>>
        BY <3>2
      <4>2. Token(token_index + 1) = path
        <5>1. Len(c.name) = 1 /\ c.name[1] = path
          BY <4>1, PathIs
        <5>2. 1 \in 1..1
          BY ONLY OneAndTwo
        <5> QED
          BY <1>4, <5>1, <5>2
      <4>3. LocationName = <<path>>
        BY <4>1, <4>2 DEF LocationName
      <4>4. IsLocationName(c.name)
        BY <4>1, PathIs
      <4> QED
        BY <3>1, <4>1, <4>3, <4>4 DEF BlockName
    <3>3. CASE \E path \in Values \ {""} : c.name = <<"=", path>>
      <4>1. PICK path \in Values \ {""} : c.name = <<"=", path>>
        BY <3>3
      <4>2. Token(token_index + 1) = "=" /\ Token(token_index + 2) = path
        <5>1. Len(c.name) = 2 /\ c.name[1] = "=" /\ c.name[2] = path
          BY <4>1, ExactPathIs
        <5>2. 1 \in 1..2 /\ 2 \in 1..2
          BY ONLY OneAndTwo
        <5> QED
          BY <1>4, <5>1, <5>2
      <4>3. LocationName = <<"=", path>>
        BY <4>2 DEF LocationName
      <4>4. IsLocationName(c.name)
        BY <4>1, ExactPathIs
      <4> QED
        BY <3>1, <4>1, <4>3, <4>4 DEF BlockName
    <3> QED
      BY <3>1, <3>2, <3>3 DEF CanBeNamed
  <2> QED
    BY <1>1, <2>1, <2>2
<1>7. OpensBlock
  BY <1>4, <1>5, <1>6, Zenon DEF OpensBlock
<1>8. ~ClosesBlock
  BY <1>4, <1>5 DEF ClosesBlock
<1>9. ~IsDirective
  <2>1. Top.kind \in {"http", "server", "location"}
    BY <1>1, <1>2 DEF KindAt
  <2>2. currentToken \notin DirectiveNames /\ currentToken # "error_page"
    BY <1>4, <1>5, NamesDiffer
  <2> QED
    BY <2>1, <2>2, NamesDiffer DEF IsDirective, MayBeSet
<1> QED
  BY <1>5, <1>6, <1>7, <1>8, <1>9 DEF c

\* So is its end.
LEMMA EndsNextIs ==
    ASSUME SyntaxInv, contexts # <<>>, NEW k, k = Len(contexts), NEW w, WrittenAs(k, w), NEW tail,
           EndsNext(k, w, tail)
    PROVE  ClosesBlock /\ ~IsDirective /\ ~OpensBlock
<1>1. currentToken = "}" /\ DOMAIN Top.set = DOMAIN w.set
  BY Zenon DEF EndsNext
<1>2. Top.kind = KindAt(k) /\ k \in 1..3
  BY InnermostIs
<1>3. k = 3 => ~({"root", "alias"} \subseteq DOMAIN w.set)
  <2>1. Sound(k, w)
    BY <1>2, WrittenIsSound
  <2> QED
    BY <2>1, Zenon DEF Sound
<1>4. ClosesBlock
  <2>1. Top.kind = "location" => k = 3
    BY <1>2 DEF KindAt
  <2> QED
    BY <1>1, <1>3, <2>1, Zenon DEF ClosesBlock
<1>5. ~OpensBlock
  <2>1. \A kind \in DOMAIN Inner : Inner[kind] \in {"server", "location"}
    BY DEF Inner
  <2> QED
    BY <1>1, <2>1 DEF OpensBlock
<1>6. ~IsDirective
  <2>1. Top.kind \in {"http", "server", "location"}
    BY <1>2 DEF KindAt
  <2>2. currentToken \notin DirectiveNames /\ currentToken # "error_page"
    BY <1>1, NamesDiffer
  <2> QED
    BY <2>1, <2>2, NamesDiffer DEF IsDirective, MayBeSet
<1> QED
  BY <1>4, <1>5, <1>6

-----------------------------------------------------------------------------
(***************************************************************************)
(* ConfParser: each step reads what was written.                           *)
(***************************************************************************)
\* The innermost block, the one it was written as and what comes after it.
Innermost(k, w, tail) ==
    /\ k = Len(contexts) /\ k \in 1..3
    /\ w = At(contexts, written, k) /\ tail = TailAt(contexts, written, k)
    /\ WrittenAs(k, w) /\ Partly(k, Top, w) /\ tail \in Seq(Spellings)
    /\ Remaining = RestOf(k, Top, w, tail)
    /\ httpContext = Unwritten /\ Top = contexts[k]
    /\ \A m \in 1..k : FollowsAt(contexts, written, m)

\* One thing comes next, and the parser takes it for nothing else.
ComesNext(k, w, tail) ==
    \/ ReadsNext(k, w, tail) /\ IsDirective /\ ~OpensBlock /\ ~ClosesBlock
    \/ OpensNext(k, w, tail) /\ ~IsDirective /\ OpensBlock /\ ~ClosesBlock
    \/ EndsNext(k, w, tail) /\ ~IsDirective /\ ~OpensBlock /\ ClosesBlock

\* Inside a block, the invariant says so of every state.
LEMMA WhatIsNext ==
    ASSUME SyntaxInv, WrittenInv, written # Unwritten, contexts # <<>>
    PROVE  \E k, w, tail : Innermost(k, w, tail) /\ ComesNext(k, w, tail)
<1> DEFINE k == Len(contexts)
           w == At(contexts, written, k)
           tail == TailAt(contexts, written, k)
<1>1. k \in 1..3 /\ Top = contexts[k]
  BY InnermostIs
<1>2. httpContext = Unwritten /\ Follows(contexts, written, Remaining)
  BY Zenon DEF WrittenInv
<1>3. /\ \A m \in 1..k : FollowsAt(contexts, written, m)
      /\ Remaining = RestOf(k, contexts[k], w, tail)
  BY <1>2, Zenon DEF Follows
<1>4. k \in 1..k
  <2> HIDE DEF k
  <2> QED
    BY <1>1
<1>5. WrittenAs(k, w) /\ Partly(k, contexts[k], w) /\ tail \in Seq(Spellings)
  BY <1>3, <1>4, Zenon DEF FollowsAt
<1>6. Innermost(k, w, tail)
  BY <1>1, <1>2, <1>3, <1>5, Zenon DEF Innermost
<1>7. Partly(k, Top, w) /\ Remaining = RestOf(k, Top, w, tail) /\ k = Len(contexts)
  BY <1>1, <1>3, <1>5, Zenon
<1> HIDE DEF k, w, tail
<1>8. ReadsNext(k, w, tail) \/ OpensNext(k, w, tail) \/ EndsNext(k, w, tail)
  BY <1>5, <1>7, SomethingIsNext
<1>9. ReadsNext(k, w, tail) => IsDirective /\ ~OpensBlock /\ ~ClosesBlock
  BY <1>7, ReadsNextIs
<1>10. OpensNext(k, w, tail) => OpensBlock /\ ~IsDirective /\ ~ClosesBlock
  BY <1>7, OpensNextIs
<1>11. EndsNext(k, w, tail) => ClosesBlock /\ ~IsDirective /\ ~OpensBlock
  BY <1>5, <1>7, EndsNextIs
<1>12. ComesNext(k, w, tail)
  BY <1>8, <1>9, <1>10, <1>11, Zenon DEF ComesNext
<1> QED
  BY <1>6, <1>12, Zenon

\* The parser goes on in the blocks that were written.
LEMMA GoesOn ==
    ASSUME WrittenInv, written # Unwritten, UNCHANGED <<tokens, written>>, parser = "parsing",
           parser' = parser, httpContext' = Unwritten, contexts' # <<>>, NEW h, token_index' = h,
           Follows(contexts', written, SubSeq(tokens, h, Len(tokens)))
    PROVE  WrittenInv'
<1>1. IsWrittenHttp(written) /\ parser # "error" /\ parser # "parsed"
  BY DEF WrittenInv
<1>2. Follows(contexts', written', SubSeq(tokens', token_index', Len(tokens')))
  OBVIOUS
<1>3. IsWrittenHttp(written')
  BY <1>1
<1> QED
  BY <1>1, <1>2, <1>3 DEF WrittenInv, Remaining

\* The blocks around the innermost stay as they are.
LEMMA AroundIs ==
    ASSUME NEW k \in 1..3, k = Len(contexts), \A m \in 1..k : FollowsAt(contexts, written, m)
    PROVE  \A m \in 1..(k - 1) : /\ FollowsAt(contexts, written, m)
                                 /\ Len(contexts[m].inside) < Len(At(contexts, written, m).inside)
<1> SUFFICES ASSUME NEW m \in 1..(k - 1)
             PROVE  /\ FollowsAt(contexts, written, m)
                    /\ Len(contexts[m].inside) < Len(At(contexts, written, m).inside)
  OBVIOUS
<1>1. m \in 1..k /\ m < k
  OBVIOUS
<1>2. m < Len(contexts) /\ FollowsAt(contexts, written, m)
  BY <1>1
<1> QED
  BY <1>2, Zenon DEF FollowsAt

\* A directive.
LEMMA SetDirectiveWritten ==
    ASSUME SyntaxInv, WrittenInv, written # Unwritten, SetDirective PROVE WrittenInv'
<1>1. PICK k, w, tail : Innermost(k, w, tail) /\ ComesNext(k, w, tail)
  BY WhatIsNext DEF SetDirective, InBlock
<1>2. ReadsNext(k, w, tail) /\ contexts # <<>> /\ parser = "parsing" /\ parser' = parser
      /\ httpContext' = httpContext /\ UNCHANGED <<tokens, written>>
  BY <1>1, Zenon DEF ComesNext, SetDirective, InBlock, Parse, Move
<1>3. PICK d, words : Reads(k, Top, w, tail, d, words)
          /\ DirectiveRead(d, words, RestOf(k, WithDirective(Top, d, words), w, tail))
  BY <1>2, Zenon DEF ReadsNext
<1> DEFINE b == WithDirective(Top, d, words)
           new == [contexts EXCEPT ![k] = b]
           h == token_index + (Len(words) + 2)
           text == SubSeq(tokens, h, Len(tokens))
<1>4. currentToken = d /\ Arguments(token_index) = words /\ text = RestOf(k, b, w, tail)
  BY <1>3, Zenon DEF DirectiveRead
<1>5. Partly(k, b, w)
  BY <1>3, Zenon DEF Reads
<1>6. /\ k = Len(contexts) /\ k \in 1..3 /\ w = At(contexts, written, k)
      /\ tail = TailAt(contexts, written, k) /\ WrittenAs(k, w) /\ tail \in Seq(Spellings)
      /\ httpContext = Unwritten /\ Top = contexts[k] /\ \A m \in 1..k : FollowsAt(contexts, written, m)
  BY <1>1, Zenon DEF Innermost
<1>7. contexts' = new /\ token_index' = h
  BY <1>4, <1>6, Zenon DEF SetDirective, Parse, Move, Top
<1>8. Len(new) = k /\ new[k] = b /\ \A m \in 1..(k - 1) : new[m] = contexts[m]
  <2>1. IsStack(contexts)
    BY DEF SyntaxInv
  <2>2. DOMAIN contexts = 1..k
    BY <1>6, <2>1, StackIs
  <2> HIDE DEF b
  <2>3. DOMAIN new = 1..k /\ new[k] = b /\ \A m \in 1..(k - 1) : new[m] = contexts[m]
    BY <1>6, <2>2
  <2>4. Len(new) = k
    BY <1>6, <2>3
  <2> QED
    BY <2>3, <2>4
<1> HIDE DEF b, new, h, text
<1>9. \A m \in 1..(k - 1) : /\ new[m] = contexts[m] /\ FollowsAt(contexts, written, m)
                            /\ Len(contexts[m].inside) < Len(At(contexts, written, m).inside)
  BY <1>6, <1>8, AroundIs
<1>10. Follows(new, written, text)
  BY <1>4, <1>5, <1>6, <1>8, <1>9, FollowsIf
<1>11. new # <<>>
  <2>1. Len(<<>>) = 0 /\ k # 0
    BY <1>6
  <2> QED
    BY <1>8, <2>1
<1> QED
  BY <1>2, <1>6, <1>7, <1>10, <1>11, GoesOn DEF text

\* A block is opened.
LEMMA OpenBlockWritten ==
    ASSUME SyntaxInv, SyntaxInv', WrittenInv, written # Unwritten, OpenBlock PROVE WrittenInv'
<1>1. PICK k, w, tail : Innermost(k, w, tail) /\ ComesNext(k, w, tail)
  BY WhatIsNext DEF OpenBlock, InBlock
<1>2. OpensNext(k, w, tail) /\ contexts # <<>> /\ parser = "parsing" /\ parser' = parser
      /\ httpContext' = httpContext /\ UNCHANGED <<tokens, written>>
  BY <1>1, Zenon DEF ComesNext, OpenBlock, InBlock, Parse, Move
<1> DEFINE c == w.inside[Len(Top.inside) + 1]
           b == Block(c.kind, c.name)
           new == Append(contexts, b)
           h == token_index + (2 + Len(c.name))
           text == SubSeq(tokens, h, Len(tokens))
           z == k + 1
           after == RestBelow(k, Top, w, tail)
<1>3. /\ k \in 1..2 /\ WrittenAs(z, c) /\ Partly(z, b, c) /\ Len(Top.inside) < Len(w.inside)
      /\ after \in Seq(Spellings) /\ text = RestOf(z, b, c, after)
  BY <1>2, Zenon DEF OpensNext, Opens, OpeningRead
<1>4. /\ k = Len(contexts) /\ k \in 1..3 /\ w = At(contexts, written, k)
      /\ tail = TailAt(contexts, written, k)
      /\ httpContext = Unwritten /\ Top = contexts[k] /\ \A m \in 1..k : FollowsAt(contexts, written, m)
  BY <1>1, Zenon DEF Innermost
<1>5. Inner[Top.kind] = c.kind /\ BlockName = c.name
  BY <1>2, <1>4, OpensNextIs
<1>6. contexts' = new /\ token_index' = h
  BY <1>5, Zenon DEF OpenBlock, Parse, Move
<1>7. c = At(contexts, written, z) /\ after = TailAt(contexts, written, z)
  <2>1. /\ At(contexts, written, z) = At(contexts, written, k).inside[Len(contexts[k].inside) + 1]
        /\ TailAt(contexts, written, z) =
             RestBelow(k, contexts[k], At(contexts, written, k), TailAt(contexts, written, k))
    BY <1>3, AtNext
  <2> QED
    BY <1>4, <2>1, Zenon
<1>8. z \in 1..3 /\ Len(new) = z /\ new[z] = b /\ \A m \in 1..k : new[m] = contexts[m]
  <2> DEFINE S == HttpBlocks \cup ServerBlocks \cup LocationBlocks
             R == S \cup {b}
  <2>1. contexts \in Seq(S)
    BY DEF SyntaxInv, IsStack
  <2> HIDE DEF b, S
  <2>2. contexts \in Seq(R) /\ b \in R
    <3>1. S \subseteq R
      OBVIOUS
    <3> QED
      BY <2>1, <3>1, SeqMonotonic
  <2> HIDE DEF R
  <2>3. /\ Len(new) = Len(contexts) + 1 /\ new[Len(contexts) + 1] = b
        /\ \A m \in 1..Len(contexts) : new[m] = contexts[m]
    BY <2>2, AppendProperties
  <2>4. z \in 1..3
    BY <1>3
  <2> QED
    BY <1>4, <2>3, <2>4
<1> HIDE DEF c, b, new, h, text, after
<1>9. \A m \in 1..k : /\ new[m] = contexts[m] /\ FollowsAt(contexts, written, m)
                      /\ Len(contexts[m].inside) < Len(At(contexts, written, m).inside)
  <2>1. \A m \in 1..(k - 1) : /\ FollowsAt(contexts, written, m)
                              /\ Len(contexts[m].inside) < Len(At(contexts, written, m).inside)
    BY <1>4, AroundIs
  <2>2. \A m \in 1..k : m \in 1..(k - 1) \/ m = k
    BY <1>3
  <2>3. Len(contexts[k].inside) < Len(At(contexts, written, k).inside)
    BY <1>3, <1>4, Zenon
  <2> QED
    BY <1>4, <1>8, <2>1, <2>2, <2>3, Zenon
<1>10. Follows(new, written, text)
  <2>1. z - 1 = k
    BY <1>3
  <2>2. WrittenAs(z, At(contexts, written, z)) /\ Partly(z, new[z], At(contexts, written, z))
        /\ TailAt(contexts, written, z) \in Seq(Spellings)
        /\ text = RestOf(z, new[z], At(contexts, written, z), TailAt(contexts, written, z))
    BY <1>3, <1>7, <1>8, Zenon
  <2> HIDE DEF z
  <2>3. \A m \in 1..(z - 1) : /\ new[m] = contexts[m] /\ FollowsAt(contexts, written, m)
                              /\ Len(contexts[m].inside) < Len(At(contexts, written, m).inside)
    BY <1>9, <2>1, Zenon
  <2> QED
    BY <1>8, <2>2, <2>3, FollowsIf
<1>11. new # <<>>
  <2>1. Len(<<>>) = 0 /\ z # 0
    BY <1>3
  <2> QED
    BY <1>8, <2>1, Zenon
<1> QED
  BY <1>2, <1>4, <1>6, <1>10, <1>11, GoesOn DEF text

\* A block is closed.
LEMMA CloseBlockWritten ==
    ASSUME SyntaxInv, SyntaxInv', WrittenInv, written # Unwritten, CloseBlock PROVE WrittenInv'
<1>1. PICK k, w, tail : Innermost(k, w, tail) /\ ComesNext(k, w, tail)
  BY WhatIsNext DEF CloseBlock, InBlock
<1> DEFINE h == token_index + 1
           text == SubSeq(tokens, h, Len(tokens))
           m == k - 1
           rest == SubSeq(contexts, 1, m)
           outer == rest[m]
           wider == GivenInside(outer, Append(outer.inside, Finished))
           new == [rest EXCEPT ![m] = wider]
<1>2. EndsNext(k, w, tail) /\ contexts # <<>> /\ parser = "parsing" /\ parser' = parser
      /\ UNCHANGED <<tokens, written>> /\ token_index' = h
  BY <1>1, Zenon DEF ComesNext, CloseBlock, InBlock, Move
<1>3. text = tail /\ Finished = MeaningOf(k, w)
  BY <1>2, Zenon DEF EndsNext
<1>4. /\ k = Len(contexts) /\ k \in 1..3 /\ w = At(contexts, written, k)
      /\ tail = TailAt(contexts, written, k)
      /\ httpContext = Unwritten /\ \A q \in 1..k : FollowsAt(contexts, written, q)
  BY <1>1, Zenon DEF Innermost
<1>5. /\ k = 1 => httpContext' = Finished /\ contexts' = <<>>
      /\ k # 1 => httpContext' = httpContext /\ contexts' = new
  BY <1>4, Zenon DEF CloseBlock, GivenInside
<1>6. CASE k = 1
  <2>1. w = written /\ tail = <<>>
    BY <1>4, <1>6, Zenon DEF At, TailAt
  <2>2. httpContext' = Meaning(written) /\ contexts' = <<>>
    BY <1>3, <1>5, <1>6, <2>1, Zenon DEF MeaningOf
  <2>3. IsWrittenHttp(written) /\ parser # "error" /\ parser # "parsed"
    BY <1>2 DEF WrittenInv
  <2>4. SubSeq(tokens', token_index', Len(tokens')) = <<>>
    BY <1>2, <1>3, <2>1 DEF text
  <2>5. IsWrittenHttp(written') /\ httpContext' = Meaning(written')
    BY <1>2, <2>2, <2>3
  <2> QED
    BY <1>2, <2>2, <2>3, <2>4, <2>5 DEF WrittenInv, Remaining
<1>7. CASE k # 1
  <2> DEFINE v == At(contexts, written, m)
             below == TailAt(contexts, written, m)
  <2>1. m \in 1..2 /\ m \in 1..3 /\ k = m + 1 /\ m \in 1..k /\ m < k /\ m \in 1..m /\ m \in 1..(k - 1)
    BY <1>4, <1>7
  <2>2. /\ IsStack(rest) /\ Len(rest) = m /\ DOMAIN rest = 1..m
        /\ \A q \in 1..m : rest[q] = contexts[q]
    <3>1. IsStack(contexts)
      BY DEF SyntaxInv
    <3>2. /\ IsStack(rest) /\ Len(rest) = m /\ \A q \in 1..Len(rest) : rest[q] = contexts[q]
      BY <1>2, <1>4, <3>1, StackPopped
    <3> HIDE DEF rest
    <3>3. DOMAIN rest = 1..Len(rest)
      BY <3>2, StackIs
    <3> QED
      BY <3>2, <3>3, Zenon
  <2> HIDE DEF m, rest
  <2>3. outer = contexts[m]
    BY <2>1, <2>2
  <2>4. WrittenAs(m, v) /\ Partly(m, outer, v) /\ below \in Seq(Spellings)
        /\ Len(outer.inside) < Len(v.inside)
    <3>1. FollowsAt(contexts, written, m)
      BY <1>4, <2>1
    <3>2. m < Len(contexts)
      BY <1>4, <2>1
    <3> QED
      BY <2>3, <3>1, <3>2, Zenon DEF FollowsAt
  <2> DEFINE z == Len(outer.inside) + 1
             mm == m + 1
  <2>5. w = v.inside[z] /\ tail = RestBelow(m, outer, v, below) /\ Finished = MeaningOf(mm, v.inside[z])
    <3>1. mm = k
      BY <2>1
    <3> HIDE DEF mm
    <3>2. /\ At(contexts, written, k) = At(contexts, written, m).inside[Len(contexts[m].inside) + 1]
          /\ TailAt(contexts, written, k) =
               RestBelow(m, contexts[m], At(contexts, written, m), TailAt(contexts, written, m))
      BY <2>1, AtNext
    <3>3. w = v.inside[z] /\ tail = RestBelow(m, outer, v, below)
      BY <1>4, <2>3, <3>2, Zenon
    <3> QED
      BY <1>3, <3>1, <3>3, Zenon
  <2>6. Len(v.inside) \in Nat /\ Len(v.errorPages) \in Nat
    <3> HIDE DEF v
    <3>1. Sound(m, v)
      BY <2>1, <2>4, WrittenIsSound
    <3>2. HasWords(v) /\ IsRow(v.inside)
      BY <3>1, Zenon DEF Sound
    <3> QED
      BY <3>2, LenProperties DEF HasWords, IsRow
  <2> HIDE DEF outer, v, below
  <2>7. Partly(m, wider, v) /\ RestOf(m, wider, v, below) = RestBelow(m, outer, v, below)
    BY <2>4, <2>5, <2>6, AfterInside
  <2> HIDE DEF wider
  <2>8. Len(new) = m /\ new[m] = wider /\ \A q \in 1..(m - 1) : new[q] = contexts[q]
    <3>1. DOMAIN new = 1..m /\ new[m] = wider /\ \A q \in 1..(m - 1) : new[q] = rest[q]
      BY <2>1, <2>2
    <3>2. \A q \in 1..(m - 1) : q \in 1..m
      BY <2>1
    <3>3. Len(new) = m
      BY <2>1, <3>1
    <3> QED
      BY <2>2, <3>1, <3>2, <3>3
  <2> HIDE DEF new, text, h
  <2>9. \A q \in 1..(m - 1) : /\ new[q] = contexts[q] /\ FollowsAt(contexts, written, q)
                              /\ Len(contexts[q].inside) < Len(At(contexts, written, q).inside)
    <3>1. \A q \in 1..(k - 1) : /\ FollowsAt(contexts, written, q)
                                /\ Len(contexts[q].inside) < Len(At(contexts, written, q).inside)
      BY <1>4, AroundIs
    <3>2. \A q \in 1..(m - 1) : q \in 1..(k - 1)
      BY <2>1
    <3> QED
      BY <2>8, <3>1, <3>2
  <2>10. text = RestOf(m, new[m], v, below)
    BY <1>3, <2>5, <2>7, <2>8, Zenon
  <2>11. Follows(new, written, text)
    <3>1. WrittenAs(m, v) /\ Partly(m, new[m], v) /\ below \in Seq(Spellings)
      BY <2>4, <2>7, <2>8, Zenon
    <3> QED
      BY <2>1, <2>8, <2>9, <2>10, <3>1, FollowsIf DEF v, below
  <2>12. new # <<>>
    <3>1. Len(<<>>) = 0 /\ m # 0
      BY <2>1
    <3> QED
      BY <2>8, <3>1, Zenon
  <2>13. contexts' = new /\ httpContext' = Unwritten
    BY <1>4, <1>5, <1>7
  <2> QED
    BY <1>2, <2>11, <2>12, <2>13, GoesOn DEF text
<1> QED
  BY <1>6, <1>7

\* Outside any block: the http block comes next, or the file is at its end.
BeforeHttp ==
    LET b == Block("http", <<>>)
    IN  /\ httpContext = Unwritten /\ currentToken = "http" /\ Token(token_index + 1) = "{"
        /\ token_index \in 1..Len(tokens) /\ Partly(1, b, written)
        /\ SubSeq(tokens, token_index + 2, Len(tokens)) = RestOf(1, b, written, <<>>)
AfterHttp ==
    /\ httpContext = Meaning(written) /\ httpContext # Unwritten
    /\ token_index > Len(tokens) /\ currentToken = ""

\* While the whole file is left, the http block comes.
LEMMA HttpComes ==
    ASSUME SyntaxInv, IsWrittenHttp(written), httpContext = Unwritten, Remaining = HttpText(written)
    PROVE  BeforeHttp
<1> DEFINE w == written
           b == Block("http", <<>>)
           none == <<>>
           rest == RestOf(1, b, w, none)
<1>1. 1 \in 1..3 /\ 0 \in Nat /\ WrittenAs(1, w) /\ KindAt(1) = "http"
  BY DEF WrittenAs, KindAt
<1>2. none \in Seq(Spellings) /\ Len(none) = 0
  BY EmptySeq
<1> HIDE DEF none
<1>3. HasWords(w) /\ IsRow(w.inside) /\ w.kind = "http" /\ w.name = <<>>
  <2>1. Sound(1, w)
    BY <1>1, WrittenIsSound
  <2>2. 1 # 3
    OBVIOUS
  <2> QED
    BY <1>1, <2>1, <2>2, Zenon DEF Sound
<1>4. CanBeRead(w, {}, 0, 0)
  <2>1. Len(w.errorPages) \in Nat /\ Len(w.inside) \in Nat
    BY <1>3, LenProperties DEF HasWords, IsRow
  <2> QED
    BY <2>1 DEF CanBeRead
<1>5. Partly(1, b, w) /\ rest = Rest(1, w, {}, 0, 0, none)
  <2>1. b = Read(1, w, {}, 0, 0)
    BY <1>3, ReadNothing, Zenon
  <2> HIDE DEF b, w
  <2>2. Partly(1, b, w) /\ \A tail : RestOf(1, b, w, tail) = Rest(1, w, {}, 0, 0, tail)
    BY <1>1, <1>4, <2>1, PartlyIs
  <2> QED
    BY <2>2
<1> HIDE DEF b, rest, w
<1>6. rest \in Seq(Spellings)
  BY <1>1, <1>2, <1>5, RestIs
<1>7. Remaining = Opening(w) \o rest
  <2> DEFINE text == TextAt(1, w)
  <2>1. text \o none = Opening(w) \o rest
    BY <1>1, <1>2, <1>5, WholeText DEF BeginsWhole
  <2>2. text \in Seq(Spellings)
    BY <1>1, WrittenIsLegible, TextIs
  <2>3. text = Remaining
    BY DEF TextAt, w
  <2> HIDE DEF text
  <2>4. text \o none = text
    BY <2>2, ConcatEmptySeq DEF none
  <2> QED
    BY <2>1, <2>3, <2>4
<1>8. OpeningRead(w, rest)
  BY <1>3, <1>6, <1>7, OpeningComes
<1>9. Len(w.name) = 0
  BY <1>2, <1>3 DEF none
<1>10. token_index + 1 + 0 = token_index + 1 /\ 2 + 0 = 2
  <2>1. \A x \in Nat : x + 1 + 0 = x + 1
    OBVIOUS
  <2>2. 2 + 0 = 2
    OBVIOUS
  <2>3. token_index \in Nat
    BY TokensAre
  <2> QED
    BY <2>1, <2>2, <2>3
<1>11. currentToken = "http" /\ Token(token_index + 1) = "{"
       /\ SubSeq(tokens, token_index + 2, Len(tokens)) = rest
  BY <1>3, <1>8, <1>9, <1>10 DEF OpeningRead
<1>12. token_index \in 1..Len(tokens)
  <2>1. Token(token_index) # ""
    BY <1>11 DEF currentToken
  <2> QED
    BY <2>1, TokensAre
<1> QED
  BY <1>5, <1>11, <1>12, Zenon DEF BeforeHttp, b, rest, w, none

\* When nothing is left, nothing does.
LEMMA NothingComes ==
    ASSUME SyntaxInv, IsWrittenHttp(written), httpContext = Meaning(written), Remaining = <<>>
    PROVE  AfterHttp
<1>1. /\ tokens \in Seq(Spellings) /\ Len(tokens) \in Nat /\ DOMAIN tokens = 1..Len(tokens)
      /\ token_index \in Nat /\ token_index >= 1
  BY TokensAre
<1>2. token_index > Len(tokens)
  <2> DEFINE left == SubSeq(tokens, token_index, Len(tokens))
  <2>1. \A m \in token_index..Len(tokens) : tokens[m] \in Spellings
    BY <1>1, ElementOfSeq
  <2>2. Len(left) = IF token_index <= Len(tokens) THEN Len(tokens) - token_index + 1 ELSE 0
    BY <1>1, <2>1, SubSeqProperties
  <2>3. Len(left) = 0
    BY EmptySeq DEF Remaining
  <2> HIDE DEF left
  <2> QED
    BY <1>1, <2>2, <2>3
<1>3. currentToken = ""
  <2>1. token_index \notin 1..Len(tokens)
    BY <1>1, <1>2
  <2> QED
    BY <1>1, <2>1, Zenon DEF currentToken, Token
<1>4. Meaning(written) # Unwritten
  <2>1. HasWords(written) /\ written.kind = "http"
    <3>1. WrittenAs(1, written) /\ 1 \in 1..3 /\ KindAt(1) = "http"
      BY DEF WrittenAs, KindAt
    <3>2. Sound(1, written)
      BY <3>1, WrittenIsSound
    <3> QED
      BY <3>1, <3>2, Zenon DEF Sound
  <2> DEFINE inside == [k \in DOMAIN written.inside |-> Listening(written.inside[k])]
  <2>2. Meaning(written) = GivenInside(written, inside)
    BY Zenon DEF Meaning, GivenInside
  <2> HIDE DEF inside
  <2>3. Meaning(written).kind = "http"
    <3>1. HasFields(written)
      BY <2>1, Zenon DEF HasWords
    <3>2. GivenInside(written, inside).kind = written.kind
      BY <3>1, ReplacedFields
    <3> QED
      BY <2>1, <2>2, <3>2, Zenon
  <2>4. Unwritten.kind = "none"
    BY DEF Unwritten
  <2> QED
    BY <2>3, <2>4
<1> QED
  BY <1>2, <1>3, <1>4 DEF AfterHttp

\* Between the two there is no third.
LEMMA AtFileLevelIs ==
    ASSUME SyntaxInv, WrittenInv, written # Unwritten, contexts = <<>> PROVE BeforeHttp \/ AfterHttp
<1>1. /\ IsWrittenHttp(written)
      /\ \/ httpContext = Unwritten /\ Remaining = HttpText(written)
         \/ httpContext = Meaning(written) /\ Remaining = <<>>
  BY DEF WrittenInv
<1> QED
  BY <1>1, HttpComes, NothingComes

\* The http block is opened.
LEMMA OpenHttpWritten ==
    ASSUME SyntaxInv, WrittenInv, written # Unwritten, OpenHttp PROVE WrittenInv'
<1> DEFINE b == Block("http", <<>>)
           new == <<b>>
           h == token_index + 2
           w == written
           none == <<>>
           text == SubSeq(tokens, h, Len(tokens))
<1>1. /\ contexts = <<>> /\ httpContext = Unwritten /\ parser = "parsing" /\ parser' = parser
      /\ httpContext' = Unwritten /\ contexts' = new /\ UNCHANGED <<tokens, written>> /\ token_index' = h
  BY DEF OpenHttp, AtFileLevel, Parse, Move
<1>2. BeforeHttp /\ IsWrittenHttp(w)
  BY <1>1, AtFileLevelIs DEF AfterHttp, WrittenInv
<1>3. Partly(1, b, w) /\ text = RestOf(1, b, w, none)
  BY <1>2, Zenon DEF BeforeHttp
<1> HIDE DEF b, h, w, text
<1>4. Len(new) = 1 /\ new[1] = b
  BY OneIs
<1>5. At(new, w, 1) = w /\ TailAt(new, w, 1) = none
  BY DEF At, TailAt
<1>6. none \in Seq(Spellings) /\ WrittenAs(1, w)
  BY <1>2, EmptySeq DEF WrittenAs
<1> HIDE DEF new, none
<1>7. FollowsAt(new, w, 1)
  <2>1. ~(1 < 1)
    OBVIOUS
  <2> QED
    BY <1>3, <1>4, <1>5, <1>6, <2>1, Zenon DEF FollowsAt
<1>8. Follows(new, w, text)
  <2>1. \A k \in 1..1 : k = 1
    OBVIOUS
  <2> QED
    BY <1>3, <1>4, <1>5, <1>7, <2>1, Zenon DEF Follows
<1>9. new # <<>>
  <2>1. Len(<<>>) = 0 /\ 1 # 0
    OBVIOUS
  <2> QED
    BY <1>4, <2>1
<1> QED
  BY <1>1, <1>8, <1>9, GoesOn DEF text, w

\* The parser does not fail, skips nothing, and stops only at the end.
LEMMA OthersWritten ==
    ASSUME SyntaxInv, WrittenInv, written # Unwritten, SkipToken \/ ThrowError \/ EndOfFile
    PROVE  WrittenInv'
<1>1. ASSUME AtFileLevel PROVE (BeforeHttp \/ AfterHttp) /\ Len(tokens) \in Nat /\ token_index \in Nat
  BY <1>1, AtFileLevelIs, TokensAre DEF AtFileLevel
<1>2. ~SkipToken
  <2>1. ASSUME SkipToken PROVE FALSE
    <3>1. AtFileLevel /\ token_index <= Len(tokens) /\ currentToken # "http"
      BY <2>1 DEF SkipToken
    <3>2. ~BeforeHttp
      BY <3>1 DEF BeforeHttp
    <3>3. token_index > Len(tokens)
      BY <1>1, <3>1, <3>2, Zenon DEF AfterHttp
    <3> QED
      BY <1>1, <3>1, <3>3
  <2> QED
    BY <2>1
<1>3. ~ThrowError
  <2>1. ASSUME AtFileLevel, token_index > Len(tokens), httpContext = Unwritten PROVE FALSE
    <3>1. token_index \in 1..Len(tokens)
      BY <1>1, <2>1, Zenon DEF BeforeHttp, AfterHttp
    <3> QED
      BY <1>1, <2>1, <3>1
  <2>2. ASSUME AtFileLevel, currentToken = "http", httpContext # Unwritten \/ Token(token_index + 1) # "{"
        PROVE  FALSE
    BY <1>1, <2>2 DEF BeforeHttp, AfterHttp
  <2>3. ASSUME InBlock, ~OpensBlock, ~IsDirective, ~ClosesBlock PROVE FALSE
    <3>1. \E k, w, tail : ComesNext(k, w, tail)
      BY <2>3, WhatIsNext DEF InBlock
    <3> QED
      BY <2>3, <3>1, Zenon DEF ComesNext
  <2> QED
    BY <2>1, <2>2, <2>3, Zenon DEF ThrowError
<1>4. CASE EndOfFile
  <2>1. /\ contexts = <<>> /\ httpContext # Unwritten /\ parser' = "parsed"
        /\ UNCHANGED <<tokens, written, token_index, contexts, httpContext>>
    BY <1>4 DEF EndOfFile, AtFileLevel
  <2>2. IsWrittenHttp(written) /\ httpContext = Meaning(written) /\ Remaining = <<>>
    BY <2>1 DEF WrittenInv
  <2>3. IsWrittenHttp(written') /\ httpContext' = Meaning(written') /\ Remaining' = <<>>
    BY <2>1, <2>2 DEF Remaining
  <2> QED
    BY <2>1, <2>3 DEF WrittenInv
<1> QED
  BY <1>2, <1>3, <1>4

\* All steps of the parser.
LEMMA WrittenStep == SyntaxInv /\ WrittenInv /\ [ParserNext]_parserVars /\ SyntaxInv' => WrittenInv'
<1> SUFFICES ASSUME SyntaxInv, WrittenInv, [ParserNext]_parserVars, SyntaxInv' PROVE WrittenInv'
  OBVIOUS
<1>1. CASE UNCHANGED parserVars
  BY <1>1 DEF WrittenInv, Remaining, parserVars
<1>2. CASE written = Unwritten /\ ParserNext
  <2>1. written' = written
    BY <1>2 DEF ParserNext, SkipToken, OpenHttp, OpenBlock, SetDirective, CloseBlock, ThrowError,
                EndOfFile, Parse, Move
  <2> QED
    BY <1>2, <2>1 DEF WrittenInv
<1>3. CASE written # Unwritten /\ ParserNext
  BY <1>3, OpenHttpWritten, OpenBlockWritten, SetDirectiveWritten, CloseBlockWritten, OthersWritten
     DEF ParserNext
<1> QED
  BY <1>1, <1>2, <1>3

\* The whole file is left to begin with.
LEMMA WrittenInit == ParserInit => WrittenInv
<1> SUFFICES ASSUME ParserInit, written # Unwritten PROVE WrittenInv
  BY DEF WrittenInv
<1>1. /\ token_index = 1 /\ contexts = <<>> /\ httpContext = Unwritten /\ parser = "parsing"
      /\ IsWrittenHttp(written) /\ tokens = HttpText(written)
  BY FilesAssumption, Zenon DEF ParserInit
<1>2. Remaining = tokens
  <2>1. tokens \in Seq(Spellings)
    BY ParserInitInv, TokensAre
  <2> QED
    BY <1>1, <2>1, SubSeqFull DEF Remaining
<1> QED
  BY <1>1, <1>2 DEF WrittenInv

\* ConfParser: whatever the files are, one that was written from blocks, as the
\* syntax has them, is parsed to what they mean.
THEOREM ParsedCorrect == StartupSpec => []ParsedAsWritten
<1>1. StartupInit => SyntaxInv /\ WrittenInv
  BY ParserInitInv, WrittenInit DEF StartupInit
<1>2. SyntaxInv /\ WrittenInv /\ [StartupNext]_startupVars => (SyntaxInv /\ WrittenInv)'
  <2> SUFFICES ASSUME SyntaxInv, WrittenInv, [StartupNext]_startupVars PROVE SyntaxInv' /\ WrittenInv'
    OBVIOUS
  <2>1. [ParserNext]_parserVars
    BY DEF StartupNext, Parsing, ParseFails, CallApplyCascade, Cascading, InitServer, SkipServer,
           addListenPort, ListenFails, Run, Ended, startupVars, parserVars
  <2> QED
    BY <2>1, SyntaxStep, WrittenStep
<1>3. SyntaxInv /\ WrittenInv => ParsedAsWritten
  BY DEF SyntaxInv, WrittenInv, ParsedAsWritten
<1> QED
  BY <1>1, <1>2, <1>3, PTL DEF StartupSpec
=============================================================================
