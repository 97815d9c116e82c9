---------------------------- MODULE RouterProofs ----------------------------
(***************************************************************************)
(* Proofs about module Router: for every configuration and every request,  *)
(* the loops of RequestRouter find the server block and the location that  *)
(* serve the request best.                                                 *)
(***************************************************************************)
EXTENDS Router, LeastNaturals, TLAPS, SequenceTheorems

-----------------------------------------------------------------------------
(***************************************************************************)
(* The comparison of PrefixMatches, with its cases, is IsIn.               *)
(***************************************************************************)
LEMMA PrefixPointwise ==
    ASSUME NEW S, NEW s \in Seq(S), NEW t \in Seq(S)
    PROVE  IsPrefix(s, t) <=> Len(s) <= Len(t) /\ \A i \in 1..Len(s) : s[i] = t[i]
<1>1. CASE Len(s) <= Len(t)
  <2>1. /\ SubSeq(s, 1, Len(s)) \in Seq(S) /\ Len(SubSeq(s, 1, Len(s))) = Len(s)
        /\ \A i \in 1..Len(s) : SubSeq(s, 1, Len(s))[i] = s[i]
    OBVIOUS
  <2>2. /\ SubSeq(t, 1, Len(s)) \in Seq(S) /\ Len(SubSeq(t, 1, Len(s))) = Len(s)
        /\ \A i \in 1..Len(s) : SubSeq(t, 1, Len(s))[i] = t[i]
    BY <1>1
  <2> QED
    BY <1>1, <2>1, <2>2 DEF IsPrefix
<1>2. CASE ~(Len(s) <= Len(t))
  BY <1>2 DEF IsPrefix
<1> QED
  BY <1>1, <1>2

\* The beginning of a sequence has its length and its elements.
LEMMA InitialPart ==
    ASSUME NEW S, NEW s \in Seq(S), NEW k \in 0..Len(s)
    PROVE  /\ SubSeq(s, 1, k) \in Seq(S) /\ Len(SubSeq(s, 1, k)) = k
           /\ \A i \in 1..k : SubSeq(s, 1, k)[i] = s[i]
<1>1. \A i \in 1..k : s[i] \in S
  OBVIOUS
<1>2. /\ SubSeq(s, 1, k) \in Seq(S) /\ Len(SubSeq(s, 1, k)) = IF 1 <= k THEN k - 1 + 1 ELSE 0
      /\ \A i \in 1..(k - 1 + 1) : SubSeq(s, 1, k)[i] = s[1 + i - 1]
  BY <1>1, SubSeqProperties
<1> QED
  BY <1>2

\* A prefix that ends with a slash matches what is in its directory.
LEMMA SlashPrefix ==
    ASSUME NEW path \in Texts, path # <<>>, path[Len(path)] = "/", NEW uri \in Texts
    PROVE  (IsPrefix(path, uri) \/ Append(uri, "/") = path) <=> IsIn(path, uri)
<1> DEFINE dir == SubSeq(path, 1, Len(path) - 1)
           n == Len(path)
<1>1. n \in Nat \ {0} /\ path \in Seq(Names) /\ uri \in Seq(Names)
  BY DEF Texts
<1>2. /\ dir \in Seq(Names) /\ Len(dir) = n - 1
      /\ \A i \in 1..(n - 1) : dir[i] = path[i]
  <2>1. n - 1 \in 0..Len(path)
    BY <1>1
  <2> QED
    BY <1>1, <2>1, InitialPart
<1>3. Directory(path) = dir
  BY DEF Directory, EndsWithSlash, Front, Last
<1>4. IsPrefix(dir, uri) <=> n - 1 <= Len(uri) /\ \A i \in 1..(n - 1) : path[i] = uri[i]
  <2> HIDE DEF dir
  <2>1. IsPrefix(dir, uri) <=> Len(dir) <= Len(uri) /\ \A i \in 1..Len(dir) : dir[i] = uri[i]
    BY <1>1, <1>2, PrefixPointwise
  <2> QED
    BY <1>2, <2>1
<1>5. IsIn(path, uri) <=>
        /\ n - 1 <= Len(uri) /\ \A i \in 1..(n - 1) : path[i] = uri[i]
        /\ Len(uri) > n - 1 => uri[n] = "/"
  <2>1. Len(dir) + 1 = n
    BY <1>1, <1>2
  <2>2. IsIn(path, uri) <=> IsPrefix(dir, uri) /\ (Len(uri) > Len(dir) => uri[Len(dir) + 1] = "/")
    BY <1>3 DEF IsIn
  <2> HIDE DEF dir
  <2> QED
    BY <1>2, <1>4, <2>1, <2>2
<1>6. IsPrefix(path, uri) <=> n <= Len(uri) /\ \A i \in 1..n : path[i] = uri[i]
  <2> HIDE DEF dir
  <2> QED
    BY <1>1, PrefixPointwise
<1>7. Append(uri, "/") = path <=> Len(uri) = n - 1 /\ \A i \in 1..(n - 1) : path[i] = uri[i]
  <2>1. /\ Append(uri, "/") \in Seq(Names) /\ Len(Append(uri, "/")) = Len(uri) + 1
        /\ \A i \in 1..Len(uri) : Append(uri, "/")[i] = uri[i]
        /\ Append(uri, "/")[Len(uri) + 1] = "/"
    BY <1>1, RouterAssumption
  <2> QED
    BY <1>1, <2>1
<1> QED
  BY <1>1, <1>5, <1>6, <1>7

\* So does one without, as the next symbol of the path has to be a slash.
LEMMA PlainPrefix ==
    ASSUME NEW path \in Texts, path # <<>>, path[Len(path)] # "/", NEW uri \in Texts
    PROVE  (IsPrefix(path, uri) /\ (Len(uri) = Len(path) \/ uri[Len(path) + 1] = "/"))
             <=> IsIn(path, uri)
<1>1. Len(path) \in Nat /\ Len(uri) \in Nat
  BY DEF Texts
<1>2. IsPrefix(path, uri) => Len(path) <= Len(uri)
  BY DEF IsPrefix
<1>3. Directory(path) = path
  BY DEF Directory, EndsWithSlash, Last
<1> QED
  BY <1>1, <1>2, <1>3 DEF IsIn

\* RequestRouter::findLocationForRequest: either way a prefix stands for a directory.
LEMMA PrefixIsDirectory ==
    ASSUME NEW path \in Texts \ {<<>>}, NEW uri \in Texts
    PROVE  PrefixMatches(path, uri) <=> IsIn(path, uri)
BY SlashPrefix, PlainPrefix DEF PrefixMatches, EndsWithSlash, Last

-----------------------------------------------------------------------------
(***************************************************************************)
(* Types.                                                                  *)
(***************************************************************************)
LEMMA ConfigTypes ==
    ASSUME TypeOK
    PROVE  /\ servers \in Seq(ServerType) /\ request \in RequestType
           /\ server # 0 => Locations \in Seq(LocationType)
<1>1. servers \in Seq(ServerType) /\ request \in RequestType
  BY RouterAssumption DEF TypeOK
<1>2. server # 0 => servers[server] \in ServerType
  BY <1>1 DEF TypeOK
<1> QED
  BY <1>1, <1>2 DEF Locations, ServerType

\* For every set of configurations and requests: the routing never looks
\* outside the configuration it was given.
THEOREM TypeCorrect == Spec => []TypeOK
<1>1. Init => TypeOK
  BY RouterAssumption DEF Init, TypeOK
<1>2. TypeOK /\ [Next]_vars => TypeOK'
  <2> SUFFICES ASSUME TypeOK, [Next]_vars PROVE TypeOK'
    OBVIOUS
  <2> USE DEF fixedVars, serverVars, matchVars
  <2>1. Len(servers) \in Nat /\ \A i \in 1..Len(servers) : Len(servers[i].locations) \in Nat
    BY ConfigTypes DEF ServerType
  <2>2. CASE ExamineServer \/ ChooseServer
    <3>1. /\ at \in Nat \ {0} /\ pc = "servers" /\ server = 0
          /\ {exactMatch, extensionMatch, longestPrefixMatch, location} = {0}
          /\ defaultServer \in 0..Len(servers) /\ firstPortMatch \in 0..Len(servers)
          /\ UNCHANGED <<fixedVars, matchVars, location>>
      BY <2>2 DEF TypeOK, ExamineServer, ChooseServer
    <3>2. /\ at' \in Nat \ {0} /\ pc' \in {"servers", "locations", "done"}
          /\ defaultServer' \in 0..Len(servers) /\ firstPortMatch' \in 0..Len(servers)
          /\ server' \in 0..Len(servers)
          /\ pc' = "servers" => server' = 0
          /\ pc' = "locations" => server' # 0
      <4>1. CASE ExamineServer
        BY <2>1, <3>1, <4>1 DEF ExamineServer, FirstDefault
      <4>2. CASE ChooseServer
        BY <2>1, <3>1, <4>2 DEF ChooseServer, DefaultOrFirst
      <4> QED
        BY <2>2, <4>1, <4>2
    <3>3. exactMatch' = 0 /\ extensionMatch' = 0 /\ longestPrefixMatch' = 0 /\ location' = 0
      BY <3>1
    <3>4. server' # 0 => {exactMatch', extensionMatch', longestPrefixMatch', location'} \subseteq 0..Len(Locations')
      <4>1. server' # 0 => Len(Locations') \in Nat
        BY <2>1, <3>1, <3>2 DEF Locations
      <4> QED
        BY <3>3, <4>1
    <3>5. servers' \in Configs /\ request' \in Requests
      BY <3>1 DEF TypeOK
    <3>6. {defaultServer', firstPortMatch', server'} \subseteq 0..Len(servers')
      BY <3>1, <3>2
    <3>7. pc' \in {"locations", "dispatch"} => server' # 0
      BY <3>2
    <3>8. pc' \in {"servers", "locations", "dispatch", "done"}
      BY <3>2
    <3> QED
      BY <3>2, <3>3, <3>4, <3>5, <3>6, <3>7, <3>8 DEF TypeOK
  <2>3. CASE ExamineLocation
    BY <2>1, <2>3 DEF TypeOK, ExamineLocation, Locations
  <2>4. CASE ChooseLocation
    BY <2>1, <2>4 DEF TypeOK, ChooseLocation, Selected, Locations
  <2>5. CASE Dispatch
    BY <2>1, <2>5 DEF TypeOK, Dispatch, Locations
  <2>6. CASE UNCHANGED vars
    BY <2>6 DEF TypeOK, vars, Locations
  <2> QED
    BY <2>2, <2>3, <2>4, <2>5, <2>6 DEF Next
<1> QED
  BY <1>1, <1>2, PTL DEF Spec
-----------------------------------------------------------------------------
(***************************************************************************)
(* The server block.  While the loop runs, no block before "at" has both   *)
(* the port and the name, and the two pointers are the first default block *)
(* on the port and the first block on the port among them.                 *)
(***************************************************************************)
SeenOnPort == {i \in 1..(at - 1) : OnPort(i)}
SeenDefaults == {i \in SeenOnPort : servers[i].isDefault}

IsFirst(i, S) == IF S = {} THEN i = 0 ELSE i \in S /\ \A j \in S : i <= j

ServersInv ==
    /\ \E i \in DOMAIN servers : OnPort(i)
    /\ pc = "servers" =>
         /\ at <= Len(servers) + 1
         /\ \A i \in SeenOnPort : ~Named(i)
         /\ IsFirst(defaultServer, SeenDefaults)
         /\ IsFirst(firstPortMatch, SeenOnPort)
    /\ ServerIsBest

\* The first of the blocks seen stays the first when one more is seen.
LEMMA FirstStays ==
    ASSUME NEW n \in Nat, NEW S, S \subseteq 1..n, NEW i, IsFirst(i, S)
    PROVE  IsFirst(IF i = 0 THEN n + 1 ELSE i, S \cup {n + 1})
<1>1. S \cup {n + 1} # {}
  OBVIOUS
<1>2. CASE S = {}
  <2>1. i = 0 /\ S \cup {n + 1} = {n + 1}
    BY <1>2 DEF IsFirst
  <2> QED
    BY <2>1 DEF IsFirst
<1>3. CASE S # {}
  <2>1. i \in 1..n /\ i \in S /\ \A j \in S : i <= j
    BY <1>3 DEF IsFirst
  <2>2. i # 0 /\ \A j \in S \cup {n + 1} : i <= j
    BY <2>1
  <2> QED
    BY <1>1, <2>1, <2>2 DEF IsFirst
<1> QED
  BY <1>2, <1>3

\* One more server block is looked at.
LEMMA ExamineKeepsServers ==
    ASSUME TypeOK, ServersInv, ExamineServer PROVE ServersInv'
<1> USE DEF fixedVars, serverVars
<1>1. /\ Len(servers) \in Nat /\ at \in 1..Len(servers) /\ pc = "servers"
      /\ UNCHANGED <<servers, request>> /\ DOMAIN servers = 1..Len(servers)
  BY ConfigTypes DEF TypeOK, ExamineServer
<1>2. /\ SeenOnPort \subseteq 1..(at - 1) /\ SeenDefaults \subseteq 1..(at - 1)
      /\ \A i \in SeenOnPort : ~Named(i)
      /\ IsFirst(defaultServer, SeenDefaults) /\ IsFirst(firstPortMatch, SeenOnPort)
  BY <1>1 DEF ServersInv, SeenOnPort, SeenDefaults
<1>3. \A i : (OnPort(i)' <=> OnPort(i)) /\ (Named(i)' <=> Named(i)) /\ servers'[i] = servers[i]
  BY <1>1 DEF OnPort, Named
<1>4. (\E i \in DOMAIN servers : OnPort(i))'
  BY <1>1 DEF ServersInv, OnPort
<1>5. CASE ~OnPort(at)
  <2>1. pc' = "servers" /\ at' = at + 1 /\ UNCHANGED <<defaultServer, firstPortMatch>>
    BY <1>1, <1>5 DEF ExamineServer
  <2>2. SeenOnPort' = SeenOnPort /\ SeenDefaults' = SeenDefaults
    BY <1>1, <1>3, <1>5, <2>1 DEF SeenOnPort, SeenDefaults
  <2> QED
    BY <1>1, <1>2, <1>3, <1>4, <2>1, <2>2 DEF ServersInv, ServerIsBest, IsFirst
<1>6. CASE OnPort(at) /\ Named(at)
  <2>1. pc' = "locations" /\ server' = at
    BY <1>6 DEF ExamineServer
  <2>2. at \in DOMAIN servers /\ ServerRank(at) = 1
    BY <1>1, <1>6 DEF ServerRank
  <2>3. ASSUME NEW i \in {j \in DOMAIN servers : OnPort(j)} \ {at}
        PROVE  \/ ServerRank(at) < ServerRank(i)
               \/ ServerRank(at) = ServerRank(i) /\ at < i
    <3>1. ServerRank(i) = 1 \/ ServerRank(i) = 2 \/ ServerRank(i) = 3
      BY DEF ServerRank
    <3>2. CASE i < at
      <4>1. ~Named(i)
        BY <1>1, <1>2, <3>2 DEF SeenOnPort
      <4> QED
        BY <2>2, <3>1, <4>1 DEF ServerRank
    <3>3. CASE at < i
      BY <2>2, <3>1, <3>3
    <3> QED
      BY <1>1, <2>3, <3>2, <3>3
  <2>4. PICK best : best = at
    OBVIOUS
  <2>5. \A i : ServerRank(i)' = ServerRank(i)
    BY <1>3 DEF ServerRank
  <2>6. {i \in DOMAIN servers : OnPort(i)}' = {i \in DOMAIN servers : OnPort(i)}
    BY <1>1, <1>3
  <2>7. ServerIsBest'
    BY <1>6, <2>1, <2>2, <2>3, <2>4, <2>5, <2>6 DEF ServerIsBest
  <2> QED
    BY <1>4, <2>1, <2>7 DEF ServersInv
<1>7. CASE OnPort(at) /\ ~Named(at)
  <2>1. /\ pc' = "servers" /\ at' = at + 1
        /\ defaultServer' = IF servers[at].isDefault /\ defaultServer = 0 THEN at ELSE defaultServer
        /\ firstPortMatch' = IF firstPortMatch = 0 THEN at ELSE firstPortMatch
    BY <1>1, <1>7 DEF ExamineServer, FirstDefault
  <2>2. SeenOnPort' = SeenOnPort \cup {at}
    BY <1>1, <1>3, <1>7, <2>1 DEF SeenOnPort
  <2>3. SeenDefaults' = IF servers[at].isDefault THEN SeenDefaults \cup {at} ELSE SeenDefaults
    BY <1>1, <1>3, <2>2 DEF SeenDefaults
  <2>4. at - 1 \in Nat /\ (at - 1) + 1 = at
    BY <1>1
  <2>5. IsFirst(firstPortMatch', SeenOnPort')
    BY <1>2, <2>1, <2>2, <2>4, FirstStays
  <2>6. IsFirst(defaultServer', SeenDefaults')
    BY <1>2, <2>1, <2>3, <2>4, FirstStays
  <2>7. \A i \in SeenOnPort' : ~Named(i)'
    BY <1>2, <1>3, <1>7, <2>2
  <2>8. ServerIsBest'
    BY <2>1 DEF ServerIsBest
  <2> QED
    BY <1>1, <1>4, <2>1, <2>5, <2>6, <2>7, <2>8 DEF ServersInv, IsFirst
<1> QED
  BY <1>5, <1>6, <1>7

\* With all blocks looked at, the one chosen is the first of the best kind.
LEMMA ChooseIsBest ==
    ASSUME TypeOK, ServersInv, ChooseServer PROVE ServersInv'
<1> USE DEF fixedVars
<1>1. /\ Len(servers) \in Nat /\ at = Len(servers) + 1 /\ pc = "servers" /\ pc' # "servers"
      /\ UNCHANGED <<servers, request>> /\ DOMAIN servers = 1..Len(servers)
      /\ server' = IF defaultServer # 0 THEN defaultServer ELSE firstPortMatch
  BY ConfigTypes DEF TypeOK, ChooseServer, DefaultOrFirst
<1>2. SeenOnPort = {i \in DOMAIN servers : OnPort(i)}
  BY <1>1 DEF SeenOnPort
<1>3. /\ \A i \in SeenOnPort : ~Named(i)
      /\ IsFirst(defaultServer, SeenDefaults) /\ IsFirst(firstPortMatch, SeenOnPort)
      /\ SeenOnPort # {}
  BY <1>1, <1>2 DEF ServersInv
<1>4. \A i : (OnPort(i)' <=> OnPort(i)) /\ ServerRank(i)' = ServerRank(i)
  BY <1>1 DEF OnPort, Named, ServerRank
<1>5. \A i \in SeenOnPort : ServerRank(i) = IF i \in SeenDefaults THEN 2 ELSE 3
  BY <1>3 DEF ServerRank, SeenDefaults
<1>6. /\ server' \in SeenOnPort
      /\ \A i \in SeenOnPort \ {server'} :
           \/ ServerRank(server') < ServerRank(i)
           \/ ServerRank(server') = ServerRank(i) /\ server' < i
  <2>1. SeenDefaults \subseteq SeenOnPort /\ SeenOnPort \subseteq Nat \ {0}
    BY <1>1, <1>2 DEF SeenDefaults
  <2>2. CASE SeenDefaults = {}
    <3>1. server' = firstPortMatch /\ server' \in SeenOnPort /\ \A i \in SeenOnPort : server' <= i
      BY <1>1, <1>3, <2>2 DEF IsFirst
    <3>2. \A i \in SeenOnPort : ServerRank(i) = 3
      BY <1>5, <2>2
    <3> QED
      BY <2>1, <3>1, <3>2
  <2>3. CASE SeenDefaults # {}
    <3>1. defaultServer \in SeenDefaults /\ \A i \in SeenDefaults : defaultServer <= i
      BY <1>3, <2>3 DEF IsFirst
    <3>2. server' = defaultServer
      BY <1>1, <2>1, <3>1
    <3>3. \A i \in SeenOnPort : (ServerRank(i) = 2 /\ i \in SeenDefaults) \/ ServerRank(i) = 3
      BY <1>5
    <3>4. ServerRank(server') = 2
      BY <1>5, <2>1, <3>1, <3>2
    <3> QED
      BY <2>1, <3>1, <3>2, <3>3, <3>4
  <2> QED
    BY <2>2, <2>3
<1>7. PICK best : best = server'
  OBVIOUS
<1>8. ServerIsBest'
  <2>1. {i \in DOMAIN servers : OnPort(i)}' = SeenOnPort
    BY <1>1, <1>2, <1>4
  <2>2. \A i : ServerRank(i)' = ServerRank(i)
    BY <1>4
  <2> QED
    BY <1>6, <1>7, <2>1, <2>2 DEF ServerIsBest
<1> QED
  BY <1>1, <1>4, <1>8 DEF ServersInv

\* The loop over the server blocks keeps its invariant to the end.
LEMMA ServersInvariant == Spec => []ServersInv
<1>1. Init => ServersInv
  BY RouterAssumption DEF Init, ServersInv, ServerIsBest, SeenOnPort, SeenDefaults, IsFirst
<1>2. TypeOK /\ ServersInv /\ [Next]_vars => ServersInv'
  <2> SUFFICES ASSUME TypeOK, ServersInv, [Next]_vars PROVE ServersInv'
    OBVIOUS
  <2>1. ASSUME pc # "servers", pc' # "servers", UNCHANGED <<servers, request, server>> PROVE ServersInv'
    BY <2>1 DEF ServersInv, ServerIsBest, ServerRank, OnPort, Named
  <2>2. CASE ExamineLocation \/ ChooseLocation \/ Dispatch
    BY <2>1, <2>2 DEF ExamineLocation, ChooseLocation, Dispatch, fixedVars, serverVars
  <2>3. CASE UNCHANGED vars
    BY <2>3 DEF vars, fixedVars, serverVars, ServersInv, ServerIsBest, ServerRank, OnPort, Named,
                SeenOnPort, SeenDefaults
  <2> QED
    BY <2>2, <2>3, ExamineKeepsServers, ChooseIsBest DEF Next
<1> QED
  BY <1>1, <1>2, TypeCorrect, PTL DEF Spec

\* For every configuration: the server block found is the first of the best
\* kind on the port, by name, as the default or neither.
THEOREM ServerCorrect == Spec => []ServerIsBest
<1>1. ServersInv => ServerIsBest
  BY DEF ServersInv
<1> QED
  BY <1>1, ServersInvariant, PTL

-----------------------------------------------------------------------------
(***************************************************************************)
(* The location.  While the loop runs, each of the three pointers is 0 or  *)
(* a match of its kind among the locations seen, and 0 only if there is    *)
(* none; no prefix seen is longer than the longest.                        *)
(***************************************************************************)
Seen(type) == {i \in 1..(at - 1) : Locations[i].type = type /\ Matches(i)}

IsOneOf(i, S) == IF S = {} THEN i = 0 ELSE i \in S

LocationsInv ==
    /\ pc = "locations" =>
         /\ at <= Len(Locations) + 1
         /\ IsOneOf(exactMatch, Seen("exact"))
         /\ IsOneOf(extensionMatch, Seen("extension"))
         /\ IsOneOf(longestPrefixMatch, Seen("prefix"))
         /\ \A i \in Seen("prefix") : Len(Locations[i].path) <= LongestPrefixLength
    /\ LocationIsBest

\* What the steps within a server block leave as it is.
LEMMA SameBlock ==
    ASSUME UNCHANGED <<servers, request, server>>
    PROVE  /\ Locations' = Locations /\ (OneExtension' <=> OneExtension)
           /\ \A i : (Matches(i)' <=> Matches(i)) /\ (Allows(i)' <=> Allows(i))
           /\ \A i, j : IsBetter(i, j)' <=> IsBetter(i, j)
<1>1. Locations' = Locations
  BY DEF Locations
<1>2. \A i : (Matches(i)' <=> Matches(i)) /\ (Allows(i)' <=> Allows(i))
  BY <1>1 DEF Matches, Allows
<1>3. \A i, j : IsBetter(i, j)' <=> IsBetter(i, j)
  BY <1>1, <1>2 DEF IsBetter
<1>4. OneExtension' <=> OneExtension
  BY <1>1, <1>2 DEF OneExtension
<1> QED
  BY <1>1, <1>2, <1>3, <1>4

\* One more location is looked at.
LEMMA ExamineKeepsLocations ==
    ASSUME TypeOK, LocationsInv, ExamineLocation PROVE LocationsInv'
<1> DEFINE loc == Locations[at]
           Added(type) == IF loc.type = type /\ Matches(at) THEN {at} ELSE {}
<1>1. /\ UNCHANGED <<servers, request, server>> /\ pc = "locations" /\ pc' = pc
      /\ server # 0 /\ exactMatch = 0 /\ at' = at + 1
  BY DEF TypeOK, ExamineLocation, fixedVars, serverVars
<1>2. Locations \in Seq(LocationType) /\ at \in 1..Len(Locations) /\ Len(Locations) \in Nat
  BY <1>1, ConfigTypes DEF TypeOK, ExamineLocation
<1>3. loc \in LocationType /\ request.path \in Texts
  BY <1>1, <1>2, ConfigTypes DEF RequestType
<1>4. /\ Locations' = Locations
      /\ \A i : Matches(i)' <=> Matches(i)
  BY <1>1, SameBlock
<1>5. ASSUME NEW type PROVE Seen(type)' = Seen(type) \cup Added(type)
  <2>1. PICK t : t = type
    OBVIOUS
  <2>2. Seen(t)' = {i \in 1..at : Locations[i].type = t /\ Matches(i)}
    BY <1>1, <1>2, <1>4 DEF Seen
  <2>3. 1..at = 1..(at - 1) \cup {at}
    BY <1>2
  <2> QED
    BY <2>1, <2>2, <2>3 DEF Seen
<1>6. /\ loc.type \in {"exact", "extension", "prefix"}
      /\ loc.type = "exact" => (Matches(at) <=> request.path = loc.path)
      /\ loc.type = "extension" => (Matches(at) <=> ExtensionMatches(loc.path, request.path))
      /\ loc.type = "prefix" => (Matches(at) <=> PrefixMatches(loc.path, request.path))
  <2>1. loc.path \in Texts \ {<<>>} /\ loc.type \in {"exact", "extension", "prefix"}
    BY <1>3 DEF LocationType
  <2>2. PrefixMatches(loc.path, request.path) <=> IsIn(loc.path, request.path)
    BY <1>3, <2>1, PrefixIsDirectory
  <2> QED
    BY <2>1, <2>2 DEF Matches
<1>7. /\ exactMatch' = IF loc.type = "exact" /\ Matches(at) THEN at ELSE 0
      /\ extensionMatch' = IF loc.type = "extension" /\ Matches(at) THEN at ELSE extensionMatch
      /\ longestPrefixMatch' =
           IF loc.type = "prefix" /\ Matches(at) /\ Len(loc.path) > LongestPrefixLength
           THEN at ELSE longestPrefixMatch
  BY <1>6 DEF ExamineLocation
<1>8. /\ IsOneOf(exactMatch, Seen("exact")) /\ IsOneOf(extensionMatch, Seen("extension"))
      /\ IsOneOf(longestPrefixMatch, Seen("prefix"))
      /\ \A i \in Seen("prefix") : Len(Locations[i].path) <= LongestPrefixLength
  BY <1>1 DEF LocationsInv
<1>9. \A type : 0 \notin Seen(type) /\ at \notin Seen(type)
  BY <1>2 DEF Seen
<1>10. IsOneOf(exactMatch', Seen("exact")')
  BY <1>1, <1>5, <1>7, <1>8, <1>9 DEF IsOneOf
<1>11. IsOneOf(extensionMatch', Seen("extension")')
  BY <1>5, <1>7, <1>8, <1>9 DEF IsOneOf
<1>12. /\ IsOneOf(longestPrefixMatch', Seen("prefix")')
       /\ \A i \in Seen("prefix")' : Len(Locations[i].path) <= LongestPrefixLength'
  <2>1. /\ Len(loc.path) \in Nat \ {0}
        /\ \A i \in 1..Len(Locations) : Len(Locations[i].path) \in Nat \ {0}
    <3>1. \A text \in Texts \ {<<>>} : Len(text) \in Nat \ {0}
      BY DEF Texts
    <3>2. \A i \in 1..Len(Locations) : Locations[i] \in LocationType
      BY <1>2
    <3>3. \A i \in 1..Len(Locations) : Locations[i].path \in Texts \ {<<>>}
      BY <3>2 DEF LocationType
    <3> QED
      BY <1>2, <3>1, <3>3
  <2>2. LongestPrefixLength' = IF longestPrefixMatch' = 0 THEN 0 ELSE Len(Locations[longestPrefixMatch'].path)
    BY <1>4 DEF LongestPrefixLength
  <2>3. longestPrefixMatch \in 0..Len(Locations) /\ LongestPrefixLength \in Nat
    BY <1>1, <1>2, <2>1 DEF TypeOK, LongestPrefixLength
  <2>4. CASE loc.type = "prefix" /\ Matches(at)
    <3>1. Seen("prefix")' = Seen("prefix") \cup {at}
      BY <1>5, <2>4
    <3>2. CASE Len(loc.path) > LongestPrefixLength
      <4>1. longestPrefixMatch' = at /\ LongestPrefixLength' = Len(loc.path)
        BY <1>2, <1>7, <2>2, <2>4, <3>2
      <4>2. \A i \in Seen("prefix") : Len(Locations[i].path) \in Nat
        BY <1>2, <2>1 DEF Seen
      <4> QED
        <5>1. IsOneOf(longestPrefixMatch', Seen("prefix")')
          BY <3>1, <4>1 DEF IsOneOf
        <5>2. \A i \in Seen("prefix") : Len(Locations[i].path) <= LongestPrefixLength'
          <6>1. \A i \in Seen("prefix") : Len(Locations[i].path) <= LongestPrefixLength
            BY <1>8
          <6>2. LongestPrefixLength \in Nat /\ Len(loc.path) \in Nat
            BY <2>1, <2>3
          <6> QED
            BY <3>2, <4>1, <4>2, <6>1, <6>2
        <5>3. Len(Locations[at].path) <= LongestPrefixLength'
          BY <2>1, <4>1
        <5> QED
          BY <3>1, <5>1, <5>2, <5>3
    <3>3. CASE ~(Len(loc.path) > LongestPrefixLength)
      <4>1. longestPrefixMatch' = longestPrefixMatch /\ LongestPrefixLength' = LongestPrefixLength
        BY <1>7, <2>2, <3>3 DEF LongestPrefixLength
      <4>2. longestPrefixMatch # 0
        BY <2>1, <2>3, <3>3 DEF LongestPrefixLength
      <4> QED
        BY <1>8, <2>1, <2>3, <3>1, <3>3, <4>1, <4>2 DEF IsOneOf
    <3> QED
      BY <3>2, <3>3
  <2>5. CASE ~(loc.type = "prefix" /\ Matches(at))
    <3>1. Seen("prefix")' = Seen("prefix") /\ longestPrefixMatch' = longestPrefixMatch
      BY <1>5, <1>7, <2>5
    <3> QED
      BY <1>8, <2>2, <3>1 DEF IsOneOf, LongestPrefixLength
  <2> QED
    BY <2>4, <2>5
<1>13. LocationIsBest'
  BY <1>1 DEF LocationIsBest
<1> QED
  BY <1>1, <1>2, <1>4, <1>10, <1>11, <1>12, <1>13 DEF LocationsInv

\* With all locations looked at, the one chosen is one of the best.
LEMMA ChooseIsBestLocation ==
    ASSUME TypeOK, LocationsInv, ChooseLocation PROVE LocationIsBest'
<1> DEFINE Candidates == {i \in DOMAIN Locations : Matches(i)}
<1>1. /\ UNCHANGED <<servers, request, server>> /\ pc = "locations" /\ pc' = "dispatch"
      /\ server # 0 /\ location' = Selected
  BY DEF TypeOK, ChooseLocation, fixedVars, serverVars
<1>2. /\ Locations \in Seq(LocationType) /\ Len(Locations) \in Nat
      /\ at \in 1..(Len(Locations) + 1) /\ DOMAIN Locations = 1..Len(Locations)
  BY <1>1, ConfigTypes DEF TypeOK, LocationsInv
<1>3. \A i \in DOMAIN Locations : Locations[i].type \in {"exact", "extension", "prefix"}
  <2>1. \A i \in DOMAIN Locations : Locations[i] \in LocationType
    BY <1>2
  <2> QED
    BY <2>1 DEF LocationType
<1>4. /\ IsOneOf(exactMatch, Seen("exact")) /\ IsOneOf(extensionMatch, Seen("extension"))
      /\ IsOneOf(longestPrefixMatch, Seen("prefix"))
      /\ \A i \in Seen("prefix") : Len(Locations[i].path) <= LongestPrefixLength
  BY <1>1 DEF LocationsInv
<1>5. ASSUME NEW type, NEW i \in Seen(type)
      PROVE  i \in Candidates /\ Locations[i].type = type /\ i # 0
  BY <1>2, <1>5 DEF Seen
<1>6. ASSUME OneExtension
      PROVE  IF Candidates = {} THEN Selected = 0
             ELSE Selected \in Candidates /\ \A i \in Candidates : ~IsBetter(i, Selected)
  <2>1. CASE exactMatch # 0
    <3>1. Selected = exactMatch /\ exactMatch \in Seen("exact")
      BY <1>4, <2>1 DEF Selected, IsOneOf
    <3> QED
      BY <1>5, <3>1 DEF IsBetter
  <2>2. CASE exactMatch = 0
    <3>1. at = Len(Locations) + 1
      BY <2>2 DEF ChooseLocation
    <3>2. \A i \in Candidates : i \in Seen(Locations[i].type)
      BY <1>2, <3>1 DEF Seen
    <3>3. Seen("exact") = {}
      BY <1>4, <1>5, <2>2 DEF IsOneOf
    <3>4. \A i \in Candidates : i \in Seen("extension") \/ i \in Seen("prefix")
      BY <1>3, <3>2, <3>3
    <3>5. \A i, j \in Seen("extension") : i = j
      BY <1>5, <1>6 DEF OneExtension
    <3>6. \A i \in Seen("prefix") : /\ longestPrefixMatch \in Seen("prefix")
                                    /\ ~IsBetter(i, longestPrefixMatch)
      <4>1. TAKE i \in Seen("prefix")
      <4>2. longestPrefixMatch \in Seen("prefix") /\ longestPrefixMatch # 0
        BY <1>4, <1>5 DEF IsOneOf
      <4>3. Len(Locations[i].path) <= Len(Locations[longestPrefixMatch].path)
        BY <1>4, <4>2 DEF LongestPrefixLength
      <4>4. /\ Locations[i].type = "prefix" /\ Locations[longestPrefixMatch].type = "prefix"
            /\ i \in DOMAIN Locations /\ longestPrefixMatch \in DOMAIN Locations
        BY <1>5, <4>2
      <4>5. Len(Locations[i].path) \in Nat /\ Len(Locations[longestPrefixMatch].path) \in Nat
        <5>1. Locations[i] \in LocationType /\ Locations[longestPrefixMatch] \in LocationType
          BY <1>2, <4>4
        <5> QED
          BY <5>1 DEF LocationType, Texts
      <4> QED
        BY <4>2, <4>3, <4>4, <4>5 DEF IsBetter
    <3>7. CASE extensionMatch = 0
      <4>1. Selected = longestPrefixMatch /\ Seen("extension") = {}
        BY <1>4, <1>5, <2>2, <3>7 DEF Selected, IsOneOf
      <4> QED
        BY <1>4, <1>5, <3>4, <3>6, <4>1 DEF IsOneOf
    <3>8. CASE extensionMatch # 0
      <4>1. extensionMatch \in Seen("extension")
        BY <1>4, <3>8 DEF IsOneOf
      <4>2. extensionMatch \in Candidates /\ Locations[extensionMatch].type = "extension"
        BY <1>5, <4>1
      <4>3. \A i \in Candidates : i = extensionMatch \/ i \in Seen("prefix")
        BY <3>4, <3>5, <4>1
      <4>4. CASE Allows(extensionMatch) \/ longestPrefixMatch = 0
        <5>1. Selected = extensionMatch
          BY <2>2, <3>8, <4>4 DEF Selected
        <5>2. \A i \in Seen("prefix") : Allows(extensionMatch)
          BY <1>4, <1>5, <4>4 DEF IsOneOf
        <5>3. \A i \in Candidates : ~IsBetter(i, extensionMatch)
          BY <1>5, <4>2, <4>3, <5>2 DEF IsBetter
        <5> QED
          BY <4>2, <5>1, <5>3
      <4>5. CASE ~(Allows(extensionMatch) \/ longestPrefixMatch = 0)
        <5>1. Selected = longestPrefixMatch /\ longestPrefixMatch \in Seen("prefix")
          BY <1>4, <2>2, <3>8, <4>5 DEF Selected, IsOneOf
        <5>2. longestPrefixMatch \in Candidates /\ Locations[longestPrefixMatch].type = "prefix"
          BY <1>5, <5>1
        <5>3. ~IsBetter(extensionMatch, longestPrefixMatch)
          BY <4>2, <4>5, <5>2 DEF IsBetter
        <5> QED
          BY <3>6, <4>3, <5>1, <5>2, <5>3
      <4> QED
        BY <4>4, <4>5
    <3> QED
      BY <3>7, <3>8
  <2> QED
    BY <2>1, <2>2
<1>7. PICK best : best = Selected
  OBVIOUS
<1>8. {i \in DOMAIN Locations : Matches(i)}' = Candidates
  BY <1>1, SameBlock
<1>9. \A i, j : IsBetter(i, j)' <=> IsBetter(i, j)
  BY <1>1, SameBlock
<1>10. OneExtension' <=> OneExtension
  BY <1>1, SameBlock
<1> HIDE DEF Candidates
<1> QED
  BY <1>1, <1>6, <1>7, <1>8, <1>9, <1>10 DEF LocationIsBest

\* The loop over the locations keeps its invariant to the end.
LEMMA LocationsInvariant == Spec => []LocationsInv
<1>1. Init => LocationsInv
  BY DEF Init, LocationsInv, LocationIsBest
<1>2. TypeOK /\ ServersInv' /\ LocationsInv /\ [Next]_vars => LocationsInv'
  <2> SUFFICES ASSUME TypeOK, ServersInv', LocationsInv, [Next]_vars PROVE LocationsInv'
    OBVIOUS
  <2>1. CASE ExamineServer
    <3>1. /\ pc = "servers" /\ servers' = servers /\ servers \in Seq(ServerType)
          /\ UNCHANGED <<exactMatch, extensionMatch, longestPrefixMatch>>
          /\ exactMatch = 0 /\ extensionMatch = 0 /\ longestPrefixMatch = 0
      BY <2>1, ConfigTypes DEF TypeOK, ExamineServer, fixedVars, matchVars
    <3>2. /\ pc' \in {"servers", "locations"}
          /\ pc' = "locations" => at' = 1
      BY <2>1, <3>1 DEF ExamineServer, serverVars
    <3>3. pc' = "locations" => servers'[server'] \in ServerType
      BY <3>1 DEF ServersInv, ServerIsBest
    <3>4. pc' = "locations" => Len(Locations') \in Nat
      BY <3>3 DEF Locations, ServerType
    <3>5. \A type : at' = 1 => Seen(type)' = {}
      BY DEF Seen
    <3> QED
      BY <3>1, <3>2, <3>4, <3>5 DEF LocationsInv, LocationIsBest, IsOneOf
  <2>2. CASE ChooseServer
    <3>1. /\ exactMatch' = 0 /\ extensionMatch' = 0 /\ longestPrefixMatch' = 0 /\ at' = 1
          /\ servers' = servers /\ pc' \in {"locations", "done"} /\ (pc' = "done" <=> server' = 0)
      <4>1. pc = "servers" /\ server = 0
        BY <2>2 DEF TypeOK, ChooseServer
      <4>2. {exactMatch, extensionMatch, longestPrefixMatch, location} = {0}
        BY <4>1 DEF TypeOK
      <4>3. exactMatch = 0 /\ extensionMatch = 0 /\ longestPrefixMatch = 0
        BY <4>2
      <4> QED
        BY <2>2, <4>1, <4>3 DEF ChooseServer, fixedVars, matchVars
    <3>2. servers' \in Seq(ServerType) /\ server' \in DOMAIN servers'
      BY <3>1, ConfigTypes DEF ServersInv, ServerIsBest
    <3>3. pc' = "locations" /\ Len(Locations') \in Nat
      BY <3>1, <3>2 DEF Locations, ServerType
    <3>4. \A type : Seen(type)' = {}
      BY <3>1 DEF Seen
    <3> QED
      BY <3>1, <3>3, <3>4 DEF LocationsInv, LocationIsBest, IsOneOf
  <2>3. CASE ExamineLocation
    BY <2>3, ExamineKeepsLocations
  <2>4. CASE ChooseLocation
    <3>1. pc' = "dispatch"
      BY <2>4 DEF ChooseLocation
    <3> QED
      BY <2>4, <3>1, ChooseIsBestLocation DEF LocationsInv
  <2>5. CASE Dispatch
    <3>1. UNCHANGED <<servers, request, server, location>> /\ pc = "dispatch" /\ pc' = "done"
      BY <2>5 DEF Dispatch, fixedVars, serverVars
    <3>2. {i \in DOMAIN Locations : Matches(i)}' = {i \in DOMAIN Locations : Matches(i)}
      BY <3>1, SameBlock
    <3>3. /\ OneExtension' <=> OneExtension
          /\ \A i, j : IsBetter(i, j)' <=> IsBetter(i, j)
      BY <3>1, SameBlock
    <3>4. PICK rigid : rigid = location
      OBVIOUS
    <3> QED
      BY <3>1, <3>2, <3>3, <3>4 DEF LocationsInv, LocationIsBest
  <2>6. CASE UNCHANGED vars
    <3>1. UNCHANGED <<servers, request, server, location, pc, at, exactMatch, extensionMatch, longestPrefixMatch>>
      BY <2>6 DEF vars, fixedVars, serverVars, matchVars
    <3>2. {i \in DOMAIN Locations : Matches(i)}' = {i \in DOMAIN Locations : Matches(i)}
      BY <3>1, SameBlock
    <3>3. /\ OneExtension' <=> OneExtension
          /\ Locations' = Locations
          /\ \A i, j : IsBetter(i, j)' <=> IsBetter(i, j)
          /\ \A type : Seen(type)' = Seen(type)
          /\ LongestPrefixLength' = LongestPrefixLength
      BY <3>1, SameBlock DEF Seen, LongestPrefixLength
    <3>4. LocationIsBest'
      BY <3>1, <3>2, <3>3 DEF LocationsInv, LocationIsBest
    <3>5. Seen("exact")' = Seen("exact") /\ Seen("extension")' = Seen("extension") /\ Seen("prefix")' = Seen("prefix")
      BY <3>3
    <3>6. /\ IsOneOf(exactMatch, Seen("exact"))' <=> IsOneOf(exactMatch, Seen("exact"))
          /\ IsOneOf(extensionMatch, Seen("extension"))' <=> IsOneOf(extensionMatch, Seen("extension"))
          /\ IsOneOf(longestPrefixMatch, Seen("prefix"))' <=> IsOneOf(longestPrefixMatch, Seen("prefix"))
      BY <3>1, <3>5 DEF IsOneOf
    <3>7. CASE pc = "locations"
      <4>1. /\ at <= Len(Locations) + 1
            /\ IsOneOf(exactMatch, Seen("exact")) /\ IsOneOf(extensionMatch, Seen("extension"))
            /\ IsOneOf(longestPrefixMatch, Seen("prefix"))
            /\ \A i \in Seen("prefix") : Len(Locations[i].path) <= LongestPrefixLength
        BY <3>7 DEF LocationsInv
      <4>2. at' <= Len(Locations') + 1
        BY <3>1, <3>3, <4>1
      <4>3. ASSUME NEW i \in Seen("prefix")' PROVE Len(Locations'[i].path) <= LongestPrefixLength'
        <5>1. i \in Seen("prefix")
          BY <3>5, <4>3
        <5> QED
          BY <3>3, <4>1, <5>1
      <4>4. /\ IsOneOf(exactMatch, Seen("exact"))' /\ IsOneOf(extensionMatch, Seen("extension"))'
            /\ IsOneOf(longestPrefixMatch, Seen("prefix"))'
        BY <3>6, <4>1
      <4> QED
        BY <3>4, <4>2, <4>3, <4>4 DEF LocationsInv
    <3>8. CASE pc # "locations"
      BY <3>1, <3>4, <3>8 DEF LocationsInv
    <3> QED
      BY <3>7, <3>8
  <2> QED
    BY <2>1, <2>2, <2>3, <2>4, <2>5, <2>6 DEF Next
<1> QED
  BY <1>1, <1>2, TypeCorrect, ServersInvariant, PTL DEF Spec

\* For every configuration and request: if a location matches, one that does is
\* found and no matching one is better, in whatever order they are written.
THEOREM LocationCorrect == Spec => []LocationIsBest
<1>1. LocationsInv => LocationIsBest
  BY DEF LocationsInv
<1> QED
  BY <1>1, LocationsInvariant, PTL

-----------------------------------------------------------------------------
(***************************************************************************)
(* Kept, from the beginnings of a path on.                                 *)
(***************************************************************************)
IsKept(text, path, places) ==
    /\ text \in [0..Len(path) -> Texts] /\ text[0] = <<>>
    /\ \A k \in 1..Len(path) :
         text[k] = IF k \in places THEN Append(text[k - 1], path[k]) ELSE text[k - 1]

\* The empty path, and one more name, are paths.
LEMMA TextsGrow == <<>> \in Texts /\ \A s \in Texts, x \in Names : Append(s, x) \in Texts
BY DEF Texts

\* The recursive function of Kept is one.
LEMMA KeptIs ==
    ASSUME NEW path \in Texts, NEW places
    PROVE  \E text : IsKept(text, path, places) /\ Kept(path, places) = text[Len(path)]
<1> DEFINE n == Len(path)
           back == [k \in 1..n |-> k - 1]
           step == [p \in (1..n) \X Texts |-> IF p[1] \in places THEN Append(p[2], path[p[1]]) ELSE p[2]]
           Is(f) == f = [i \in 0..n |-> IF i = 0 THEN <<>>
                                        ELSE IF i \in places THEN Append(f[i - 1], path[i]) ELSE f[i - 1]]
           text == CHOOSE f : Is(f)
<1>1. n \in Nat /\ \A k \in 1..n : path[k] \in Names
  BY DEF Texts
<1>2. GoesBack(back, n) /\ \A k \in 1..n : back[k] = k - 1 /\ k - 1 \in 0..n
  BY <1>1 DEF GoesBack
<1>3. IsStep(step, Texts, n)
  BY <1>1, TextsGrow DEF IsStep
<1> HIDE DEF back
<1>4. PICK f : Recursive(f, Texts, <<>>, n, back, step)
  BY <1>1, <1>2, <1>3, TextsGrow, RecursiveFunction
<1>5. /\ f \in [0..n -> Texts] /\ f[0] = <<>>
      /\ \A k \in 1..n : f[k] = step[<<k, f[k - 1]>>] /\ f[k - 1] \in Texts
  BY <1>2, <1>4 DEF Recursive
<1>6. \A k \in 1..n : f[k] = IF k \in places THEN Append(f[k - 1], path[k]) ELSE f[k - 1]
  BY <1>5
<1>7. Is(f)
  <2>1. \A i \in 0..n : f[i] = IF i = 0 THEN <<>>
                               ELSE IF i \in places THEN Append(f[i - 1], path[i]) ELSE f[i - 1]
    <3>1. \A i \in 0..n : i = 0 \/ i \in 1..n
      BY <1>1
    <3> QED
      BY <1>5, <1>6, <3>1
  <2>2. f = [i \in 0..n |-> f[i]]
    BY <1>5
  <2> QED
    BY <2>1, <2>2
<1>8. Is(text)
  BY <1>7
<1>9. Kept(path, places) = text[n]
  BY DEF Kept
<1> HIDE DEF text
<1>10. /\ text[0] = <<>>
       /\ \A k \in 1..n : text[k] = IF k \in places THEN Append(text[k - 1], path[k]) ELSE text[k - 1]
  <2>1. \A i \in 0..n : text[i] = IF i = 0 THEN <<>>
                               ELSE IF i \in places THEN Append(text[i - 1], path[i]) ELSE text[i - 1]
    BY <1>8, Zenon
  <2>2. 0 \in 0..n /\ \A k \in 1..n : k \in 0..n /\ k # 0
    BY <1>1
  <2> QED
    BY <2>1, <2>2
<1>11. \A k \in 0..n : text[k] \in Texts
  <2> DEFINE T == {k \in 0..n : text[k] \in Texts}
  <2>1. 0 \in T
    BY <1>1, <1>10, TextsGrow
  <2>2. ASSUME NEW k \in 1..n, k - 1 \in T PROVE k \in T
    BY <1>1, <1>10, <2>2, TextsGrow
  <2> HIDE DEF T
  <2>3. 0..n \subseteq T
    BY <1>1, <2>1, <2>2, Upward
  <2> QED
    BY <2>3 DEF T
<1>12. text \in [0..n -> Texts]
  <2>1. text = [i \in 0..n |-> text[i]]
    BY <1>8
  <2> QED
    BY <1>11, <2>1
<1> QED
  BY <1>9, <1>10, <1>12 DEF IsKept

\* Two such functions agree as far as their paths and places do.
LEMMA KeptAgree ==
    ASSUME NEW s \in Texts, NEW t \in Texts, NEW p, NEW q, NEW f, NEW g,
           IsKept(f, s, p), IsKept(g, t, q), Len(s) <= Len(t),
           \A k \in 1..Len(s) : s[k] = t[k] /\ (k \in p <=> k \in q)
    PROVE  f[Len(s)] = g[Len(s)]
<1> DEFINE n == Len(s)
           T == {k \in 0..n : f[k] = g[k]}
<1>1. n \in Nat /\ Len(t) \in Nat /\ n <= Len(t)
  BY DEF Texts
<1>2. 0 \in T
  BY <1>1 DEF IsKept
<1>3. ASSUME NEW k \in 1..n, k - 1 \in T PROVE k \in T
  <2>1. k \in 1..Len(t) /\ k \in 0..n /\ f[k - 1] = g[k - 1] /\ s[k] = t[k] /\ (k \in p <=> k \in q)
    BY <1>1, <1>3
  <2>2. f[k] = IF k \in p THEN Append(f[k - 1], s[k]) ELSE f[k - 1]
    BY DEF IsKept
  <2>3. g[k] = IF k \in q THEN Append(g[k - 1], t[k]) ELSE g[k - 1]
    BY <2>1 DEF IsKept
  <2> QED
    BY <2>1, <2>2, <2>3
<1> HIDE DEF T
<1>4. 0..n \subseteq T
  BY <1>1, <1>2, <1>3, Upward
<1> QED
  BY <1>1, <1>4 DEF T

\* NamesIn of a longer path.
LEMMA NamesAppend ==
    ASSUME NEW s \in Texts, NEW x \in Names
    PROVE  /\ NamesIn(s) \in Texts
           /\ NamesIn(Append(s, x)) = IF x = "/" THEN NamesIn(s) ELSE Append(NamesIn(s), x)
<1> DEFINE n == Len(s)
           t == Append(s, x)
           p == {i \in 1..Len(s) : s[i] # "/"}
           q == {i \in 1..Len(t) : t[i] # "/"}
<1>1. /\ n \in Nat /\ t \in Texts /\ Len(t) = n + 1 /\ t[n + 1] = x
      /\ \A k \in 1..n : s[k] = t[k]
  BY DEF Texts
<1>2. NamesIn(s) = Kept(s, p) /\ NamesIn(t) = Kept(t, q)
  BY DEF NamesIn
<1>3. \A k \in 1..n : s[k] = t[k] /\ (k \in p <=> k \in q)
  BY <1>1
<1>4. n + 1 \in q <=> x # "/"
  BY <1>1
<1> HIDE DEF t, p, q
<1>5. PICK f : IsKept(f, s, p) /\ Kept(s, p) = f[n]
  BY KeptIs
<1>6. PICK g : IsKept(g, t, q) /\ Kept(t, q) = g[Len(t)]
  BY <1>1, KeptIs
<1>7. f[n] = g[n]
  BY <1>1, <1>3, <1>5, <1>6, KeptAgree
<1>8. n \in 0..n /\ f[n] \in Texts
  BY <1>1, <1>5 DEF IsKept
<1>9. g[n + 1] = IF n + 1 \in q THEN Append(g[n], t[n + 1]) ELSE g[n]
  <2>1. n + 1 \in 1..Len(t) /\ (n + 1) - 1 = n
    BY <1>1
  <2> QED
    BY <1>6, <2>1 DEF IsKept
<1> QED
  BY <1>1, <1>2, <1>4, <1>5, <1>6, <1>7, <1>8, <1>9 DEF t

\* There are none in the empty path.
LEMMA NamesInNone == NamesIn(<<>>) = <<>>
<1> DEFINE none == <<>>
           p == {i \in 1..Len(none) : none[i] # "/"}
<1>1. none \in Texts /\ Len(none) = 0 /\ NamesIn(<<>>) = Kept(none, p)
  BY TextsGrow DEF NamesIn
<1> HIDE DEF none, p
<1>2. PICK f : IsKept(f, none, p) /\ Kept(none, p) = f[Len(none)]
  BY <1>1, KeptIs
<1> QED
  BY <1>1, <1>2 DEF IsKept

\* A path is made of its beginnings, each one name longer than the one before.
LEMMA Beginnings ==
    ASSUME NEW t \in Texts
    PROVE  /\ Len(t) \in Nat /\ SubSeq(t, 1, 0) = <<>> /\ SubSeq(t, 1, Len(t)) = t
           /\ \A k \in 1..Len(t) : /\ SubSeq(t, 1, k - 1) \in Texts /\ t[k] \in Names
                                   /\ SubSeq(t, 1, k) = Append(SubSeq(t, 1, k - 1), t[k])
<1>1. t \in Seq(Names) /\ Len(t) \in Nat /\ \A k \in 1..Len(t) : t[k] \in Names
  BY DEF Texts
<1>2. SubSeq(t, 1, 0) = <<>> /\ SubSeq(t, 1, Len(t)) = t
  BY <1>1, SubSeqEmpty, SubSeqFull
<1>3. ASSUME NEW k \in 1..Len(t)
      PROVE  /\ SubSeq(t, 1, k - 1) \in Seq(Names)
             /\ SubSeq(t, 1, k) = Append(SubSeq(t, 1, k - 1), t[k])
  <2> DEFINE a == SubSeq(t, 1, k - 1)
  <2>1. k - 1 \in 0..Len(t) /\ 1 \in 1..Len(t) /\ k \in 1..Len(t)
    BY <1>1
  <2>2. a \in Seq(Names)
    BY <1>1, <2>1, InitialPart
  <2>3. SubSeq(t, 1, k) = a \o <<t[k]>>
    BY <1>1, <2>1, SubSeqRecursiveSecond
  <2> HIDE DEF a
  <2>4. Append(a, t[k]) = a \o <<t[k]>>
    BY <1>1, <2>2, AppendIsConcat
  <2> QED
    BY <2>2, <2>3, <2>4 DEF a
<1> QED
  BY <1>1, <1>2, <1>3 DEF Texts

\* A name may be appended before or after two paths are joined.
LEMMA JoinedAppend ==
    ASSUME NEW s \in Texts, NEW a \in Texts, NEW x \in Names
    PROVE  s \o a \in Texts /\ s \o Append(a, x) = Append(s \o a, x)
<1>1. s \in Seq(Names) /\ a \in Seq(Names) /\ <<x>> \in Seq(Names) /\ s \o a \in Seq(Names)
  BY ConcatProperties DEF Texts
<1>2. Append(a, x) = a \o <<x>> /\ Append(s \o a, x) = (s \o a) \o <<x>>
  BY <1>1, AppendIsConcat
<1>3. (s \o a) \o <<x>> = s \o (a \o <<x>>)
  BY <1>1, ConcatAssociative
<1> QED
  BY <1>1, <1>2, <1>3 DEF Texts

\* The names in a path that is made of two are theirs.
LEMMA NamesJoined ==
    ASSUME NEW s \in Texts, NEW t \in Texts
    PROVE  /\ s \o t \in Texts
           /\ NamesIn(s \o t) = NamesIn(s) \o NamesIn(t)
<1> DEFINE n == Len(t)
           u(k) == SubSeq(t, 1, k)
           T == {k \in 0..n : u(k) \in Texts /\ NamesIn(s \o u(k)) = NamesIn(s) \o NamesIn(u(k))}
<1>1. /\ n \in Nat /\ u(0) = <<>> /\ u(n) = t
      /\ \A k \in 1..n : u(k - 1) \in Texts /\ t[k] \in Names /\ u(k) = Append(u(k - 1), t[k])
  BY Beginnings
<1>2. NamesIn(s) \in Texts /\ \A a \in Texts, x \in Names :
        /\ NamesIn(a) \in Texts /\ Append(a, x) \in Texts /\ s \o a \in Texts
        /\ NamesIn(Append(a, x)) = IF x = "/" THEN NamesIn(a) ELSE Append(NamesIn(a), x)
        /\ s \o Append(a, x) = Append(s \o a, x)
        /\ NamesIn(s) \o Append(NamesIn(a), x) = Append(NamesIn(s) \o NamesIn(a), x)
  <2>1. NamesIn(s) \in Texts
    <3>1. "/" \in Names
      BY RouterAssumption
    <3> QED
      BY <3>1, NamesAppend
  <2>2. ASSUME NEW a \in Texts, NEW x \in Names
        PROVE  /\ NamesIn(a) \in Texts /\ Append(a, x) \in Texts /\ s \o a \in Texts
               /\ NamesIn(Append(a, x)) = IF x = "/" THEN NamesIn(a) ELSE Append(NamesIn(a), x)
               /\ s \o Append(a, x) = Append(s \o a, x)
               /\ NamesIn(s) \o Append(NamesIn(a), x) = Append(NamesIn(s) \o NamesIn(a), x)
    <3>1. /\ NamesIn(a) \in Texts
          /\ NamesIn(Append(a, x)) = IF x = "/" THEN NamesIn(a) ELSE Append(NamesIn(a), x)
      BY NamesAppend, Zenon
    <3>2. s \o a \in Texts /\ s \o Append(a, x) = Append(s \o a, x)
      BY JoinedAppend, Zenon
    <3>3. NamesIn(s) \o Append(NamesIn(a), x) = Append(NamesIn(s) \o NamesIn(a), x)
      BY <2>1, <3>1, JoinedAppend, Zenon
    <3> QED
      BY <3>1, <3>2, <3>3, TextsGrow, Zenon
  <2> QED
    BY <2>1, <2>2, Zenon
<1> HIDE DEF u
<1>3. 0 \in T
  <2>1. s \o <<>> = s /\ NamesIn(s) \o <<>> = NamesIn(s)
    BY <1>2, ConcatEmptySeq DEF Texts
  <2>2. s \o u(0) = s /\ NamesIn(u(0)) = <<>> /\ u(0) \in Texts
    BY <1>1, <2>1, NamesInNone, TextsGrow, Zenon
  <2>3. NamesIn(s \o u(0)) = NamesIn(s) /\ NamesIn(s) \o NamesIn(u(0)) = NamesIn(s)
    BY <2>1, <2>2, Zenon
  <2>4. 0 \in 0..n
    BY <1>1
  <2> QED
    BY <2>2, <2>3, <2>4
<1>4. ASSUME NEW k \in 1..n, k - 1 \in T PROVE k \in T
  <2> DEFINE a == u(k - 1)
             x == t[k]
  <2>1. a \in Texts /\ x \in Names /\ u(k) = Append(a, x) /\ NamesIn(s \o a) = NamesIn(s) \o NamesIn(a)
    BY <1>1, <1>4
  <2> HIDE DEF a, x
  <2>2. s \o u(k) = Append(s \o a, x) /\ s \o a \in Texts /\ u(k) \in Texts
    BY <1>2, <2>1
  <2> DEFINE joined == s \o a
  <2>3. NamesIn(s \o u(k)) = IF x = "/" THEN NamesIn(joined) ELSE Append(NamesIn(joined), x)
    <3>1. joined \in Texts /\ s \o u(k) = Append(joined, x)
      BY <2>2
    <3> HIDE DEF joined
    <3>2. NamesIn(Append(joined, x)) = IF x = "/" THEN NamesIn(joined) ELSE Append(NamesIn(joined), x)
      BY <2>1, <3>1, NamesAppend
    <3> QED
      BY <3>1, <3>2, Zenon
  <2>4. NamesIn(u(k)) = IF x = "/" THEN NamesIn(a) ELSE Append(NamesIn(a), x)
    BY <2>1, NamesAppend
  <2>5. NamesIn(s) \o Append(NamesIn(a), x) = Append(NamesIn(s) \o NamesIn(a), x)
    BY <1>2, <2>1
  <2>6. NamesIn(s \o u(k)) = NamesIn(s) \o NamesIn(u(k))
    BY <2>1, <2>3, <2>4, <2>5
  <2>7. k \in 0..n
    BY <1>1
  <2> QED
    BY <2>2, <2>6, <2>7
<1>5. 0..n \subseteq T
  <2> HIDE DEF T
  <2> QED
    BY <1>1, <1>3, <1>4, Upward
<1>6. n \in T
  <2> HIDE DEF T
  <2>1. n \in 0..n
    BY <1>1
  <2> QED
    BY <1>5, <2>1
<1> QED
  <2>1. s \o t \in Texts
    BY ConcatProperties DEF Texts
  <2> QED
    BY <1>1, <1>6, <2>1

\* Dropping slashes loses no name.
LEMMA NamesNormalized ==
    ASSUME NEW path \in Texts
    PROVE  NamesIn(normalizePath(path)) = NamesIn(path)
<1> DEFINE n == Len(path)
           places == {i \in 1..n : ~(path[i] = "/" /\ i > 1 /\ path[i - 1] = "/")}
           u(k) == SubSeq(path, 1, k)
<1>1. /\ n \in Nat /\ u(0) = <<>> /\ u(n) = path
      /\ \A k \in 1..n : u(k - 1) \in Texts /\ path[k] \in Names /\ u(k) = Append(u(k - 1), path[k])
  BY Beginnings
<1>2. normalizePath(path) = Kept(path, places)
  BY DEF normalizePath
<1>3. \A k \in 1..n : k \notin places => path[k] = "/"
  OBVIOUS
<1> HIDE DEF places, u
<1>4. PICK f : IsKept(f, path, places) /\ Kept(path, places) = f[n]
  BY KeptIs
<1> DEFINE T == {k \in 0..n : NamesIn(f[k]) = NamesIn(u(k))}
<1>5. /\ f[0] = <<>>
      /\ \A k \in 1..n : /\ f[k - 1] \in Texts
                         /\ f[k] = IF k \in places THEN Append(f[k - 1], path[k]) ELSE f[k - 1]
  <2>1. \A k \in 1..n : k - 1 \in 0..n
    BY <1>1
  <2> QED
    BY <1>4, <2>1 DEF IsKept
<1>6. 0 \in T
  BY <1>1, <1>5
<1>7. ASSUME NEW k \in 1..n, k - 1 \in T PROVE k \in T
  <2>1. NamesIn(f[k - 1]) = NamesIn(u(k - 1)) /\ k \in 0..n
    BY <1>1, <1>7
  <2>2. NamesIn(u(k)) = IF path[k] = "/" THEN NamesIn(u(k - 1)) ELSE Append(NamesIn(u(k - 1)), path[k])
    <3> DEFINE a == u(k - 1)
    <3>1. a \in Texts /\ path[k] \in Names /\ u(k) = Append(a, path[k])
      BY <1>1
    <3> HIDE DEF a
    <3>2. NamesIn(Append(a, path[k])) = IF path[k] = "/" THEN NamesIn(a) ELSE Append(NamesIn(a), path[k])
      BY <3>1, NamesAppend
    <3> QED
      BY <3>1, <3>2, Zenon DEF a
  <2>3. NamesIn(f[k]) = IF path[k] = "/" THEN NamesIn(f[k - 1]) ELSE Append(NamesIn(f[k - 1]), path[k])
    <3>1. CASE k \in places
      <4>1. f[k] = Append(f[k - 1], path[k]) /\ f[k - 1] \in Texts /\ path[k] \in Names
        BY <1>1, <1>5, <3>1
      <4> QED
        BY <4>1, NamesAppend, Zenon
    <3>2. CASE k \notin places
      BY <1>3, <1>5, <3>2
    <3> QED
      BY <3>1, <3>2
  <2> QED
    BY <2>1, <2>2, <2>3
<1> HIDE DEF T
<1>8. 0..n \subseteq T
  BY <1>1, <1>6, <1>7, Upward
<1>9. n \in T
  BY <1>1, <1>8
<1> QED
  BY <1>1, <1>2, <1>4, <1>9 DEF T

-----------------------------------------------------------------------------
(***************************************************************************)
(* The file in the alias.  Whether or not it is the best, the location     *)
(* that was chosen matches the path.                                       *)
(***************************************************************************)
LocationFits == pc = "dispatch" /\ location # 0 => location \in DOMAIN Locations /\ Matches(location)

\* Each of the three pointers that Selected chooses from is to a match.
LEMMA FitsStep ==
    ASSUME TypeOK, LocationsInv, LocationFits, [Next]_vars PROVE LocationFits'
<1>1. CASE ChooseLocation
  <2>1. /\ UNCHANGED <<servers, request, server>> /\ pc = "locations" /\ server # 0 /\ location' = Selected
    BY <1>1 DEF TypeOK, ChooseLocation, fixedVars, serverVars
  <2>2. /\ Locations \in Seq(LocationType) /\ Len(Locations) \in Nat
        /\ at \in 1..(Len(Locations) + 1) /\ DOMAIN Locations = 1..Len(Locations)
    BY <2>1, ConfigTypes DEF TypeOK, LocationsInv
  <2>3. /\ IsOneOf(exactMatch, Seen("exact")) /\ IsOneOf(extensionMatch, Seen("extension"))
        /\ IsOneOf(longestPrefixMatch, Seen("prefix"))
    BY <2>1 DEF LocationsInv
  <2>4. ASSUME NEW type, NEW i \in Seen(type) PROVE i \in DOMAIN Locations /\ Matches(i)
    BY <2>2, <2>4 DEF Seen
  <2>5. \A i \in {exactMatch, extensionMatch, longestPrefixMatch} :
          i # 0 => i \in DOMAIN Locations /\ Matches(i)
    BY <2>3, <2>4 DEF IsOneOf
  <2>6. PICK rigid : rigid = Selected
    OBVIOUS
  <2>7. rigid # 0 => rigid \in DOMAIN Locations /\ Matches(rigid)
    <3>1. rigid \in {exactMatch, extensionMatch, longestPrefixMatch}
      BY <2>6 DEF Selected
    <3> QED
      BY <2>5, <3>1
  <2>8. Locations' = Locations /\ (Matches(rigid)' <=> Matches(rigid))
    BY <2>1, SameBlock
  <2>9. location' = rigid
    BY <2>1, <2>6
  <2> QED
    BY <2>7, <2>8, <2>9 DEF LocationFits
<1>2. CASE ExamineServer \/ ChooseServer \/ ExamineLocation \/ Dispatch
  <2>1. pc' # "dispatch"
    BY <1>2 DEF ExamineServer, ChooseServer, ExamineLocation, Dispatch
  <2> QED
    BY <2>1 DEF LocationFits
<1>3. CASE UNCHANGED vars
  <2>1. UNCHANGED <<servers, request, server, location, pc>>
    BY <1>3 DEF vars, fixedVars, serverVars
  <2>2. Locations' = Locations /\ \A i : Matches(i)' <=> Matches(i)
    BY <2>1, SameBlock
  <2>3. PICK rigid : rigid = location
    OBVIOUS
  <2> QED
    BY <2>1, <2>2, <2>3 DEF LocationFits
<1> QED
  BY <1>1, <1>2, <1>3 DEF Next

\* What follows a prefix, and what follows the first of two joined sequences.
LEMMA WhatFollows ==
    ASSUME NEW S, NEW s \in Seq(S)
    PROVE  /\ \A t \in Seq(S) : SubSeq(s \o t, Len(s) + 1, Len(s \o t)) = t
           /\ \A t \in Seq(S) : IsPrefix(s, t) =>
                /\ SubSeq(t, Len(s) + 1, Len(t)) \in Seq(S)
                /\ t = s \o SubSeq(t, Len(s) + 1, Len(t))
<1>1. ASSUME NEW t \in Seq(S) PROVE SubSeq(s \o t, Len(s) + 1, Len(s \o t)) = t
  <2> DEFINE st == s \o t
             m == Len(s)
             n == Len(t)
             rest == SubSeq(st, m + 1, m + n)
  <2>1. /\ m \in Nat /\ n \in Nat /\ st \in Seq(S) /\ Len(st) = m + n
        /\ \A i \in 1..n : st[m + i] = t[i] /\ st[m + i] \in S
    BY ConcatProperties, LenProperties
  <2> HIDE DEF st
  <2>2. rest \in Seq(S) /\ Len(rest) = n /\ \A i \in 1..n : rest[i] = st[m + 1 + i - 1]
    BY <2>1, SubSeqProperties
  <2>3. \A i \in 1..n : rest[i] = t[i]
    BY <2>1, <2>2
  <2> HIDE DEF rest
  <2>4. rest = t
    BY <2>1, <2>2, <2>3, SeqEqual
  <2> QED
    BY <2>1, <2>4 DEF rest, st
<1>2. ASSUME NEW t \in Seq(S), IsPrefix(s, t)
      PROVE  /\ SubSeq(t, Len(s) + 1, Len(t)) \in Seq(S)
             /\ t = s \o SubSeq(t, Len(s) + 1, Len(t))
  <2> DEFINE m == Len(s)
             n == Len(t)
             rest == SubSeq(t, m + 1, n)
  <2>1. /\ m \in Nat /\ n \in Nat /\ m <= n
        /\ \A i \in 1..m : s[i] = t[i]
        /\ \A i \in 1..n : t[i] \in S
    BY <1>2, PrefixPointwise, LenProperties
  <2>2. rest \in Seq(S) /\ Len(rest) = n - m /\ \A i \in 1..(n - m) : rest[i] = t[m + 1 + i - 1]
    BY <2>1, SubSeqProperties
  <2> HIDE DEF rest
  <2>3. /\ s \o rest \in Seq(S) /\ Len(s \o rest) = m + (n - m)
        /\ \A i \in 1..(m + (n - m)) : (s \o rest)[i] = IF i <= m THEN s[i] ELSE rest[i - m]
    BY <2>2, ConcatProperties
  <2> DEFINE joined == s \o rest
  <2> HIDE DEF joined
  <2>4. joined \in Seq(S) /\ Len(joined) = n
    BY <2>1, <2>3 DEF joined
  <2>5. ASSUME NEW i \in 1..n PROVE joined[i] = t[i]
    <3>1. joined[i] = IF i <= m THEN s[i] ELSE rest[i - m]
      BY <2>1, <2>3 DEF joined
    <3>2. CASE i <= m
      BY <2>1, <3>1, <3>2
    <3>3. CASE ~(i <= m)
      <4>1. i - m \in 1..(n - m) /\ m + 1 + (i - m) - 1 = i
        BY <2>1, <3>3
      <4> QED
        BY <2>2, <3>1, <3>3, <4>1
    <3> QED
      BY <3>2, <3>3
  <2>6. t = joined
    BY <2>1, <2>4, <2>5, SeqEqual
  <2> QED
    BY <2>2, <2>6 DEF rest, joined
<1> QED
  BY <1>1, <1>2

\* resolveWithAlias of a path that the router sent to the location.
LEMMA AliasIs ==
    ASSUME NEW p \in Texts \ {<<>>}, NEW uri \in Texts, NEW alias \in Texts, IsIn(p, uri),
           NEW loc, loc.path = p, loc.alias = alias
    PROVE  NamesIn(resolveWithAlias(loc, uri)) =
             NamesIn(alias) \o SubSeq(NamesIn(uri), Len(NamesIn(p)) + 1, Len(NamesIn(uri)))
<1>1. "/" \in Names /\ \A t \in Texts : NamesIn(t) \in Seq(Names)
  BY RouterAssumption, NamesAppend DEF Texts
<1>2. IsPrefix(p, uri) \/ Append(uri, "/") = p
  BY PrefixIsDirectory DEF PrefixMatches
<1>3. CASE IsPrefix(p, uri)
  <2> DEFINE rest == SubSeq(uri, Len(p) + 1, Len(uri))
             start == Append(alias, "/")
  <2>1. rest \in Texts /\ uri = p \o rest
    BY <1>3, WhatFollows DEF Texts
  <2>2. start \in Texts /\ NamesIn(start) = NamesIn(alias) /\ start = alias \o <<"/">>
    BY <1>1, TextsGrow, NamesAppend, AppendIsConcat DEF Texts
  <2>3. resolveWithAlias(loc, uri) = normalizePath(start \o rest)
    BY <1>3, <2>2 DEF resolveWithAlias
  <2> HIDE DEF rest, start
  <2>4. /\ NamesIn(uri) = NamesIn(p) \o NamesIn(rest)
        /\ NamesIn(normalizePath(start \o rest)) = NamesIn(alias) \o NamesIn(rest)
    <3>1. NamesIn(p \o rest) = NamesIn(p) \o NamesIn(rest)
      BY <2>1, NamesJoined
    <3>2. start \o rest \in Texts /\ NamesIn(start \o rest) = NamesIn(start) \o NamesIn(rest)
      BY <2>1, <2>2, NamesJoined
    <3>3. NamesIn(normalizePath(start \o rest)) = NamesIn(start \o rest)
      BY <3>2, NamesNormalized
    <3> QED
      BY <2>1, <2>2, <3>1, <3>2, <3>3, Zenon
  <2>5. SubSeq(NamesIn(uri), Len(NamesIn(p)) + 1, Len(NamesIn(uri))) = NamesIn(rest)
    <3> DEFINE a == NamesIn(p)
               b == NamesIn(rest)
    <3>1. a \in Seq(Names) /\ b \in Seq(Names) /\ NamesIn(uri) = a \o b
      BY <1>1, <2>1, <2>4
    <3> HIDE DEF a, b
    <3>2. SubSeq(a \o b, Len(a) + 1, Len(a \o b)) = b
      BY <3>1, WhatFollows
    <3> QED
      BY <3>1, <3>2, Zenon DEF a, b
  <2> QED
    BY <2>3, <2>4, <2>5, Zenon
<1>4. CASE ~IsPrefix(p, uri)
  <2>1. Append(uri, "/") = p
    BY <1>2, <1>4
  <2>2. NamesIn(p) = NamesIn(uri)
    BY <1>1, <2>1, NamesAppend
  <2>3. NamesIn(resolveWithAlias(loc, uri)) = NamesIn(alias)
    <3>1. resolveWithAlias(loc, uri) = normalizePath(alias)
      BY <1>4, <2>1 DEF resolveWithAlias
    <3> QED
      BY <3>1, NamesNormalized
  <2> DEFINE a == NamesIn(uri)
  <2>4. a \in Seq(Names) /\ NamesIn(alias) \in Seq(Names)
    BY <1>1
  <2> HIDE DEF a
  <2>5. SubSeq(a, Len(a) + 1, Len(a)) = <<>>
    <3>1. Len(a) + 1 \in Int /\ Len(a) \in Int /\ Len(a) < Len(a) + 1
      BY <2>4
    <3> QED
      BY <3>1, SubSeqEmpty
  <2>6. NamesIn(alias) \o <<>> = NamesIn(alias)
    BY <2>4, ConcatEmptySeq
  <2> QED
    BY <2>2, <2>3, <2>5, <2>6, Zenon DEF a
<1> QED
  BY <1>3, <1>4

\* RequestRouter, PathResolver: for every configuration and request, the file of
\* a path that the router sent to a prefix location with an alias is the alias
\* and what follows the location's own directory in the path: neither of the two
\* comparisons, each with its treatment of a slash at the end, refuses or cuts
\* what the other one takes.
THEOREM AliasCorrect == Spec => []AliasReplacesLocation
<1>1. Init => LocationFits
  BY DEF Init, LocationFits
<1>2. TypeOK /\ LocationsInv /\ LocationFits /\ [Next]_vars => LocationFits'
  BY FitsStep
<1>3. TypeOK /\ LocationFits => AliasReplacesLocation
  <2> DEFINE loc == Locations[location]
             uri == request.path
  <2> SUFFICES ASSUME TypeOK, LocationFits, pc = "dispatch", location # 0,
                      loc.type = "prefix", loc.alias # None, Uri(loc) = uri
               PROVE  NamesIn(FilePath) =
                        NamesIn(loc.alias) \o
                        SubSeq(NamesIn(uri), Len(NamesIn(loc.path)) + 1, Len(NamesIn(uri)))
    BY Zenon DEF AliasReplacesLocation
  <2>1. location \in DOMAIN Locations /\ Matches(location)
    BY DEF LocationFits
  <2>2. Locations \in Seq(LocationType) /\ uri \in Texts
    BY ConfigTypes DEF TypeOK, RequestType
  <2>3. loc \in LocationType
    BY <2>1, <2>2
  <2>4. loc.path \in Texts \ {<<>>} /\ loc.alias \in Texts
    BY <2>3 DEF LocationType
  <2>5. IsIn(loc.path, uri)
    BY <2>1 DEF Matches
  <2>6. FilePath = resolveWithAlias(loc, uri)
    BY DEF FilePath, resolvePath
  <2> HIDE DEF loc, uri
  <2> QED
    BY <2>2, <2>4, <2>5, <2>6, AliasIs
<1> QED
  BY <1>1, <1>2, <1>3, TypeCorrect, LocationsInvariant, PTL DEF Spec
=============================================================================
