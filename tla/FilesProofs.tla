---------------------------- MODULE FilesProofs ----------------------------
(***************************************************************************)
(* Proofs about Files: what GET, POST and DELETE promise although other    *)
(* processes change the tree between any two of their system calls.        *)
(***************************************************************************)
EXTENDS Files, LeastNaturals, SequenceTheorems, TLAPS

Trees == [Paths -> Nodes]

-----------------------------------------------------------------------------
(***************************************************************************)
(* Paths and trees                                                         *)
(***************************************************************************)
\* A path is the path of its directory and its name.
LEMMA PathParts ==
    ASSUME NEW S, NEW path \in Seq(S), NEW name \in S
    PROVE  /\ Append(path, name) \in Seq(S) /\ Append(path, name) # <<>>
           /\ Parent(Append(path, name)) = path /\ Name(Append(path, name)) = name
           /\ Append(path, name) # path
<1> DEFINE p == Append(path, name)
           n == Len(path)
<1>1. /\ p \in Seq(S) /\ p # <<>> /\ Len(p) = n + 1 /\ n \in Nat
      /\ \A k \in 1..n : p[k] = path[k]
      /\ p[n + 1] = name
  BY AppendProperties, LenProperties
<1>2. SubSeq(p, 1, Len(p) - 1) = path
  <2> DEFINE q == SubSeq(p, 1, n)
  <2>1. \A k \in 1..n : p[k] \in S
    BY <1>1, ElementOfSeq
  <2>2. 1 \in Int /\ n \in Int
    BY <1>1
  <2>3. /\ q \in Seq(S) /\ Len(q) = IF 1 <= n THEN n - 1 + 1 ELSE 0
        /\ \A k \in 1..(n - 1 + 1) : q[k] = p[1 + k - 1]
    BY <2>1, <2>2, SubSeqProperties
  <2> HIDE DEF q, p, n
  <2>4. Len(q) = n
    BY <1>1, <2>3
  <2>5. \A k \in 1..n : q[k] = path[k]
    BY <1>1, <2>3
  <2>6. q = path
    BY <2>3, <2>4, <2>5, SeqEqual DEF n
  <2> QED
    BY <1>1, <2>6 DEF q
<1> HIDE DEF p, n
<1>3. Len(p) # n
  BY <1>1
<1>4. p # path /\ p[Len(p)] = name
  BY <1>1, <1>3 DEF n
<1> QED
  BY <1>1, <1>2, <1>4 DEF Parent, Name, p

\* A path that is not the root is in its directory.
LEMMA PathOf ==
    ASSUME NEW path \in Paths \ {<<>>}
    PROVE  /\ path = Append(Parent(path), Name(path)) /\ Name(path) \in STRING
           /\ Parent(path) \in Paths /\ Parent(path) \in Seq(STRING) /\ Parent(path) # path
<1> DEFINE n == Len(path)
           q == Parent(path)
<1>1. path \in Seq(STRING) /\ q \in Paths /\ q \in Seq(STRING) /\ n \in Nat \ {0}
  BY PathsAssumption, EmptySeq
<1>2. \A k \in 1..n : path[k] \in STRING
  BY <1>1, ElementOfSeq
<1>3. q = SubSeq(path, 1, n - 1) /\ Name(path) = path[n]
  BY DEF Parent, Name
<1>4. /\ Len(q) = IF 1 <= n - 1 THEN n - 1 - 1 + 1 ELSE 0
      /\ \A k \in 1..(n - 1 - 1 + 1) : q[k] = path[1 + k - 1]
  <2>1. 1 \in Int /\ n - 1 \in Int /\ \A k \in 1..(n - 1) : path[k] \in STRING
    BY <1>1, <1>2
  <2> QED
    BY <1>3, <2>1, SubSeqProperties
<1> HIDE DEF q, n
<1>5. Len(q) = n - 1 /\ \A k \in 1..(n - 1) : q[k] = path[k]
  BY <1>1, <1>4
<1>6. n \in 1..n /\ path[n] \in STRING
  BY <1>1, <1>2
<1> DEFINE p == Append(q, path[n])
<1>7. /\ p \in Seq(STRING) /\ Len(p) = n /\ \A k \in 1..(n - 1) : p[k] = q[k]
      /\ p[n] = path[n] /\ p # q
  <2>1. /\ p \in Seq(STRING) /\ Len(p) = Len(q) + 1 /\ \A k \in 1..Len(q) : p[k] = q[k]
        /\ p[Len(q) + 1] = path[n]
    BY <1>1, <1>6, AppendProperties
  <2> HIDE DEF p
  <2> QED
    BY <1>1, <1>5, <2>1
<1> HIDE DEF p
<1>8. \A k \in 1..n : p[k] = path[k]
  <2>1. 1..n = 1..(n - 1) \cup {n}
    BY <1>1
  <2> QED
    BY <1>5, <1>7, <2>1
<1>9. p = path
  BY <1>1, <1>7, <1>8, SeqEqual DEF n
<1> QED
  BY <1>1, <1>3, <1>6, <1>7, <1>9 DEF p, q

\* A path that exists is one of the tree's.
LEMMA NodeIs ==
    ASSUME NEW t \in Trees, NEW path
    PROVE  /\ Exists(t, path) => path \in Paths
           /\ IsFile(t, path) => Exists(t, path) /\ ~IsDirectory(t, path)
           /\ IsDirectory(t, path) => Exists(t, path)
           /\ Exists(t, path) => IsFile(t, path) \/ IsDirectory(t, path)
           /\ Node(t, path) \in Nodes
<1>1. Nothing \in Nodes /\ Nothing.kind = "none"
  BY EmptySeq DEF Nothing, Nodes
<1>2. path \in Paths => t[path] \in Nodes
  BY DEF Trees
<1>3. Node(t, path) \in Nodes
  BY <1>1, <1>2 DEF Node
<1>4. Node(t, path).kind \in {"none", "directory", "file"}
  BY <1>3 DEF Nodes
<1> QED
  BY <1>1, <1>3, <1>4 DEF Exists, IsFile, IsDirectory, Node

\* The changes of a tree that system calls make.
TreeStep(t, path, node) ==
    \/ Vacant(t, path) /\ node.kind \in {"directory", "file"}
    \/ Removable(t, path) /\ node = Nothing
    \/ IsFile(t, path) /\ node.kind = "file"

\* They change what one path names, and no other.
LEMMA WithIs ==
    ASSUME NEW t \in Trees, NEW path \in Paths, NEW node \in Nodes
    PROVE  /\ With(t, path, node) \in Trees
           /\ Node(With(t, path, node), path) = node
           /\ \A other : other # path => Node(With(t, path, node), other) = Node(t, other)
BY DEF Trees, With, Node

\* A tree stays one.
LEMMA StepWellFormed ==
    ASSUME NEW t \in Trees, WellFormed(t), NEW path, NEW node \in Nodes, TreeStep(t, path, node)
    PROVE  path \in Paths \ {<<>>} /\ With(t, path, node) \in Trees /\ WellFormed(With(t, path, node))
<1>1. path \in Paths \ {<<>>}
  BY NodeIs DEF TreeStep, Vacant, Removable, WellFormed
<1> DEFINE u == With(t, path, node)
<1>2. /\ u \in Trees /\ Node(u, path) = node
      /\ \A other : other # path => Node(u, other) = Node(t, other)
  BY <1>1, WithIs
<1> HIDE DEF u
<1>3. \A other : other # path => /\ Exists(u, other) = Exists(t, other)
                                 /\ IsDirectory(u, other) = IsDirectory(t, other)
  BY <1>2 DEF Exists, IsDirectory
<1>4. ASSUME NEW p \in Paths \ {<<>>}, Exists(u, p) PROVE IsDirectory(u, Parent(p))
  <2>1. Parent(p) # p /\ Parent(p) \in Paths
    BY PathOf
  <2>2. CASE p = path
    <3>1. IsDirectory(t, Parent(path))
      <4>1. node # Nothing
        BY <1>2, <1>4, <2>2 DEF Exists, Nothing
      <4>2. CASE Vacant(t, path)
        BY <4>2 DEF Vacant
      <4>3. CASE IsFile(t, path)
        BY <1>1, <4>3, NodeIs DEF WellFormed
      <4> QED
        BY <4>1, <4>2, <4>3 DEF TreeStep
    <3> QED
      BY <1>3, <2>1, <2>2, <3>1
  <2>3. CASE p # path
    <3>1. Exists(t, p) /\ IsDirectory(t, Parent(p))
      BY <1>3, <1>4, <2>3 DEF WellFormed
    <3>2. CASE Parent(p) = path
      <4>1. ~Vacant(t, path) /\ ~IsFile(t, path)
        BY <3>1, <3>2, NodeIs DEF Vacant
      <4>2. p \in Children(t, path)
        BY <3>1, <3>2 DEF Children
      <4> QED
        BY <4>1, <4>2 DEF TreeStep, Removable
    <3>3. CASE Parent(p) # path
      BY <1>3, <3>1, <3>3
    <3> QED
      BY <3>2, <3>3
  <2> QED
    BY <2>2, <2>3
<1>5. WellFormed(u)
  BY <1>1, <1>3, <1>4 DEF WellFormed
<1> QED
  BY <1>1, <1>2, <1>5 DEF u

-----------------------------------------------------------------------------
(***************************************************************************)
(* Texts                                                                   *)
(***************************************************************************)
\* What is found has a place.
LEMMA FindIs ==
    ASSUME NEW text \in Seq(STRING), NEW S, NEW pattern \in Seq(S), NEW from \in Nat
    PROVE  /\ Places(text, pattern, from) \subseteq Nat
           /\ find(text, pattern, from) \in Nat \cup {npos}
<1> DEFINE places == Places(text, pattern, from)
<1>1. places \subseteq Nat
  <2>1. Len(text) \in Nat /\ Len(pattern) \in Nat
    BY LenProperties
  <2>2. from..(Len(text) - Len(pattern)) \subseteq Nat
    BY <2>1
  <2> QED
    BY <2>2 DEF Places
<1> HIDE DEF places
<1>2. places # {} => \E k \in places : \A m \in places : k <= m
  BY <1>1, LeastNatural
<1>3. find(text, pattern, from) = IF places = {} THEN npos ELSE CHOOSE k \in places : \A m \in places : k <= m
  BY DEF find, places
<1> QED
  BY <1>1, <1>2, <1>3 DEF places

\* A part of a text is a text.
LEMMA SubstrIs ==
    ASSUME NEW text \in Seq(STRING), NEW from \in Nat, NEW length \in Int
    PROVE  substr(text, from, length) \in Seq(STRING)
<1> DEFINE m == from + 1
           n == IF from + length > Len(text) THEN Len(text) ELSE from + length
<1>1. Len(text) \in Nat /\ m \in Int /\ n \in Int /\ m >= 1 /\ n <= Len(text)
  BY LenProperties
<1>2. substr(text, from, length) = SubSeq(text, m, n)
  BY DEF substr
<1> HIDE DEF m, n
<1>3. \A k \in m..n : text[k] \in STRING
  BY <1>1, ElementOfSeq
<1> QED
  BY <1>1, <1>2, <1>3, SubSeqProperties

\* What is taken out of a multipart body is a text, and so is its name.
LEMMA ParsedIs ==
    ASSUME NEW body \in Seq(STRING), NEW filename \in STRING
    PROVE  parse(body, filename).content \in Seq(STRING) /\ parse(body, filename).filename \in STRING
<1> DEFINE places == Places(body, <<dashBoundary>>, 0)
           starts == {p \in places : IsFilePart(body, filename, p)}
           first == CHOOSE p \in starts : \A q \in starts : p <= q
           part == PartAt(body, first)
           headerEndPos == find(part, BlankLine, 0)
           Symbols == {"r", "n", dashBoundary}
<1>1. <<dashBoundary>> \in Seq(Symbols) /\ BlankLine \in Seq(Symbols) /\ Len(BlankLine) = 4
  <2>1. <<dashBoundary>> \in Seq(Symbols) /\ CRLF \in Seq(Symbols) /\ Len(CRLF) = 2
    BY DEF dashBoundary, CRLF
  <2> HIDE DEF dashBoundary
  <2>2. BlankLine \in Seq(Symbols) /\ Len(BlankLine) = Len(CRLF) + Len(CRLF)
    BY <2>1, ConcatProperties DEF BlankLine
  <2> QED
    BY <2>1, <2>2
<1>2. starts \subseteq Nat
  <2>1. places \subseteq Nat
    BY <1>1, FindIs
  <2> QED
    BY <2>1
<1>3. CASE starts = {}
  <2>1. parse(body, filename) = NoFile
    BY <1>3 DEF parse
  <2> QED
    <3>1. NoFile.content = <<>> /\ NoFile.filename = ""
      BY DEF NoFile
    <3>2. <<>> \in Seq(STRING) /\ "" \in STRING
      BY EmptySeq, StringsAssumption
    <3> QED
      BY <2>1, <3>1, <3>2, Zenon
<1>4. CASE starts # {}
  <2> HIDE DEF starts
  <2>1. first \in Nat
    <3>1. \E p \in starts : \A q \in starts : p <= q
      BY <1>2, <1>4, LeastNatural
    <3>2. first \in starts
      BY <3>1
    <3> QED
      BY <1>2, <3>2
  <2> HIDE DEF first
  <2>2. part \in Seq(STRING)
    <3> DEFINE next == find(body, <<dashBoundary>>, first + 1)
    <3>1. first + 1 \in Nat
      BY <2>1
    <3>2. next \in Nat \cup {npos}
      BY <1>1, <3>1, FindIs
    <3>3. next - first \in Int
      BY <2>1, <3>2 DEF npos
    <3> QED
      BY <2>1, <3>3, SubstrIs DEF PartAt
  <2>3. headerEndPos \in Nat \cup {npos}
    BY <1>1, <2>2, FindIs
  <2> HIDE DEF part, headerEndPos
  <2>4. PartContent(part, headerEndPos) \in Seq(STRING)
    <3> DEFINE contentStart == headerEndPos + Len(BlankLine)
               length == IF Len(part) > contentStart + 2 THEN Len(part) - contentStart - 2 ELSE 0
    <3>1. contentStart \in Nat
      BY <1>1, <2>3 DEF npos
    <3>2. length \in Int
      BY <2>2, <3>1, LenProperties
    <3>3. PartContent(part, headerEndPos) = substr(part, contentStart, length)
      BY DEF PartContent
    <3> HIDE DEF contentStart, length
    <3> QED
      BY <2>2, <3>1, <3>2, <3>3, SubstrIs
  <2>5. parse(body, filename) = [isValid |-> TRUE, filename |-> filename,
                                 content |-> PartContent(part, headerEndPos)]
    BY <1>4 DEF parse, headerEndPos, part, first, starts
  <2> QED
    BY <2>4, <2>5
<1> QED
  BY <1>3, <1>4

\* Writing makes a text of a text.
LEMMA WrittenIs ==
    ASSUME NEW data \in Seq(STRING), NEW position \in Nat, NEW symbol \in STRING
    PROVE  Written(data, position, <<symbol>>) \in Seq(STRING)
<1> DEFINE n == IF position + 1 > Len(data) THEN position + 1 ELSE Len(data)
           w == Written(data, position, <<symbol>>)
<1>1. Len(data) \in Nat /\ n \in Nat
  BY LenProperties
<1>2. w = [k \in 1..n |-> IF k \in (position + 1)..(position + 1) THEN <<symbol>>[k - position]
                          ELSE IF k <= Len(data) THEN data[k] ELSE "zero"]
  BY DEF Written
<1> HIDE DEF n
<1>3. ASSUME NEW k \in 1..n PROVE w[k] \in STRING
  <2>1. CASE k \in (position + 1)..(position + 1)
    <3>1. k - position = 1
      BY <2>1
    <3> QED
      BY <1>2, <2>1, <3>1
  <2>2. CASE k \notin (position + 1)..(position + 1) /\ k <= Len(data)
    <3>1. k \in 1..Len(data)
      BY <1>1, <2>2
    <3>2. data[k] \in STRING
      BY <3>1, ElementOfSeq
    <3> QED
      BY <1>2, <2>2, <3>2
  <2>3. CASE k \notin (position + 1)..(position + 1) /\ ~(k <= Len(data))
    <3>1. w[k] = "zero"
      BY <1>2, <2>3
    <3>2. "zero" \in STRING
      BY StringsAssumption
    <3> QED
      BY <3>1, <3>2, Zenon
  <2> QED
    BY <2>1, <2>2, <2>3
<1>4. w \in [1..n -> STRING]
  BY <1>2, <1>3
<1> DEFINE S == STRING
<1>5. w \in [1..n -> S]
  BY <1>4
<1> HIDE DEF S, w
<1>6. w \in Seq(S)
  BY <1>1, <1>5, SeqDef
<1> QED
  BY <1>6 DEF S, w

\* The beginning of a text.
Begun(text, n) == SubSeq(text, 1, n)

\* It has its length and its symbols, none of a text at 0 and all of it at the end.
LEMMA BegunIs ==
    ASSUME NEW text \in Seq(STRING), NEW n \in 0..Len(text)
    PROVE  /\ Begun(text, n) \in Seq(STRING) /\ Len(Begun(text, n)) = n
           /\ \A k \in 1..n : Begun(text, n)[k] = text[k]
           /\ n = Len(text) => Begun(text, n) = text
           /\ n = 0 => Begun(text, n) = <<>>
<1>1. Len(text) \in Nat /\ n \in Nat /\ 1 \in Int /\ n \in Int
  BY LenProperties
<1>2. \A k \in 1..n : text[k] \in STRING
  BY <1>1, ElementOfSeq
<1>3. /\ Begun(text, n) \in Seq(STRING) /\ Len(Begun(text, n)) = IF 1 <= n THEN n - 1 + 1 ELSE 0
      /\ \A k \in 1..(n - 1 + 1) : Begun(text, n)[k] = text[1 + k - 1]
  BY <1>1, <1>2, SubSeqProperties DEF Begun
<1>4. Len(Begun(text, n)) = n /\ \A k \in 1..n : Begun(text, n)[k] = text[k]
  BY <1>1, <1>3
<1>5. n = Len(text) => Begun(text, n) = text
  BY <1>3, <1>4, SeqEqual
<1>6. n = 0 => Begun(text, n) = <<>>
  BY <1>3, <1>4, EmptySeq
<1> QED
  BY <1>3, <1>4, <1>5, <1>6

\* The next symbol written behind the beginning of a text.
LEMMA WrittenNext ==
    ASSUME NEW text \in Seq(STRING), NEW n \in 0..(Len(text) - 1)
    PROVE  Written(Begun(text, n), n, <<text[n + 1]>>) = Begun(text, n + 1)
<1> DEFINE w == Written(Begun(text, n), n, <<text[n + 1]>>)
           b == Begun(text, n + 1)
<1>1. Len(text) \in Nat /\ n \in Nat /\ n \in 0..Len(text) /\ n + 1 \in 0..Len(text) /\ n + 1 \in 1..Len(text)
  BY LenProperties
<1>2. /\ Begun(text, n) \in Seq(STRING) /\ Len(Begun(text, n)) = n
      /\ \A k \in 1..n : Begun(text, n)[k] = text[k]
  BY <1>1, BegunIs
<1>3. b \in Seq(STRING) /\ Len(b) = n + 1 /\ \A k \in 1..(n + 1) : b[k] = text[k]
  BY <1>1, BegunIs
<1>4. w = [k \in 1..(n + 1) |-> IF k \in (n + 1)..(n + 1) THEN <<text[n + 1]>>[k - n]
                                ELSE IF k <= n THEN Begun(text, n)[k] ELSE "zero"]
  <2>1. (IF n + 1 > n THEN n + 1 ELSE n) = n + 1
    BY <1>1
  <2> QED
    BY <1>2, <2>1 DEF Written
<1>5. ASSUME NEW k \in 1..(n + 1) PROVE w[k] = text[k]
  <2>1. CASE k = n + 1
    <3>1. k - n = 1 /\ k \in (n + 1)..(n + 1)
      BY <1>1, <2>1
    <3> QED
      BY <1>4, <2>1, <3>1
  <2>2. CASE k # n + 1
    <3>1. k <= n /\ k \notin (n + 1)..(n + 1) /\ k \in 1..n
      BY <1>1, <2>2
    <3> QED
      BY <1>2, <1>4, <3>1
  <2> QED
    BY <2>1, <2>2
<1> HIDE DEF w, b
<1>6. w = [k \in 1..(n + 1) |-> text[k]]
  BY <1>4, <1>5
<1>7. DOMAIN b = 1..(n + 1) /\ b = [k \in DOMAIN b |-> b[k]]
  BY <1>3, LenProperties
<1>8. b = [k \in 1..(n + 1) |-> text[k]]
  BY <1>3, <1>7
<1> QED
  BY <1>6, <1>8 DEF w, b

-----------------------------------------------------------------------------
(***************************************************************************)
(* Where a handler is, and what its locals are there.                      *)
(***************************************************************************)
Steps ==
    {"idle", "exists", "kind", "index", "indexKind", "open", "read", "opendir", "readdir",
     "remove", "prepare", "directory", "mkdir", "create", "write", "close"}
Storing == {"directory", "mkdir", "create", "write", "close"}
Open == {"read", "readdir", "write", "close"}

StepInv ==
    /\ pc \in Steps
    /\ pc \in {"exists", "kind"} => request.method \in {"GET", "DELETE"}
    /\ pc \in {"index", "indexKind", "opendir", "readdir"} => request.method = "GET" /\ request.slash
    /\ pc \in {"open", "read"} => request.method = "GET"
    /\ pc = "remove" => request.method = "DELETE"
    /\ pc \in {"prepare"} \cup Storing => request.method = "POST"

LocalsInv ==
    /\ pc \in {"idle", "exists", "kind", "remove", "open", "prepare", "directory", "mkdir", "create"} => done = 0
    /\ pc \in {"index", "indexKind"} => done \in 1..(Len(IndexFiles) + 1)
    /\ pc = "indexKind" => done <= Len(IndexFiles)
    /\ pc \notin Storing \cup {"read"} => content = <<>>
    /\ pc # "readdir" => entries = {} /\ read = {}
    /\ pc \in Storing => /\ content = TextOf(request) /\ content # <<>>
                         /\ filePath # <<>> /\ Parent(filePath) # filePath
    /\ pc = "write" => done <= Len(content)
    /\ pc = "close" => done + 1 = Len(content)

IsHandle(h) ==
    /\ h = [open |-> h.open, at |-> h.at, own |-> h.own, names |-> h.names, gone |-> h.gone]
    /\ h.open \in BOOLEAN /\ h.at \in Paths \cup {NoPath} /\ h.own \in Seq(STRING)

HandleInv ==
    /\ IsHandle(handle)
    /\ pc \notin Open => handle = Closed
    /\ pc \in Open => handle.open
    /\ pc \in {"read", "write", "close"} /\ handle.at # NoPath => handle.at = filePath /\ IsFile(tree, filePath)
    /\ pc = "readdir" /\ handle.at # NoPath => handle.at = request.path

IsWitness(w) ==
    w = [answers |-> w.answers, shown |-> w.shown, throughout |-> w.throughout,
         touched |-> w.touched, changes |-> w.changes, inPlace |-> w.inPlace,
         failed |-> w.failed, before |-> w.before]

FilesInv == TypeOK /\ StepInv /\ LocalsInv /\ HandleInv /\ IsWitness(witness)

\* A call that failed is noted.
LEMMA FailedIs ==
    ASSUME NEW w, IsWitness(w), NEW call
    PROVE  [w EXCEPT !.failed = call] =
             [answers |-> w.answers, shown |-> w.shown, throughout |-> w.throughout,
              touched |-> w.touched, changes |-> w.changes, inPlace |-> w.inPlace,
              failed |-> call, before |-> w.before]
BY DEF IsWitness

\* What a path was before is noted.
LEMMA BeforeIs ==
    ASSUME NEW w, IsWitness(w), NEW node
    PROVE  [w EXCEPT !.before = node] =
             [answers |-> w.answers, shown |-> w.shown, throughout |-> w.throughout,
              touched |-> w.touched, changes |-> w.changes, inPlace |-> w.inPlace,
              failed |-> w.failed, before |-> node]
BY DEF IsWitness

\* So is a change by another process.
LEMMA SeenIs ==
    ASSUME IsWitness(witness), NEW t, NEW path, NEW inPlace
    PROVE  Seen(t, path, inPlace) =
             [answers |-> witness.answers \cup TrueAnswers(t, request),
              shown |-> witness.shown \cup EntriesOf(t, request.path),
              throughout |-> {name \in witness.throughout : inPlace \/ Append(request.path, name) # path},
              touched |-> witness.touched \cup {path}, changes |-> witness.changes + 1,
              inPlace |-> witness.inPlace \/ inPlace, failed |-> witness.failed,
              before |-> witness.before]
<1> DEFINE a == witness.answers \cup TrueAnswers(t, request)
           s == witness.shown \cup EntriesOf(t, request.path)
           h == {name \in witness.throughout : inPlace \/ Append(request.path, name) # path}
           p == witness.inPlace \/ inPlace
<1>1. Seen(t, path, inPlace) =
        [witness EXCEPT !.answers = a, !.shown = s, !.throughout = h,
                        !.touched = witness.touched \cup {path}, !.changes = witness.changes + 1,
                        !.inPlace = p]
  BY DEF Seen
<1> HIDE DEF a, s, h, p
<1> QED
  BY <1>1 DEF IsWitness, a, s, h, p

\* Requests have a path.
LEMMA RequestIs ==
    ASSUME NEW r \in RequestType
    PROVE  /\ r.method \in {"GET", "POST", "DELETE"}
           /\ r.path \in Paths \cup {NoPath} /\ r.path \in Seq(STRING)
           /\ r.method = "POST" => /\ r.body \in Seq(STRING) /\ r.multipart \in BOOLEAN
                                   /\ r.filename \in STRING /\ TextOf(r) \in Seq(STRING)
<1>1. NoPath \in Seq(STRING)
  <2>1. "" \in STRING
    BY StringsAssumption
  <2> DEFINE x == ""
             S == STRING
  <2>2. x \in S
    BY <2>1
  <2> HIDE DEF x, S
  <2>3. <<x>> \in Seq(S)
    BY <2>2
  <2> QED
    BY <2>3 DEF NoPath, x, S
<1>2. r.path \in Paths \cup {NoPath} /\ r.method \in {"GET", "POST", "DELETE"}
  BY DEF RequestType
<1>3. r.path \in Seq(STRING)
  BY <1>1, <1>2, PathsAssumption
<1>4. ASSUME r.method = "POST"
      PROVE  r.body \in Seq(STRING) /\ r.multipart \in BOOLEAN /\ r.filename \in STRING
  BY <1>4 DEF RequestType
<1>5. r.method = "POST" => TextOf(r) \in Seq(STRING)
  BY <1>4, ParsedIs DEF TextOf
<1> QED
  BY <1>2, <1>3, <1>4, <1>5

\* A handler that returns leaves nothing open.
LEMMA AnswerBase ==
    ASSUME FilesInv, NEW a, Answer(a), tree' \in Trees, WellFormed(tree)', IsWitness(witness)'
    PROVE  FilesInv'
<1>1. Closed.open = FALSE /\ IsHandle(Closed)
  BY EmptySeq DEF Closed, IsHandle
<1>2. <<>> \in Seq(STRING)
  BY EmptySeq
<1>3. /\ pc' = "idle" /\ handle' = Closed /\ content' = <<>> /\ done' = 0
      /\ entries' = {} /\ read' = {} /\ UNCHANGED <<request, filePath, served, changed>>
  BY DEF Answer, HandleLeft
<1>4. TypeOK'
  BY <1>2, <1>3 DEF FilesInv, TypeOK, Trees
<1>5. StepInv' /\ LocalsInv' /\ HandleInv'
  BY <1>1, <1>3 DEF StepInv, LocalsInv, HandleInv, Steps, Storing, Open, IsHandle
<1> QED
  BY <1>4, <1>5 DEF FilesInv

\* The same of an answer that changes nothing, or only notes a call that failed.
LEMMA ConcludeBase == ASSUME FilesInv, NEW a, Conclude(a) PROVE FilesInv'
<1>1. Answer(a) /\ UNCHANGED <<tree, witness>>
  BY DEF Conclude
<1> QED
  BY <1>1, AnswerBase DEF FilesInv, TypeOK, Trees, WellFormed, IsDirectory, Exists, Node, IsWitness

\* A system call that fails is noted, and the request is answered.
LEMMA FailBase == ASSUME FilesInv, NEW call, NEW a, FailWith(call, a) PROVE FilesInv'
<1>1. Answer(a) /\ tree' = tree /\ witness' = [witness EXCEPT !.failed = call]
  BY DEF FailWith
<1>2. IsWitness(witness')
  BY <1>1, FailedIs DEF FilesInv, IsWitness
<1>3. tree' \in Trees /\ WellFormed(tree')
  BY <1>1 DEF FilesInv, TypeOK, Trees
<1> QED
  BY <1>1, <1>2, <1>3, AnswerBase DEF WellFormed, IsDirectory, Exists, Node, IsWitness

\* A request comes in.
LEMMA AcceptBase == ASSUME FilesInv, NEW r \in RequestType, Accept(r) PROVE FilesInv'
<1>1. /\ pc = "idle" /\ served < MaxRequests /\ request' = r /\ served' = served + 1
      /\ pc' = IF r.method = "POST" THEN "prepare" ELSE "exists"
      /\ witness' = WitnessFrom(tree, r) /\ filePath' = r.path
      /\ UNCHANGED <<tree, handle, content, done, entries, read, changed, kept>>
  BY DEF Accept
<1>2. r.path \in Seq(STRING) /\ r.method \in {"GET", "POST", "DELETE"}
  BY RequestIs
<1>3. TypeOK'
  <2>1. served' \in 0..MaxRequests
    BY <1>1, FilesAssumption DEF FilesInv, TypeOK
  <2> HIDE DEF RequestType
  <2> QED
    BY <1>1, <1>2, <2>1 DEF FilesInv, TypeOK, WellFormed, IsDirectory, Exists, Node
<1>4. StepInv'
  BY <1>1, <1>2 DEF StepInv, Steps, Storing
<1>5. LocalsInv' /\ HandleInv'
  BY <1>1 DEF FilesInv, LocalsInv, HandleInv, Storing, Open, IsHandle
<1>6. IsWitness(witness)'
  BY <1>1 DEF WitnessFrom, IsWitness
<1> QED
  BY <1>3, <1>4, <1>5, <1>6 DEF FilesInv

\* The steps that only look.
LEMMA LookBase ==
    ASSUME FilesInv, Found \/ KindIsOther \/ IndexExists
    PROVE  FilesInv'
<1>1. UNCHANGED <<tree, local, witness, kept, request, answer, served, changed>>
  BY DEF Found, KindIsOther, IndexExists, Go
<1>2. TypeOK' /\ IsWitness(witness)'
  <2>1. pc' # "idle"
    BY DEF Found, KindIsOther, IndexExists, Go
  <2> HIDE DEF RequestType
  <2> QED
    BY <1>1, <2>1 DEF FilesInv, TypeOK, local, WellFormed, IsDirectory, Exists, Node, IsWitness
<1>3. StepInv'
  BY <1>1 DEF FilesInv, StepInv, Steps, Storing, Found, KindIsOther, IndexExists, Go
<1>4. LocalsInv'
  BY <1>1 DEF FilesInv, LocalsInv, Storing, Found, KindIsOther, IndexExists, Go, local
<1>5. HandleInv'
  BY <1>1 DEF FilesInv, HandleInv, Open, IsHandle, Found, KindIsOther, IndexExists, Go, local
<1> QED
  BY <1>2, <1>3, <1>4, <1>5 DEF FilesInv

\* The search for an index file.
LEMMA IndexBase ==
    ASSUME FilesInv,
           \/ pc = "kind" /\ request.method = "GET" /\ request.slash /\ Go("index") /\ done' = 1
              /\ UNCHANGED <<tree, filePath, handle, content, entries, read, witness, kept>>
           \/ NextIndex \/ IndexFound
           \/ NoIndex /\ Go("opendir") /\ UNCHANGED <<tree, local, witness, kept>>
    PROVE  FilesInv'
<1>0. Len(IndexFiles) \in Nat
  BY FilesAssumption, LenProperties
<1>1. /\ UNCHANGED <<tree, handle, content, entries, read, witness, kept, request, answer, served, changed>>
      /\ pc \in {"kind", "index", "indexKind"} /\ pc' \in {"index", "open", "opendir"}
      /\ pc # "kind" => request.method = "GET" /\ request.slash
      /\ pc = "kind" => request.method = "GET" /\ request.slash
      /\ pc' = "index" => done' \in 1..(Len(IndexFiles) + 1)
      /\ pc' = "open" => done' = 0
      /\ done' \in Nat /\ filePath' \in {filePath, Index}
  BY <1>0 DEF FilesInv, TypeOK, StepInv, LocalsInv, NextIndex, IndexFound, NoIndex, Go, local
<1>2. filePath' \in Seq(STRING)
  <2>1. CASE filePath' = filePath
    BY <2>1 DEF FilesInv, TypeOK
  <2>2. CASE filePath' # filePath
    <3>1. IndexFound
      BY <2>2 DEF NextIndex, NoIndex, local
    <3>2. done \in 1..Len(IndexFiles)
      BY <1>0, <3>1 DEF FilesInv, LocalsInv, IndexFound
    <3>3. IndexFiles[done] \in STRING
      BY <3>2, FilesAssumption, ElementOfSeq
    <3>4. request.path \in Seq(STRING)
      BY RequestIs, PathsAssumption DEF FilesInv, TypeOK, NoRequest
    <3> QED
      BY <1>1, <2>2, <3>3, <3>4, AppendProperties, ZenonT(30) DEF Index, IndexPath
  <2> QED
    BY <2>1, <2>2
<1>3. TypeOK' /\ IsWitness(witness)'
  <2> HIDE DEF RequestType
  <2> QED
    BY <1>1, <1>2 DEF FilesInv, TypeOK, WellFormed, IsDirectory, Exists, Node, IsWitness
<1>4. StepInv' /\ LocalsInv' /\ HandleInv'
  BY <1>1 DEF FilesInv, StepInv, Steps, LocalsInv, Storing, HandleInv, Open, IsHandle
<1> QED
  BY <1>3, <1>4 DEF FilesInv

\* A stat that fails.
LEMMA NotSeenBase ==
    ASSUME FilesInv, KindNotSeen \/ IndexNotSeen \/ \E name \in Names : EntryNotSeen(name)
    PROVE  FilesInv'
<1>0. Len(IndexFiles) \in Nat
  BY FilesAssumption, LenProperties
<1>1. /\ UNCHANGED <<tree, handle, content, kept, request, answer, served, changed>>
      /\ pc = "kind" => pc' \in {"open", "remove"} /\ UNCHANGED <<filePath, done, entries, read>>
      /\ pc = "kind" => pc' = IF request.method = "GET" THEN "open" ELSE "remove"
      /\ pc = "index" => /\ pc' = "index" /\ done' = done + 1 /\ done <= Len(IndexFiles)
                         /\ UNCHANGED <<filePath, entries, read>>
      /\ pc = "indexKind" => pc' = "open" /\ filePath' = Index /\ done' = 0 /\ UNCHANGED <<entries, read>>
      /\ pc = "readdir" => pc' = "readdir" /\ UNCHANGED <<filePath, done, entries>>
      /\ pc \in {"kind", "index", "indexKind", "readdir"}
      /\ \E noted : witness' = [witness EXCEPT !.failed = noted]
  BY DEF KindNotSeen, IndexNotSeen, EntryNotSeen, StatFails, Go, local
<1>2. IsWitness(witness)'
  <2>1. PICK noted : witness' = [witness EXCEPT !.failed = noted]
    BY <1>1
  <2> QED
    BY <2>1, FailedIs DEF FilesInv, IsWitness
<1>3. filePath' \in Seq(STRING)
  <2>1. CASE pc # "indexKind"
    BY <1>1, <2>1 DEF FilesInv, TypeOK
  <2>2. CASE pc = "indexKind"
    <3>1. done \in 1..Len(IndexFiles)
      BY <1>0, <2>2 DEF FilesInv, LocalsInv
    <3>2. IndexFiles[done] \in STRING
      BY <3>1, FilesAssumption, ElementOfSeq
    <3>3. request.path \in Seq(STRING)
      BY RequestIs, PathsAssumption DEF FilesInv, TypeOK, NoRequest
    <3>4. filePath' = Append(request.path, IndexFiles[done])
      BY <1>1, <2>2 DEF Index, IndexPath
    <3> QED
      BY <3>2, <3>3, <3>4, AppendProperties
  <2> QED
    BY <2>1, <2>2
<1>4. done' \in Nat /\ (pc = "index" => done' \in 1..(Len(IndexFiles) + 1))
  BY <1>0, <1>1 DEF FilesInv, TypeOK, LocalsInv
<1>5. TypeOK'
  <2> HIDE DEF RequestType
  <2>1. pc' # "idle"
    BY <1>1
  <2> QED
    BY <1>1, <1>3, <1>4, <2>1 DEF FilesInv, TypeOK, WellFormed, IsDirectory, Exists, Node
<1>6. StepInv'
  BY <1>1 DEF FilesInv, StepInv, Steps, Storing
<1>7. LocalsInv' /\ HandleInv'
  BY <1>1, <1>4 DEF FilesInv, LocalsInv, Storing, HandleInv, Open, IsHandle
<1> QED
  BY <1>2, <1>5, <1>6, <1>7 DEF FilesInv

\* A handle, and what it is when some of it changes.
HasFields(h) ==
    h = [open |-> h.open, at |-> h.at, own |-> h.own, names |-> h.names, gone |-> h.gone]

\* It is opened.
LEMMA HandleAt ==
    ASSUME NEW h, HasFields(h), NEW open, NEW at
    PROVE  [h EXCEPT !.open = open, !.at = at] =
             [open |-> open, at |-> at, own |-> h.own, names |-> h.names, gone |-> h.gone]
<1> DEFINE g == [h EXCEPT !.open = open]
<1>1. g = [open |-> open, at |-> h.at, own |-> h.own, names |-> h.names, gone |-> h.gone]
  BY DEF HasFields
<1>2. [h EXCEPT !.open = open, !.at = at] = [g EXCEPT !.at = at]
  BY DEF HasFields
<1> HIDE DEF g
<1>3. [g EXCEPT !.at = at] =
        [open |-> open, at |-> at, own |-> h.own, names |-> h.names, gone |-> h.gone]
  BY <1>1
<1> QED
  BY <1>2, <1>3

\* It has other names.
LEMMA HandleNames ==
    ASSUME NEW h, HasFields(h), NEW names
    PROVE  [h EXCEPT !.names = names] =
             [open |-> h.open, at |-> h.at, own |-> h.own, names |-> names, gone |-> h.gone]
BY DEF HasFields

\* It loses its file.
LEMMA HandleLost ==
    ASSUME NEW h, HasFields(h), NEW at, NEW own
    PROVE  [h EXCEPT !.at = at, !.own = own] =
             [open |-> h.open, at |-> at, own |-> own, names |-> h.names, gone |-> h.gone]
<1> DEFINE g == [h EXCEPT !.at = at]
<1>1. g = [open |-> h.open, at |-> at, own |-> h.own, names |-> h.names, gone |-> h.gone]
  BY DEF HasFields
<1>2. [h EXCEPT !.at = at, !.own = own] = [g EXCEPT !.own = own]
  BY DEF HasFields
<1> HIDE DEF g
<1>3. [g EXCEPT !.own = own] =
        [open |-> h.open, at |-> at, own |-> own, names |-> h.names, gone |-> h.gone]
  BY <1>1
<1> QED
  BY <1>2, <1>3

\* It loses a name.
LEMMA HandleGone ==
    ASSUME NEW h, HasFields(h), NEW names, NEW gone
    PROVE  [h EXCEPT !.names = names, !.gone = gone] =
             [open |-> h.open, at |-> h.at, own |-> h.own, names |-> names, gone |-> gone]
<1> DEFINE g == [h EXCEPT !.names = names]
<1>1. g = [open |-> h.open, at |-> h.at, own |-> h.own, names |-> names, gone |-> h.gone]
  BY DEF HasFields
<1>2. [h EXCEPT !.names = names, !.gone = gone] = [g EXCEPT !.gone = gone]
  BY DEF HasFields
<1> HIDE DEF g
<1>3. [g EXCEPT !.gone = gone] =
        [open |-> h.open, at |-> h.at, own |-> h.own, names |-> names, gone |-> gone]
  BY <1>1
<1> QED
  BY <1>2, <1>3

\* A handle that is opened.
LEMMA OpenAtIs ==
    ASSUME NEW path \in Paths
    PROVE  /\ IsHandle(OpenAt(path)) /\ OpenAt(path).open /\ OpenAt(path).at = path
           /\ OpenAt(path) = [open |-> TRUE, at |-> path, own |-> <<>>, names |-> {}, gone |-> {}]
<1>1. OpenAt(path) = [open |-> TRUE, at |-> path, own |-> <<>>, names |-> {}, gone |-> {}]
  <2>1. IsHandle(Closed) /\ Closed.own = <<>> /\ Closed.names = {} /\ Closed.gone = {}
    BY EmptySeq DEF Closed, IsHandle
  <2>2. HasFields(Closed)
    BY <2>1 DEF IsHandle, HasFields
  <2> QED
    <3> DEFINE c == Closed
    <3> HIDE DEF c
    <3>1. HasFields(c)
      BY <2>2 DEF c
    <3>2. [c EXCEPT !.open = TRUE, !.at = path] =
            [open |-> TRUE, at |-> path, own |-> c.own, names |-> c.names, gone |-> c.gone]
      BY <3>1, HandleAt
    <3> QED
      BY <2>1, <3>2 DEF OpenAt, c
<1>2. <<>> \in Seq(STRING)
  BY EmptySeq
<1> QED
  BY <1>1, <1>2 DEF IsHandle

\* The file of an open handle has a text.
LEMMA ContentsAre ==
    ASSUME FilesInv
    PROVE  Contents(tree, handle) \in Seq(STRING)
<1>1. handle.own \in Seq(STRING)
  BY DEF FilesInv, HandleInv, IsHandle
<1>2. Node(tree, handle.at) \in Nodes
  BY NodeIs DEF FilesInv, TypeOK, Trees
<1> QED
  BY <1>1, <1>2 DEF Contents, Nodes

\* A file is read.
LEMMA ReadBase == ASSUME FilesInv, OpenForReading \/ ReadBlock PROVE FilesInv'
<1>1. CASE OpenForReading
  <2>1. /\ pc = "open" /\ pc' = "read" /\ IsFile(tree, filePath) /\ handle' = OpenAt(filePath)
        /\ UNCHANGED <<tree, filePath, content, done, entries, read, witness, kept,
                       request, answer, served, changed>>
    BY <1>1 DEF OpenForReading, Go
  <2>2. filePath \in Paths
    BY <2>1, NodeIs DEF FilesInv, TypeOK, Trees
  <2>3. HandleInv'
    <3>1. IsHandle(handle') /\ handle'.open /\ handle'.at = filePath
      BY <2>1, <2>2, OpenAtIs
    <3> QED
      BY <2>1, <3>1 DEF HandleInv, Open, IsFile, Node, IsHandle
  <2>4. TypeOK' /\ IsWitness(witness)'
    <3> HIDE DEF RequestType
    <3> QED
      BY <2>1 DEF FilesInv, TypeOK, WellFormed, IsDirectory, Exists, Node, IsWitness
  <2>5. StepInv' /\ LocalsInv'
    BY <2>1 DEF FilesInv, StepInv, Steps, LocalsInv, Storing
  <2> QED
    BY <2>3, <2>4, <2>5 DEF FilesInv
<1>2. CASE ReadBlock
  <2> DEFINE text == Contents(tree, handle)
  <2>1. /\ pc = "read" /\ pc' = "read" /\ done < Len(text) /\ done' = done + 1
        /\ content' = Append(content, text[done + 1])
        /\ UNCHANGED <<tree, filePath, handle, entries, read, witness, kept,
                       request, answer, served, changed>>
    BY <1>2 DEF ReadBlock, Go
  <2>2. text \in Seq(STRING) /\ done \in Nat /\ content \in Seq(STRING)
    BY ContentsAre DEF FilesInv, TypeOK
  <2> HIDE DEF text
  <2>3. content' \in Seq(STRING) /\ done' \in Nat
    <3>1. done + 1 \in 1..Len(text)
      BY <2>1, <2>2, LenProperties
    <3> QED
      BY <2>1, <2>2, <3>1, ElementOfSeq, AppendProperties
  <2>4. TypeOK' /\ IsWitness(witness)'
    <3> HIDE DEF RequestType
    <3> QED
      BY <2>1, <2>3 DEF FilesInv, TypeOK, WellFormed, IsDirectory, Exists, Node, IsWitness
  <2>5. StepInv' /\ LocalsInv' /\ HandleInv'
    BY <2>1 DEF FilesInv, StepInv, Steps, LocalsInv, Storing, HandleInv, Open, IsFile, Node, IsHandle
  <2> QED
    BY <2>4, <2>5 DEF FilesInv
<1> QED
  BY <1>1, <1>2

\* A directory is read.
LEMMA ReaddirBase ==
    ASSUME FilesInv, OpenDirectory \/ \E name \in Names : ReadEntry(name) \/ ReadGone(name)
    PROVE  FilesInv'
<1>1. CASE OpenDirectory
  <2>1. /\ pc = "opendir" /\ pc' = "readdir" /\ IsDirectory(tree, request.path)
        /\ handle' = [OpenAt(request.path) EXCEPT !.names = NamesOf(EntriesOf(tree, request.path))]
        /\ UNCHANGED <<tree, filePath, content, done, entries, read, witness, kept,
                       request, answer, served, changed>>
    BY <1>1 DEF OpenDirectory, Go
  <2>2. request.path \in Paths
    BY <2>1, NodeIs DEF FilesInv, TypeOK, Trees
  <2>3. HandleInv'
    <3>1. /\ OpenAt(request.path) = [open |-> TRUE, at |-> request.path, own |-> <<>>, names |-> {}, gone |-> {}]
          /\ IsHandle(OpenAt(request.path))
      BY <2>2, OpenAtIs
    <3>2. handle' = [open |-> TRUE, at |-> request.path, own |-> <<>>,
                     names |-> NamesOf(EntriesOf(tree, request.path)), gone |-> {}]
      <4> DEFINE names == NamesOf(EntriesOf(tree, request.path))
                 h == OpenAt(request.path)
      <4> HIDE DEF names, h
      <4>1. IsHandle(h) /\ h.open = TRUE /\ h.at = request.path /\ h.own = <<>> /\ h.gone = {}
        BY <3>1 DEF h
      <4>2. [h EXCEPT !.names = names] = [open |-> h.open, at |-> h.at, own |-> h.own,
                                          names |-> names, gone |-> h.gone]
        BY <4>1, HandleNames DEF IsHandle, HasFields
      <4> QED
        BY <2>1, <4>1, <4>2 DEF h, names
    <3>3. IsHandle(handle') /\ handle'.open /\ handle'.at = request.path
      BY <2>2, <3>1, <3>2 DEF IsHandle
    <3> QED
      BY <2>1, <3>3 DEF HandleInv, Open, IsHandle
  <2>4. TypeOK' /\ IsWitness(witness)'
    <3> HIDE DEF RequestType
    <3> QED
      BY <2>1 DEF FilesInv, TypeOK, WellFormed, IsDirectory, Exists, Node, IsWitness
  <2>5. StepInv' /\ LocalsInv'
    BY <2>1 DEF FilesInv, StepInv, Steps, LocalsInv, Storing
  <2> QED
    BY <2>3, <2>4, <2>5 DEF FilesInv
<1>2. CASE \E name \in Names : ReadEntry(name) \/ ReadGone(name)
  <2>1. /\ pc = "readdir" /\ pc' = "readdir"
        /\ UNCHANGED <<tree, filePath, handle, content, done, witness, kept,
                       request, answer, served, changed>>
    BY <1>2 DEF ReadEntry, ReadGone, Go
  <2>2. TypeOK' /\ IsWitness(witness)'
    <3> HIDE DEF RequestType
    <3> QED
      BY <2>1 DEF FilesInv, TypeOK, WellFormed, IsDirectory, Exists, Node, IsWitness
  <2>3. StepInv' /\ LocalsInv' /\ HandleInv'
    BY <2>1 DEF FilesInv, StepInv, Steps, LocalsInv, Storing, HandleInv, Open, IsHandle
  <2> QED
    BY <2>2, <2>3 DEF FilesInv
<1> QED
  BY <1>1, <1>2

\* GET, step by step.
LEMMA GetBase == ASSUME FilesInv, Get PROVE FilesInv'
<1>1. CASE NotFound \/ ReadEnds \/ EndOfDirectory
  <2>1. \E a : Conclude(a)
    BY <1>1 DEF NotFound, ReadEnds, EndOfDirectory
  <2> QED
    BY <2>1, ConcludeBase
<1>2. CASE KindIsDirectory
  <2>1. \/ \E a : Conclude(a)
        \/ /\ pc = "kind" /\ request.method = "GET" /\ request.slash /\ Go("index") /\ done' = 1
           /\ UNCHANGED <<tree, filePath, handle, content, entries, read, witness, kept>>
    <3>1. request.method \in {"GET", "DELETE"}
      BY <1>2 DEF KindIsDirectory, FilesInv, StepInv
    <3>2. CASE request.method = "DELETE"
      BY <1>2, <3>2 DEF KindIsDirectory
    <3>3. CASE request.method = "GET" /\ ~request.slash
      BY <1>2, <3>3 DEF KindIsDirectory
    <3>4. CASE request.method = "GET" /\ request.slash
      BY <1>2, <3>4 DEF KindIsDirectory
    <3> QED
      BY <3>1, <3>2, <3>3, <3>4
  <2> QED
    BY <2>1, ConcludeBase, IndexBase
<1>3. CASE NoIndex
  <2>1. \/ Conclude(Status(404))
        \/ Go("opendir") /\ UNCHANGED <<tree, local, witness, kept>>
    BY <1>3 DEF NoIndex
  <2> QED
    BY <1>3, <2>1, ConcludeBase, IndexBase
<1>4. CASE NotSeen \/ CannotRead \/ CannotOpenDirectory \/ ScanFails
  <2>1. \E call, a : FailWith(call, a)
    BY <1>4 DEF NotSeen, CannotRead, CannotOpenDirectory, ScanFails
  <2> QED
    BY <2>1, FailBase
<1> QED
  BY <1>1, <1>2, <1>3, <1>4, LookBase, IndexBase, NotSeenBase, ReadBase, ReaddirBase DEF Get

\* DELETE, step by step.
LEMMA DeleteBase == ASSUME FilesInv, Delete PROVE FilesInv'
<1>1. CASE RemoveTarget
  <2>1. /\ Removable(tree, request.path) /\ tree' = With(tree, request.path, Nothing)
        /\ Answer(Status(204)) /\ UNCHANGED witness
    BY <1>1 DEF RemoveTarget
  <2>2. Nothing \in Nodes
    BY EmptySeq DEF Nothing, Nodes
  <2>3. tree' \in Trees /\ WellFormed(tree')
    BY <2>1, <2>2, StepWellFormed DEF TreeStep, FilesInv, TypeOK, Trees
  <2> QED
    BY <2>1, <2>3, AnswerBase DEF FilesInv, IsWitness, WellFormed, IsDirectory, Exists, Node
<1>2. CASE CannotRemove
  BY <1>2, FailBase DEF CannotRemove
<1> QED
  BY <1>1, <1>2 DEF Delete

\* The request of an upload.
LEMMA PostIs ==
    ASSUME FilesInv, pc \in {"prepare"} \cup Storing
    PROVE  request \in RequestType /\ request.method = "POST" /\ TextOf(request) \in Seq(STRING)
<1>1. request.method = "POST" /\ request \in RequestType \cup {NoRequest}
  BY DEF FilesInv, StepInv, TypeOK
<1>2. request \in RequestType
  BY <1>1 DEF NoRequest
<1> QED
  BY <1>1, <1>2, RequestIs

\* An upload knows its file and its text.
LEMMA PreparedBase ==
    ASSUME FilesInv, pc = "prepare", request.path # NoPath,
           NEW name \in STRING, NEW text, text = TextOf(request), text # <<>>,
           Prepared(Append(request.path, name), text)
    PROVE  FilesInv'
<1> DEFINE path == Append(request.path, name)
<1>1. /\ filePath' = path /\ content' = text /\ pc' = "directory"
      /\ witness' = [witness EXCEPT !.before = Node(tree, path)]
      /\ UNCHANGED <<tree, handle, done, entries, read, kept, request, answer, served, changed>>
  BY DEF Prepared, Go
<1>2. request \in RequestType /\ request.method = "POST" /\ text \in Seq(STRING)
  BY PostIs
<1>3. path \in Seq(STRING) /\ path # <<>> /\ Parent(path) # path
  <2>1. request.path \in Seq(STRING)
    BY <1>2, RequestIs
  <2> QED
    BY <2>1, PathParts
<1>4. TypeOK'
  <2> HIDE DEF RequestType, path
  <2> QED
    BY <1>1, <1>2, <1>3 DEF FilesInv, TypeOK, WellFormed, IsDirectory, Exists, Node
<1>5. StepInv' /\ LocalsInv' /\ HandleInv'
  <2> HIDE DEF RequestType, path
  <2> QED
    BY <1>1, <1>2, <1>3 DEF FilesInv, StepInv, Steps, LocalsInv, Storing, HandleInv, Open, IsHandle, TextOf
<1>6. IsWitness(witness')
  BY <1>1, BeforeIs DEF FilesInv, IsWitness
<1> QED
  BY <1>4, <1>5, <1>6 DEF FilesInv, IsWitness

\* The directory of an upload.
LEMMA DirectoryBase ==
    ASSUME FilesInv, DirectoryThere \/ DirectoryMissing \/ MakeDirectory
    PROVE  FilesInv'
<1>1. /\ pc \in {"directory", "mkdir"} /\ pc' \in {"create", "mkdir"}
      /\ UNCHANGED <<local, witness, kept, request, answer, served, changed>>
  BY DEF DirectoryThere, DirectoryMissing, MakeDirectory, Go
<1>2. tree' \in Trees /\ WellFormed(tree')
  <2>1. CASE tree' = tree
    BY <2>1 DEF FilesInv, TypeOK, Trees
  <2>2. CASE tree' # tree
    <3>1. Vacant(tree, Parent(filePath)) /\ tree' = With(tree, Parent(filePath), Directory)
      BY <2>2 DEF DirectoryThere, DirectoryMissing, MakeDirectory
    <3>2. Directory \in Nodes /\ Directory.kind = "directory"
      BY EmptySeq DEF Directory, Nodes
    <3> QED
      BY <3>1, <3>2, StepWellFormed DEF TreeStep, FilesInv, TypeOK, Trees
  <2> QED
    BY <2>1, <2>2
<1>3. TypeOK'
  <2> HIDE DEF RequestType
  <2> QED
    BY <1>1, <1>2 DEF FilesInv, TypeOK, WellFormed, IsDirectory, Exists, Node, Trees, local
<1>4. StepInv' /\ LocalsInv' /\ HandleInv'
  BY <1>1 DEF FilesInv, StepInv, Steps, LocalsInv, Storing, HandleInv, Open, IsHandle, TextOf, local
<1> QED
  BY <1>1, <1>3, <1>4 DEF FilesInv, IsWitness

\* The file of an upload is opened.
LEMMA OpenForWritingBase ==
    ASSUME FilesInv, OpenForWriting
    PROVE  /\ FilesInv'
           /\ filePath \in Paths /\ handle'.at = filePath
           /\ \A other : Node(tree', other) = IF other = filePath THEN File(<<>>) ELSE Node(tree, other)
<1>1. /\ pc = "create" /\ Creatable /\ tree' = With(tree, filePath, File(<<>>))
      /\ handle' = OpenAt(filePath) /\ pc' = "write"
      /\ UNCHANGED <<filePath, content, done, entries, read, witness, request, answer, served, changed>>
  BY DEF OpenForWriting, Go, Created
<1>2. File(<<>>) \in Nodes /\ File(<<>>).kind = "file"
  BY EmptySeq DEF File, Nodes
<1>3. tree \in Trees /\ WellFormed(tree)
  BY DEF FilesInv, TypeOK, Trees
<1>4. TreeStep(tree, filePath, File(<<>>))
  BY <1>1, <1>2 DEF Creatable, TreeStep
<1>5. filePath \in Paths /\ tree' \in Trees /\ WellFormed(tree')
  BY <1>1, <1>2, <1>3, <1>4, StepWellFormed
<1>6. \A other : Node(tree', other) = IF other = filePath THEN File(<<>>) ELSE Node(tree, other)
  BY <1>1, <1>2, <1>3, <1>5, WithIs
<1>7. IsHandle(handle') /\ handle'.open /\ handle'.at = filePath
  BY <1>1, <1>5, OpenAtIs
<1>8. TypeOK'
  <2> HIDE DEF RequestType
  <2> QED
    BY <1>1, <1>5 DEF FilesInv, TypeOK, WellFormed, IsDirectory, Exists, Node, Trees
<1>9. StepInv' /\ LocalsInv'
  <2>1. content \in Seq(STRING) /\ content # <<>>
    BY <1>1 DEF FilesInv, TypeOK, LocalsInv, Storing
  <2>2. 0 <= Len(content)
    BY <2>1, LenProperties
  <2> QED
    BY <1>1, <2>2 DEF FilesInv, StepInv, Steps, LocalsInv, Storing, TextOf
<1>10. HandleInv'
  <2>1. IsFile(tree', filePath)
    BY <1>2, <1>6 DEF IsFile
  <2> QED
    BY <1>1, <1>7, <2>1 DEF HandleInv, Open, IsHandle, IsFile, Node
<1> QED
  BY <1>1, <1>5, <1>6, <1>7, <1>8, <1>9, <1>10 DEF FilesInv, IsWitness

\* A block that reaches a file which still has its name.
LEMMA BlockIs ==
    ASSUME FilesInv, pc \in {"write", "close"}, done < Len(content), ~Unnamed(handle), NEW t,
           t = With(tree, handle.at, File(Written(tree[handle.at].data, done, <<content[done + 1]>>)))
    PROVE  /\ t \in Trees /\ WellFormed(t) /\ handle.at = filePath
           /\ \A other : Node(t, other) =
                IF other = filePath THEN File(Written(Node(tree, filePath).data, done, <<content[done + 1]>>))
                ELSE Node(tree, other)
<1> DEFINE node == File(Written(Node(tree, filePath).data, done, <<content[done + 1]>>))
<1>1. tree \in Trees /\ WellFormed(tree) /\ handle.at = filePath /\ IsFile(tree, filePath)
  BY DEF FilesInv, TypeOK, Trees, HandleInv, Unnamed
<1>2. filePath \in Paths /\ Node(tree, filePath) \in Nodes
  BY <1>1, NodeIs
<1>3. node \in Nodes /\ node.kind = "file"
  <2> DEFINE w == Written(Node(tree, filePath).data, done, <<content[done + 1]>>)
  <2>1. Node(tree, filePath).data \in Seq(STRING)
    BY <1>2 DEF Nodes
  <2>2. content[done + 1] \in STRING
    <3>1. content \in Seq(STRING) /\ done \in Nat
      BY DEF FilesInv, TypeOK
    <3>2. done + 1 \in 1..Len(content)
      BY <3>1, LenProperties
    <3> QED
      BY <3>1, <3>2, ElementOfSeq
  <2>3. w \in Seq(STRING)
    BY <2>1, <2>2, WrittenIs DEF FilesInv, TypeOK
  <2>4. node = [kind |-> "file", data |-> w]
    BY DEF File
  <2> HIDE DEF w, node
  <2> QED
    BY <2>3, <2>4 DEF Nodes
<1>4. t = With(tree, filePath, node)
  BY <1>1, <1>2 DEF Node
<1> HIDE DEF node
<1>5. TreeStep(tree, filePath, node)
  BY <1>1, <1>3 DEF TreeStep
<1>6. t \in Trees /\ WellFormed(t)
  BY <1>1, <1>3, <1>4, <1>5, StepWellFormed
<1>7. Node(t, filePath) = node /\ \A other : other # filePath => Node(t, other) = Node(tree, other)
  BY <1>1, <1>2, <1>3, <1>4, WithIs
<1> QED
  BY <1>1, <1>6, <1>7 DEF node

\* A block is written, or waits in the buffer of the stream.
LEMMA WriteBase == ASSUME FilesInv, WriteBlock \/ BufferBlock PROVE FilesInv'
<1>0. content \in Seq(STRING) /\ done \in Nat /\ Len(content) \in Nat
  BY LenProperties DEF FilesInv, TypeOK
<1>1. CASE WriteBlock
  <2>1. /\ pc = "write" /\ pc' = "write" /\ done < Len(content) /\ done' = done + 1
        /\ Stored(<<content[done + 1]>>)
        /\ UNCHANGED <<filePath, content, entries, read, witness, kept, request, answer, served, changed>>
    BY <1>1 DEF WriteBlock, Go
  <2>2. /\ tree' \in Trees /\ WellFormed(tree') /\ IsHandle(handle')
        /\ handle'.at = handle.at /\ handle'.open = handle.open
        /\ handle.at # NoPath => handle.at = filePath /\ IsFile(tree', filePath)
    <3>1. CASE Unnamed(handle)
      <4> DEFINE w == Written(handle.own, done, <<content[done + 1]>>)
      <4>1. tree' = tree /\ handle' = [handle EXCEPT !.own = w]
        BY <2>1, <3>1 DEF Stored
      <4>2. w \in Seq(STRING)
        <5>1. handle.own \in Seq(STRING)
          BY DEF FilesInv, HandleInv, IsHandle
        <5>2. content[done + 1] \in STRING
          <6>1. done + 1 \in 1..Len(content)
            BY <1>0, <2>1
          <6> QED
            BY <1>0, <6>1, ElementOfSeq
        <5> QED
          BY <1>0, <5>1, <5>2, WrittenIs
      <4> HIDE DEF w
      <4>3. handle' = [open |-> handle.open, at |-> handle.at, own |-> w,
                       names |-> handle.names, gone |-> handle.gone]
        BY <4>1 DEF FilesInv, HandleInv, IsHandle
      <4>4. IsHandle(handle)
        BY DEF FilesInv, HandleInv
      <4>5. IsHandle(handle') /\ handle'.at = handle.at /\ handle'.open = handle.open
        BY <4>2, <4>3, <4>4 DEF IsHandle
      <4> QED
        BY <3>1, <4>1, <4>5 DEF Unnamed, FilesInv, TypeOK, Trees
    <3>2. CASE ~Unnamed(handle)
      <4>1. /\ tree' = With(tree, handle.at, File(Written(tree[handle.at].data, done, <<content[done + 1]>>)))
            /\ handle' = handle
        BY <2>1, <3>2 DEF Stored
      <4>2. /\ tree' \in Trees /\ WellFormed(tree') /\ handle.at = filePath
            /\ Node(tree', filePath) = File(Written(Node(tree, filePath).data, done, <<content[done + 1]>>))
        BY <2>1, <3>2, <4>1, BlockIs
      <4> QED
        BY <4>1, <4>2 DEF FilesInv, HandleInv, IsHandle, IsFile, File
    <3> QED
      BY <3>1, <3>2
  <2>3. TypeOK'
    <3>1. done' \in Nat
      BY <1>0, <2>1
    <3> HIDE DEF RequestType
    <3> QED
      BY <2>1, <2>2, <3>1 DEF FilesInv, TypeOK, WellFormed, IsDirectory, Exists, Node, Trees
  <2>4. StepInv' /\ LocalsInv'
    <3>1. done' <= Len(content)
      BY <1>0, <2>1
    <3> QED
      BY <2>1, <3>1 DEF FilesInv, StepInv, Steps, LocalsInv, Storing, TextOf
  <2>5. HandleInv'
    BY <2>1, <2>2 DEF FilesInv, HandleInv, Open, IsHandle, IsFile, Node
  <2> QED
    BY <2>1, <2>3, <2>4, <2>5 DEF FilesInv, IsWitness
<1>2. CASE BufferBlock
  <2>1. /\ pc = "write" /\ pc' = "close" /\ done + 1 = Len(content)
        /\ UNCHANGED <<tree, local, witness, kept, request, answer, served, changed>>
    BY <1>2 DEF BufferBlock, Go
  <2>2. TypeOK'
    <3> HIDE DEF RequestType
    <3> QED
      BY <2>1 DEF FilesInv, TypeOK, WellFormed, IsDirectory, Exists, Node, local
  <2>3. StepInv' /\ LocalsInv' /\ HandleInv'
    BY <2>1 DEF FilesInv, StepInv, Steps, LocalsInv, Storing, HandleInv, Open, IsHandle, IsFile, Node, TextOf, local
  <2> QED
    BY <2>1, <2>2, <2>3 DEF FilesInv, IsWitness
<1> QED
  BY <1>1, <1>2

\* POST, step by step.
LEMMA PostBase == ASSUME FilesInv, Post PROVE FilesInv'
<1>1. CASE NothingToStore \/ NowhereToStore \/ NoFilePart
  <2>1. \E a : Conclude(a)
    BY <1>1 DEF NothingToStore, NowhereToStore, NoFilePart
  <2> QED
    BY <2>1, ConcludeBase
<1>2. CASE NamedFile
  <2>1. /\ pc = "prepare" /\ request.path # NoPath /\ request.multipart
        /\ Part.content # <<>> /\ Prepared(Append(request.path, Part.filename), Part.content)
    BY <1>2 DEF NamedFile
  <2>2. request \in RequestType /\ request.method = "POST"
    BY <2>1, PostIs
  <2>3. request.body \in Seq(STRING) /\ request.filename \in STRING
    BY <2>2, RequestIs
  <2>4. Part.filename \in STRING /\ Part.content = TextOf(request)
    BY <2>1, <2>3, ParsedIs DEF Part, TextOf
  <2> QED
    BY <2>1, <2>4, PreparedBase
<1>3. CASE \E name \in GeneratedNames : GeneratedFile(name)
  <2>1. PICK name \in GeneratedNames : GeneratedFile(name)
    BY <1>3
  <2>2. /\ pc = "prepare" /\ request.path # NoPath /\ request.body # <<>> /\ ~request.multipart
        /\ Prepared(Append(request.path, name), request.body)
    BY <2>1 DEF GeneratedFile
  <2>3. name \in STRING /\ request.body = TextOf(request)
    BY <2>2, FilesAssumption DEF TextOf
  <2> QED
    BY <2>2, <2>3, PreparedBase
<1>4. CASE CannotMakeDirectory \/ CannotCreate \/ CannotWrite
  <2>1. \E call, a : FailWith(call, a)
    BY <1>4 DEF CannotMakeDirectory, CannotCreate, CannotWrite
  <2> QED
    BY <2>1, FailBase
<1>6. CASE CloseLoses
  <2>1. Answer(Status(201)) /\ tree' = tree /\ witness' = [witness EXCEPT !.failed = "close"]
    BY <1>6 DEF CloseLoses, Acknowledge
  <2>2. IsWitness(witness')
    BY <2>1, FailedIs DEF FilesInv, IsWitness
  <2>3. tree' \in Trees /\ WellFormed(tree')
    BY <2>1 DEF FilesInv, TypeOK, Trees
  <2> HIDE DEF FilesInv
  <2> QED
    BY <2>1, <2>2, <2>3, AnswerBase DEF WellFormed, IsDirectory, Exists, Node, IsWitness
<1>5. CASE Saved \/ CloseStores
  <2>1. /\ Answer(Status(201)) /\ UNCHANGED witness
        /\ \/ UNCHANGED tree
           \/ /\ pc = "close" /\ ~Unnamed(handle)
              /\ tree' = With(tree, handle.at,
                              File(Written(tree[handle.at].data, done, <<content[done + 1]>>)))
    <3>1. CASE Saved
      BY <3>1 DEF Saved, Acknowledge
    <3>2. CASE CloseStores /\ Unnamed(handle)
      BY <3>2 DEF CloseStores, Acknowledge
    <3>3. CASE CloseStores /\ ~Unnamed(handle)
      BY <3>3 DEF CloseStores, Acknowledge
    <3> QED
      BY <1>5, <3>1, <3>2, <3>3
  <2>2. tree' \in Trees /\ WellFormed(tree')
    <3>1. CASE tree' = tree
      BY <3>1 DEF FilesInv, TypeOK, Trees
    <3>2. CASE tree' # tree
      <4>1. pc = "close" /\ done < Len(content)
        <5>1. pc = "close" /\ done + 1 = Len(content) /\ done \in Nat
          BY <2>1, <3>2 DEF FilesInv, LocalsInv, TypeOK
        <5> QED
          BY <5>1
      <4> QED
        BY <2>1, <3>2, <4>1, BlockIs
    <3> QED
      BY <3>1, <3>2
  <2> HIDE DEF FilesInv
  <2> QED
    BY <2>1, <2>2, AnswerBase DEF FilesInv, IsWitness, WellFormed, IsDirectory, Exists, Node
<1> QED
  BY <1>1, <1>2, <1>3, <1>4, <1>5, <1>6, DirectoryBase, OpenForWritingBase, WriteBase DEF Post

-----------------------------------------------------------------------------
(***************************************************************************)
(* The changes of other processes                                          *)
(***************************************************************************)
\* What an open handle is after a path was created, removed or replaced.
LEMMA AdjustedIs ==
    ASSUME IsHandle(handle), tree \in Trees, NEW path \in Paths \ {<<>>}
    PROVE  LET h == Adjusted(tree, handle, path)
               lost == handle.open /\ handle.at = path
               scanned == handle.open /\ handle.at # path /\ handle.at = Parent(path)
           IN  /\ IsHandle(h) /\ h.open = handle.open
               /\ lost => h.at = NoPath /\ h.own = tree[path].data
               /\ ~lost => h.at = handle.at /\ h.own = handle.own
               /\ scanned => /\ h.names = handle.names \ {Name(path)}
                             /\ h.gone = handle.gone \cup (handle.names \cap {Name(path)})
               /\ ~scanned => h.names = handle.names /\ h.gone = handle.gone
               /\ ~handle.open => h = handle
<1> DEFINE g == handle
           h == Adjusted(tree, g, path)
           lost == g.open /\ g.at = path
           scanned == g.open /\ g.at # path /\ g.at = Parent(path)
<1>1. HasFields(g) /\ IsHandle(g)
  BY DEF IsHandle, HasFields
<1>2. CASE lost
  <2> DEFINE none == NoPath
             own == tree[path].data
  <2>1. h = [g EXCEPT !.at = none, !.own = own]
    <3>1. h = [g EXCEPT !.at = NoPath, !.own = tree[path].data]
      <4>1. Parent(path) # path
        BY PathOf
      <4> HIDE DEF g
      <4> QED
        BY <1>2, <4>1 DEF Adjusted
    <3> QED
      BY <3>1, Zenon
  <2>2. none \in Paths \cup {NoPath} /\ own \in Seq(STRING)
    BY DEF Trees, Nodes
  <2> HIDE DEF none, own, g
  <2>3. h = [open |-> g.open, at |-> none, own |-> own, names |-> g.names, gone |-> g.gone]
    <3>1. [g EXCEPT !.at = none, !.own = own] =
            [open |-> g.open, at |-> none, own |-> own, names |-> g.names, gone |-> g.gone]
      BY <1>1, HandleLost
    <3> QED
      BY <2>1, <3>1
  <2> HIDE DEF h
  <2>4. IsHandle(h)
    BY <1>1, <2>2, <2>3 DEF IsHandle
  <2> QED
    BY <1>2, <2>3, <2>4 DEF none, own, g, h
<1>3. CASE scanned
  <2> DEFINE names == g.names \ {Name(path)}
             gone == g.gone \cup (g.names \cap {Name(path)})
  <2>1. h = [g EXCEPT !.names = names, !.gone = gone]
    BY <1>3 DEF Adjusted
  <2> HIDE DEF names, gone, g
  <2>2. h = [open |-> g.open, at |-> g.at, own |-> g.own, names |-> names, gone |-> gone]
    <3>1. [g EXCEPT !.names = names, !.gone = gone] =
            [open |-> g.open, at |-> g.at, own |-> g.own, names |-> names, gone |-> gone]
      BY <1>1, HandleGone
    <3> QED
      BY <2>1, <3>1
  <2> HIDE DEF h
  <2>3. IsHandle(h)
    BY <1>1, <2>2 DEF IsHandle
  <2> QED
    BY <1>3, <2>2, <2>3 DEF names, gone, g, h
<1>4. CASE ~lost /\ ~scanned
  <2>1. h = g
    BY <1>4 DEF Adjusted
  <2> QED
    BY <1>1, <1>4, <2>1
<1> QED
  BY <1>2, <1>3, <1>4

\* One change, and what is known of it.
Apart(path, node, inPlace) ==
    /\ Change(path, node, inPlace) /\ TreeStep(tree, path, node)
    /\ inPlace => IsFile(tree, path) /\ node.kind = "file"

\* What other processes do is one such step.
LEMMA ForeignIs ==
    ASSUME Foreign
    PROVE  \E path \in Paths \ {<<>>}, node \in Nodes, inPlace \in BOOLEAN : Apart(path, node, inPlace)
<1>1. PICK path \in Paths \ {<<>>} :
        \/ ForeignMkdir(path)
        \/ ForeignRemove(path)
        \/ \E data \in ForeignData :
             ForeignCreate(path, data) \/ ForeignReplace(path, data) \/ ForeignRewrite(path, data)
  BY DEF Foreign
<1>2. /\ Directory \in Nodes /\ Directory.kind = "directory" /\ Nothing \in Nodes
      /\ \A data \in ForeignData : File(data) \in Nodes /\ File(data).kind = "file"
  BY EmptySeq, FilesAssumption DEF Directory, Nothing, File, Nodes
<1>3. CASE ForeignMkdir(path)
  <2>1. Apart(path, Directory, FALSE)
    BY <1>2, <1>3 DEF ForeignMkdir, Apart, TreeStep
  <2> QED
    BY <1>2, <2>1
<1>4. CASE ForeignRemove(path)
  <2>1. Apart(path, Nothing, FALSE)
    BY <1>2, <1>4 DEF ForeignRemove, Apart, TreeStep
  <2> QED
    BY <1>2, <2>1
<1>5. ASSUME NEW data \in ForeignData, ForeignCreate(path, data) \/ ForeignReplace(path, data)
      PROVE  Apart(path, File(data), FALSE)
  BY <1>2, <1>5 DEF ForeignCreate, ForeignReplace, Apart, TreeStep
<1>6. ASSUME NEW data \in ForeignData, ForeignRewrite(path, data)
      PROVE  Apart(path, File(data), TRUE)
  BY <1>2, <1>6 DEF ForeignRewrite, Apart, TreeStep
<1> QED
  BY <1>1, <1>2, <1>3, <1>4, <1>5, <1>6

\* What a change leaves of the handle and of the tree.
LEMMA ApartIs ==
    ASSUME FilesInv, NEW path \in Paths \ {<<>>}, NEW node \in Nodes, NEW inPlace \in BOOLEAN,
           Apart(path, node, inPlace)
    PROVE  /\ tree' = With(tree, path, node) /\ tree' \in Trees /\ WellFormed(tree')
           /\ Node(tree', path) = node
           /\ \A other : other # path => Node(tree', other) = Node(tree, other)
           /\ witness' = Seen(tree', path, inPlace) /\ IsWitness(witness')
           /\ kept' = {k \in kept : k.path # path}
           /\ handle' = IF inPlace THEN handle ELSE Adjusted(tree, handle, path)
           /\ IsHandle(handle') /\ handle'.open = handle.open
           /\ handle'.at = IF handle.open /\ handle.at = path /\ ~inPlace THEN NoPath ELSE handle.at
           /\ UNCHANGED <<pc, request, answer, filePath, content, done, entries, read, served>>
<1>1. /\ tree' = With(tree, path, node) /\ witness' = Seen(tree', path, inPlace)
      /\ kept' = {k \in kept : k.path # path}
      /\ handle' = IF inPlace THEN handle ELSE Adjusted(tree, handle, path)
      /\ UNCHANGED <<pc, request, answer, filePath, content, done, entries, read, served>>
  BY DEF Apart, Change
<1>2. tree \in Trees /\ WellFormed(tree) /\ TreeStep(tree, path, node)
  BY DEF FilesInv, TypeOK, Trees, Apart
<1>3. tree' \in Trees /\ WellFormed(tree')
  BY <1>1, <1>2, StepWellFormed
<1>4. Node(tree', path) = node /\ \A other : other # path => Node(tree', other) = Node(tree, other)
  BY <1>1, <1>2, WithIs
<1>5. IsWitness(witness')
  <2> DEFINE t == tree'
  <2> HIDE DEF t
  <2>1. witness' = Seen(t, path, inPlace) /\ IsWitness(witness)
    BY <1>1 DEF t, FilesInv
  <2> QED
    BY <2>1, SeenIs DEF IsWitness
<1>6. /\ IsHandle(handle') /\ handle'.open = handle.open
      /\ handle'.at = IF handle.open /\ handle.at = path /\ ~inPlace THEN NoPath ELSE handle.at
  <2>1. IsHandle(handle)
    BY DEF FilesInv, HandleInv
  <2>2. CASE inPlace
    BY <1>1, <2>1, <2>2
  <2>3. CASE ~inPlace
    <3>1. handle' = Adjusted(tree, handle, path)
      BY <1>1, <2>3
    <3> QED
      BY <1>2, <2>1, <2>3, <3>1, AdjustedIs
  <2> QED
    BY <2>2, <2>3
<1> QED
  BY <1>1, <1>3, <1>4, <1>5, <1>6

\* The handler does not notice.
LEMMA ForeignBase == ASSUME FilesInv, Foreign PROVE FilesInv'
<1>1. PICK path \in Paths \ {<<>>}, node \in Nodes, inPlace \in BOOLEAN : Apart(path, node, inPlace)
  BY ForeignIs
<1>2. /\ tree' \in Trees /\ WellFormed(tree') /\ Node(tree', path) = node
      /\ \A other : other # path => Node(tree', other) = Node(tree, other)
      /\ IsWitness(witness') /\ IsHandle(handle') /\ handle'.open = handle.open
      /\ handle' = IF inPlace THEN handle ELSE Adjusted(tree, handle, path)
      /\ handle'.at = IF handle.open /\ handle.at = path /\ ~inPlace THEN NoPath ELSE handle.at
      /\ UNCHANGED <<pc, request, answer, filePath, content, done, entries, read, served>>
  BY <1>1, ApartIs
<1>3. changed' \in 0..MaxChanges
  BY <1>1, FilesAssumption DEF Apart, Change, FilesInv, TypeOK
<1>4. pc \notin Open => handle' = Closed
  <2> SUFFICES ASSUME pc \notin Open PROVE handle' = Closed
    OBVIOUS
  <2>1. handle = Closed /\ ~handle.open /\ IsHandle(handle)
    BY DEF FilesInv, HandleInv, Closed
  <2>2. Adjusted(tree, handle, path) = handle
    BY <2>1, AdjustedIs DEF FilesInv, TypeOK, Trees
  <2> QED
    BY <1>2, <2>1, <2>2
<1>5. TypeOK'
  <2> HIDE DEF RequestType
  <2> QED
    BY <1>2, <1>3, <1>4 DEF FilesInv, TypeOK, WellFormed, IsDirectory, Exists, Node, Trees, Open
<1>6. StepInv' /\ LocalsInv'
  BY <1>2 DEF FilesInv, StepInv, Steps, LocalsInv, Storing, TextOf
<1>7. HandleInv'
  <2>1. ASSUME pc \in {"read", "write", "close"}, handle'.at # NoPath
        PROVE  handle'.at = filePath /\ IsFile(tree', filePath)
    <3>1. handle.open /\ handle'.at = handle.at /\ handle.at = filePath /\ IsFile(tree, filePath)
      BY <1>2, <2>1 DEF FilesInv, HandleInv, Open
    <3>2. CASE filePath = path
      <4>1. inPlace /\ node.kind = "file"
        BY <1>1, <1>2, <2>1, <3>1, <3>2 DEF Apart
      <4> QED
        BY <1>2, <3>1, <3>2, <4>1 DEF IsFile
    <3>3. CASE filePath # path
      BY <1>2, <3>1, <3>3 DEF IsFile
    <3> QED
      BY <3>2, <3>3
  <2>2. pc = "readdir" /\ handle'.at # NoPath => handle'.at = request.path
    BY <1>2 DEF FilesInv, HandleInv, Open
  <2>3. pc \in Open => handle'.open
    BY <1>2 DEF FilesInv, HandleInv
  <2> QED
    BY <1>2, <1>4, <2>1, <2>2, <2>3 DEF HandleInv, Open, IsHandle, IsFile, Node
<1> QED
  BY <1>2, <1>5, <1>6, <1>7 DEF FilesInv, IsWitness

-----------------------------------------------------------------------------
(***************************************************************************)
(* The tree, the handle and the locals at every step                       *)
(***************************************************************************)
LEMMA InitBase == ASSUME FilesInit PROVE FilesInv
<1>1. /\ tree \in Trees /\ WellFormed(tree) /\ pc = "idle" /\ request = NoRequest
      /\ filePath = <<>> /\ handle = Closed /\ content = <<>> /\ done = 0
      /\ entries = {} /\ read = {} /\ served = 0 /\ changed = 0
      /\ witness = WitnessFrom(tree, NoRequest)
  BY FilesAssumption DEF FilesInit, Trees
<1>2. TypeOK
  <2> HIDE DEF RequestType
  <2> QED
    BY <1>1, EmptySeq, FilesAssumption DEF TypeOK, Trees
<1>3. IsHandle(handle) /\ IsWitness(witness)
  BY <1>1, EmptySeq DEF IsHandle, Closed, IsWitness, WitnessFrom
<1> QED
  BY <1>1, <1>2, <1>3 DEF FilesInv, StepInv, Steps, LocalsInv, Storing, HandleInv, Open

\* Every step of a handler or of another process keeps it.
LEMMA BaseStep == ASSUME FilesInv, [FilesNext]_vars PROVE FilesInv'
<1>1. CASE \E r \in Requests : Accept(r)
  BY <1>1, AcceptBase, FilesAssumption
<1>2. CASE UNCHANGED vars
  <2>1. UNCHANGED <<tree, pc, request, answer, filePath, handle, content, done, entries, read,
                    served, changed, witness, kept>>
    BY <1>2 DEF vars, local
  <2> HIDE DEF RequestType
  <2>2. TypeOK'
    BY <2>1 DEF FilesInv, TypeOK, WellFormed, IsDirectory, Exists, Node
  <2> QED
    BY <2>1, <2>2 DEF FilesInv, StepInv, LocalsInv, HandleInv, IsHandle, IsFile, Node, IsWitness, TextOf
<1> QED
  BY <1>1, <1>2, GetBase, DeleteBase, PostBase, ForeignBase DEF FilesNext

-----------------------------------------------------------------------------
(***************************************************************************)
(* What becomes of an upload. Its file is untouched until it is opened,    *)
(* and then holds what was written so far, unless others changed it too.   *)
(***************************************************************************)
BeforeInv ==
    pc \in {"directory", "mkdir", "create"} /\ filePath \notin witness.touched
    => Node(tree, filePath) = witness.before

WritingInv ==
    pc \in {"write", "close"}
    => /\ filePath \notin witness.touched
          => handle.at = filePath /\ Node(tree, filePath) = File(Begun(content, done))
       /\ \A k \in kept : k.path # filePath

UploadInv == BeforeInv /\ WritingInv /\ AcknowledgedIsKept /\ FailedUploadIsPrefix

\* The handlers of GET only look, and so does a DELETE that fails.
LEMMA OnlyLooks ==
    ASSUME FilesInv, Get \/ CannotRemove
    PROVE  /\ UNCHANGED <<tree, kept, request, served, changed>>
           /\ request.method \in {"GET", "DELETE"} /\ pc' \notin Storing \cup {"prepare"}
<1>1. pc \in {"exists", "kind", "index", "indexKind", "open", "read", "opendir", "readdir", "remove"}
  BY DEF Get, NotFound, Found, KindIsDirectory, KindIsOther, IndexExists, NextIndex, IndexFound, NoIndex,
         OpenForReading, CannotRead, ReadBlock, ReadEnds, OpenDirectory, CannotOpenDirectory,
         EndOfDirectory, ReadEntry, ReadGone, CannotRemove,
         NotSeen, KindNotSeen, IndexNotSeen, EntryNotSeen, ScanFails
<1>2. request.method \in {"GET", "DELETE"}
  BY <1>1 DEF FilesInv, StepInv
<1>3. \A a : Conclude(a) => UNCHANGED <<tree, kept, request, served, changed>> /\ pc' = "idle"
  BY DEF Conclude, Answer
<1>4. \A call, a : FailWith(call, a) => UNCHANGED <<tree, kept, request, served, changed>> /\ pc' = "idle"
  BY DEF FailWith, Answer
<1>5. CASE NotFound \/ ReadEnds \/ EndOfDirectory
  BY <1>2, <1>3, <1>5 DEF NotFound, ReadEnds, EndOfDirectory, Storing
<1>6. CASE NotSeen \/ CannotRead \/ CannotOpenDirectory \/ ScanFails \/ CannotRemove
  BY <1>2, <1>4, <1>6 DEF NotSeen, CannotRead, CannotOpenDirectory, ScanFails, CannotRemove, Storing
<1>7. CASE KindIsDirectory
  <2>1. CASE request.method = "DELETE"
    BY <1>2, <1>3, <1>7, <2>1 DEF KindIsDirectory, Storing
  <2>2. CASE request.method = "GET" /\ ~request.slash
    BY <1>2, <1>3, <1>7, <2>2 DEF KindIsDirectory, Storing
  <2>3. CASE request.method = "GET" /\ request.slash
    BY <1>2, <1>7, <2>3 DEF KindIsDirectory, Storing, Go
  <2>4. request.slash \/ ~request.slash
    OBVIOUS
  <2> QED
    BY <1>2, <2>1, <2>2, <2>3, <2>4
<1>8. CASE NoIndex
  <2>1. \/ Conclude(Status(404))
        \/ Go("opendir") /\ UNCHANGED <<tree, local, witness, kept>>
    BY <1>8 DEF NoIndex
  <2> QED
    BY <1>2, <1>3, <2>1 DEF Go, Storing
<1>9. CASE Found \/ KindIsOther \/ IndexExists \/ NextIndex \/ IndexFound \/ OpenForReading
            \/ ReadBlock \/ OpenDirectory
  BY <1>2, <1>9 DEF Found, KindIsOther, IndexExists, NextIndex, IndexFound, OpenForReading, ReadBlock,
                    OpenDirectory, Go, Storing
<1>10. CASE \E name \in Names : ReadEntry(name) \/ ReadGone(name)
  BY <1>2, <1>10 DEF ReadEntry, ReadGone, Go, Storing
<1>11. CASE KindNotSeen \/ IndexNotSeen \/ \E name \in Names : EntryNotSeen(name)
  BY <1>2, <1>11 DEF KindNotSeen, IndexNotSeen, EntryNotSeen, Go, Storing
<1> QED
  BY <1>5, <1>6, <1>7, <1>8, <1>9, <1>10, <1>11 DEF Get

\* Nothing becomes of it where the tree stays as it is and no upload fails.
LEMMA UploadQuiet ==
    ASSUME UploadInv, pc' \notin Storing, UNCHANGED <<tree, kept>>,
           ~(Answered({"POST"}) /\ answer.status = 500)'
    PROVE  UploadInv'
<1>1. BeforeInv' /\ WritingInv'
  BY DEF BeforeInv, WritingInv, Storing
<1>2. AcknowledgedIsKept'
  BY DEF UploadInv, AcknowledgedIsKept, Node, Left
<1>3. FailedUploadIsPrefix'
  BY DEF FailedUploadIsPrefix
<1> QED
  BY <1>1, <1>2, <1>3 DEF UploadInv

\* Looking changes nothing about uploads.
LEMMA LookUpload == ASSUME FilesInv, UploadInv, Get \/ CannotRemove PROVE UploadInv'
<1>1. /\ UNCHANGED <<tree, kept, request>> /\ request.method # "POST" /\ pc' \notin Storing
  BY OnlyLooks
<1>2. ~Answered({"POST"})'
  BY <1>1 DEF Answered
<1> QED
  BY <1>1, <1>2, UploadQuiet

\* Nor does a new request.
LEMMA AcceptUpload == ASSUME UploadInv, NEW r \in RequestType, Accept(r) PROVE UploadInv'
<1>1. UNCHANGED <<tree, kept>> /\ answer' = Status(0) /\ pc' \in {"prepare", "exists"}
  BY DEF Accept
<1>2. pc' \notin Storing /\ ~Answered({"POST"})'
  BY <1>1 DEF Storing, Answered
<1> QED
  BY <1>1, <1>2, UploadQuiet

\* A file that is removed is kept no longer.
LEMMA RemoveUpload == ASSUME FilesInv, UploadInv, RemoveTarget PROVE UploadInv'
<1>1. /\ Removable(tree, request.path) /\ tree' = With(tree, request.path, Nothing)
      /\ kept' = {k \in kept : k.path # request.path} /\ pc' = "idle" /\ answer' = Status(204)
  BY DEF RemoveTarget, Answer
<1>2. tree \in Trees /\ request.path \in Paths /\ Nothing \in Nodes
  <2>1. tree \in Trees
    BY DEF FilesInv, TypeOK, Trees
  <2> QED
    BY <1>1, <2>1, NodeIs, EmptySeq DEF Removable, Nothing, Nodes
<1>3. \A other : other # request.path => Node(tree', other) = Node(tree, other)
  BY <1>1, <1>2, WithIs
<1>4. AcknowledgedIsKept'
  BY <1>1, <1>3 DEF UploadInv, AcknowledgedIsKept, Left
<1>5. answer'.status # 500
  BY <1>1 DEF Status
<1> QED
  BY <1>1, <1>4, <1>5 DEF UploadInv, BeforeInv, WritingInv, FailedUploadIsPrefix

\* The steps before the file is opened.
LEMMA PrepareUpload ==
    ASSUME FilesInv, UploadInv,
           \/ NothingToStore \/ NowhereToStore \/ NoFilePart
           \/ NamedFile \/ \E name \in GeneratedNames : GeneratedFile(name)
    PROVE  UploadInv'
<1>1. CASE NothingToStore \/ NowhereToStore \/ NoFilePart
  <2>1. UNCHANGED <<tree, kept>> /\ pc' = "idle" /\ answer' \in {Status(200), Status(403), Status(400)}
    BY <1>1 DEF NothingToStore, NowhereToStore, NoFilePart, Conclude, Answer
  <2>2. answer'.status # 500 /\ pc' \notin Storing
    BY <2>1 DEF Status, Storing
  <2> QED
    BY <2>1, <2>2, UploadQuiet
<1>2. CASE NamedFile \/ \E name \in GeneratedNames : GeneratedFile(name)
  <2>1. PICK path, text : Prepared(path, text)
    BY <1>2 DEF NamedFile, GeneratedFile
  <2>2. /\ filePath' = path /\ pc' = "directory" /\ UNCHANGED <<tree, kept>>
        /\ witness' = [witness EXCEPT !.before = Node(tree, path)]
    BY <2>1 DEF Prepared, Go
  <2>3. witness'.before = Node(tree, path)
    BY <2>2, BeforeIs DEF FilesInv
  <2>4. BeforeInv'
    BY <2>2, <2>3 DEF BeforeInv, Node
  <2>5. WritingInv' /\ FailedUploadIsPrefix'
    BY <2>2 DEF WritingInv, FailedUploadIsPrefix, Answered
  <2>6. AcknowledgedIsKept'
    BY <2>2 DEF UploadInv, AcknowledgedIsKept, Node, Left
  <2> QED
    BY <2>4, <2>5, <2>6 DEF UploadInv
<1> QED
  BY <1>1, <1>2

\* Making the directory of a file leaves the file what it was.
LEMMA DirectoryUpload ==
    ASSUME FilesInv, UploadInv, DirectoryThere \/ DirectoryMissing \/ MakeDirectory
    PROVE  UploadInv'
<1>1. /\ pc \in {"directory", "mkdir"} /\ pc' \in {"create", "mkdir"}
      /\ UNCHANGED <<filePath, witness, kept>>
  BY DEF DirectoryThere, DirectoryMissing, MakeDirectory, Go, local
<1>2. \A path : path = filePath \/ Exists(tree, path) => Node(tree', path) = Node(tree, path)
  <2>1. CASE tree' = tree
    BY <2>1 DEF Node
  <2>2. CASE tree' # tree
    <3>1. Vacant(tree, Parent(filePath)) /\ tree' = With(tree, Parent(filePath), Directory)
      BY <2>2 DEF DirectoryThere, DirectoryMissing, MakeDirectory
    <3>2. Directory \in Nodes /\ tree \in Trees
      BY EmptySeq DEF Directory, Nodes, FilesInv, TypeOK, Trees
    <3>3. Parent(filePath) \in Paths /\ ~Exists(tree, Parent(filePath)) /\ Parent(filePath) # filePath
      BY <1>1, <3>1 DEF Vacant, FilesInv, LocalsInv, Storing
    <3> QED
      BY <3>1, <3>2, <3>3, WithIs
  <2> QED
    BY <2>1, <2>2
<1>3. BeforeInv'
  BY <1>1, <1>2 DEF UploadInv, BeforeInv
<1>4. AcknowledgedIsKept'
  <2>1. ASSUME NEW k \in kept PROVE Node(tree', k.path) = File(Left(k.data, k.whole))
    <3>1. Node(tree, k.path) = File(Left(k.data, k.whole))
      BY DEF UploadInv, AcknowledgedIsKept
    <3>2. Exists(tree, k.path)
      BY <3>1 DEF Exists, File
    <3> QED
      BY <1>2, <3>1, <3>2
  <2> QED
    BY <1>1, <2>1 DEF AcknowledgedIsKept, Left
<1> QED
  BY <1>1, <1>3, <1>4 DEF UploadInv, WritingInv, FailedUploadIsPrefix, Answered

\* The file that is opened holds nothing, and is nobody's acknowledged upload now.
LEMMA OpenUpload == ASSUME FilesInv, UploadInv, OpenForWriting PROVE UploadInv'
<1>1. /\ pc = "create" /\ pc' = "write" /\ kept' = {k \in kept : k.path # filePath}
      /\ UNCHANGED <<filePath, content, done, witness>>
  BY DEF OpenForWriting, Go
<1>2. /\ handle'.at = filePath
      /\ \A other : Node(tree', other) = IF other = filePath THEN File(<<>>) ELSE Node(tree, other)
  BY OpenForWritingBase
<1>3. done = 0 /\ content \in Seq(STRING)
  BY <1>1 DEF FilesInv, LocalsInv, TypeOK
<1>4. Begun(content, done) = <<>>
  BY <1>3, BegunIs, LenProperties
<1>5. WritingInv'
  BY <1>1, <1>2, <1>4 DEF WritingInv, Begun
<1>6. AcknowledgedIsKept'
  BY <1>1, <1>2 DEF UploadInv, AcknowledgedIsKept, Left
<1> QED
  BY <1>1, <1>5, <1>6 DEF UploadInv, BeforeInv, FailedUploadIsPrefix, Answered

\* While the text is written the file holds the beginning of it.
LEMMA WriteUpload == ASSUME FilesInv, UploadInv, WriteBlock \/ BufferBlock PROVE UploadInv'
<1>0. content \in Seq(STRING) /\ done \in Nat /\ Len(content) \in Nat
  BY LenProperties DEF FilesInv, TypeOK
<1>1. CASE WriteBlock
  <2>1. /\ pc = "write" /\ pc' = "write" /\ done < Len(content) /\ done' = done + 1
        /\ Stored(<<content[done + 1]>>) /\ UNCHANGED <<filePath, content, witness, kept>>
    BY <1>1 DEF WriteBlock, Go
  <2>2. \A k \in kept : k.path # filePath
    BY <2>1 DEF UploadInv, WritingInv
  <2>3. \A other : other # filePath => Node(tree', other) = Node(tree, other)
    <3>1. CASE Unnamed(handle)
      BY <2>1, <3>1 DEF Stored, Node
    <3>2. CASE ~Unnamed(handle)
      <4>1. tree' = With(tree, handle.at, File(Written(tree[handle.at].data, done, <<content[done + 1]>>)))
        BY <2>1, <3>2 DEF Stored
      <4> QED
        BY <2>1, <3>2, <4>1, BlockIs
    <3> QED
      BY <3>1, <3>2
  <2>4. ASSUME filePath \notin witness.touched
        PROVE  handle'.at = filePath /\ Node(tree', filePath) = File(Begun(content, done + 1))
    <3>1. handle.at = filePath /\ Node(tree, filePath) = File(Begun(content, done))
      BY <2>1, <2>4 DEF UploadInv, WritingInv
    <3>2. ~Unnamed(handle)
      <4>1. filePath \in Paths
        BY <3>1 DEF Node, Nothing, File
      <4> QED
        BY <3>1, <4>1, PathsAssumption DEF Unnamed
    <3>3. /\ tree' = With(tree, handle.at, File(Written(tree[handle.at].data, done, <<content[done + 1]>>)))
          /\ handle' = handle
      BY <2>1, <3>2 DEF Stored
    <3>4. Node(tree', filePath) = File(Written(Node(tree, filePath).data, done, <<content[done + 1]>>))
      BY <2>1, <3>2, <3>3, BlockIs
    <3>5. Node(tree, filePath).data = Begun(content, done)
      BY <3>1 DEF File
    <3>6. done \in 0..(Len(content) - 1)
      BY <1>0, <2>1
    <3>7. Written(Begun(content, done), done, <<content[done + 1]>>) = Begun(content, done + 1)
      BY <1>0, <3>6, WrittenNext
    <3> QED
      BY <3>1, <3>3, <3>4, <3>5, <3>7
  <2>5. WritingInv'
    BY <2>1, <2>2, <2>4 DEF WritingInv, Begun
  <2>6. AcknowledgedIsKept'
    BY <2>1, <2>2, <2>3 DEF UploadInv, AcknowledgedIsKept, Left
  <2> QED
    BY <2>1, <2>5, <2>6 DEF UploadInv, BeforeInv, FailedUploadIsPrefix, Answered
<1>2. CASE BufferBlock
  <2>1. pc = "write" /\ pc' = "close" /\ UNCHANGED <<tree, local, witness, kept>>
    BY <1>2 DEF BufferBlock, Go
  <2>2. WritingInv'
    BY <2>1 DEF UploadInv, WritingInv, local, Begun, Node
  <2>3. AcknowledgedIsKept'
    BY <2>1 DEF UploadInv, AcknowledgedIsKept, Node, Left
  <2> QED
    BY <2>1, <2>2, <2>3 DEF UploadInv, BeforeInv, FailedUploadIsPrefix, Answered
<1> QED
  BY <1>1, <1>2

\* An upload that fails has not touched its file or has written the beginning.
LEMMA FailUpload ==
    ASSUME FilesInv, UploadInv, CannotMakeDirectory \/ CannotCreate \/ CannotWrite
    PROVE  UploadInv'
<1>1. PICK call, a : FailWith(call, a)
  BY DEF CannotMakeDirectory, CannotCreate, CannotWrite
<1>2. /\ pc \in {"mkdir", "create", "write"}
      /\ pc = "write" => done < Len(content)
      /\ pc' = "idle" /\ answer' = a /\ UNCHANGED <<tree, kept, request, filePath>>
      /\ witness' = [witness EXCEPT !.failed = call]
  BY <1>1 DEF CannotMakeDirectory, CannotCreate, CannotWrite, FailWith, Answer
<1>3. witness'.before = witness.before /\ witness'.touched = witness.touched
  BY <1>2, FailedIs DEF FilesInv
<1>4. FailedUploadIsPrefix'
  <2> SUFFICES ASSUME a.status = 500, filePath \notin witness.touched
               PROVE  \/ Node(tree, filePath) = witness.before
                      \/ \E n \in 0..(Len(TextOf(request)) - 1) :
                           Node(tree, filePath) = File(SubSeq(TextOf(request), 1, n))
    BY <1>2, <1>3 DEF FailedUploadIsPrefix, Answered, TextOf, Node
  <2>1. CASE pc \in {"mkdir", "create"}
    BY <2>1 DEF UploadInv, BeforeInv
  <2>2. CASE pc = "write"
    <3>1. Node(tree, filePath) = File(Begun(content, done)) /\ content = TextOf(request)
      BY <2>2 DEF UploadInv, WritingInv, FilesInv, LocalsInv, Storing
    <3>2. done \in 0..(Len(content) - 1)
      <4>1. content \in Seq(STRING) /\ done \in Nat
        BY DEF FilesInv, TypeOK
      <4>2. Len(content) \in Nat /\ done < Len(content)
        BY <1>2, <2>2, <4>1, LenProperties
      <4> QED
        BY <4>1, <4>2
    <3> QED
      BY <3>1, <3>2 DEF Begun
  <2> QED
    BY <1>2, <2>1, <2>2
<1>5. AcknowledgedIsKept'
  BY <1>2 DEF UploadInv, AcknowledgedIsKept, Node, Left
<1> QED
  BY <1>2, <1>4, <1>5 DEF UploadInv, BeforeInv, WritingInv

\* An upload that is acknowledged is all there, or was not closed.
LEMMA AcknowledgeUpload ==
    ASSUME FilesInv, UploadInv, Saved \/ CloseStores \/ CloseLoses
    PROVE  UploadInv'
<1>0. content \in Seq(STRING) /\ done \in Nat /\ Len(content) \in Nat
  BY LenProperties DEF FilesInv, TypeOK
<1>1. /\ pc \in {"write", "close"} /\ pc' = "idle" /\ answer' = Status(201)
      /\ \E whole \in BOOLEAN :
           /\ kept' = IF filePath \in witness.touched THEN kept
                      ELSE kept \cup {[path |-> filePath, data |-> content, whole |-> whole]}
           /\ IF whole THEN Saved \/ CloseStores ELSE CloseLoses
  BY DEF Saved, CloseStores, CloseLoses, Acknowledge, Answer
<1>6. PICK whole \in BOOLEAN :
        /\ kept' = IF filePath \in witness.touched THEN kept
                   ELSE kept \cup {[path |-> filePath, data |-> content, whole |-> whole]}
        /\ IF whole THEN Saved \/ CloseStores ELSE CloseLoses
  BY <1>1
<1>2. \A k \in kept : k.path # filePath
  BY <1>1 DEF UploadInv, WritingInv
<1>3. /\ \A other : other # filePath => Node(tree', other) = Node(tree, other)
      /\ filePath \notin witness.touched => Node(tree', filePath) = File(Left(content, whole))
  <2>1. ASSUME filePath \notin witness.touched
        PROVE  /\ Node(tree, filePath) = File(Begun(content, done)) /\ handle.at = filePath
               /\ ~Unnamed(handle)
    <3>1. handle.at = filePath /\ Node(tree, filePath) = File(Begun(content, done))
      BY <1>1, <2>1 DEF UploadInv, WritingInv
    <3>2. filePath \in Paths
      BY <3>1 DEF Node, Nothing, File
    <3> QED
      BY <3>1, <3>2, PathsAssumption DEF Unnamed
  <2>2. CASE whole /\ Saved
    <3>1. tree' = tree /\ done = Len(content)
      BY <2>2 DEF Saved, EverythingGiven
    <3>2. Begun(content, done) = content
      BY <1>0, <3>1, BegunIs
    <3> QED
      BY <2>1, <2>2, <3>1, <3>2 DEF Node, Left
  <2>3. CASE whole /\ CloseStores /\ Unnamed(handle)
    <3>1. tree' = tree
      BY <2>3 DEF CloseStores
    <3> QED
      BY <2>1, <2>3, <3>1 DEF Node
  <2>4. CASE whole /\ CloseStores /\ ~Unnamed(handle)
    <3>1. /\ pc = "close"
          /\ tree' = With(tree, handle.at, File(Written(tree[handle.at].data, done, <<content[done + 1]>>)))
      BY <2>4 DEF CloseStores
    <3>2. done + 1 = Len(content)
      BY <3>1 DEF FilesInv, LocalsInv
    <3>3. done < Len(content) /\ done \in 0..(Len(content) - 1)
      BY <1>0, <3>2
    <3>4. /\ \A other : other # filePath => Node(tree', other) = Node(tree, other)
          /\ Node(tree', filePath) = File(Written(Node(tree, filePath).data, done, <<content[done + 1]>>))
      BY <2>4, <3>1, <3>3, BlockIs
    <3>5. ASSUME filePath \notin witness.touched PROVE Node(tree', filePath) = File(content)
      <4>1. Node(tree, filePath).data = Begun(content, done)
        BY <2>1, <3>5 DEF File
      <4>2. Written(Begun(content, done), done, <<content[done + 1]>>) = Begun(content, done + 1)
        BY <1>0, <3>3, WrittenNext
      <4>3. Begun(content, done + 1) = content
        BY <1>0, <3>2, BegunIs
      <4> QED
        BY <3>4, <4>1, <4>2, <4>3
    <3> QED
      BY <2>4, <3>4, <3>5 DEF Left
  <2>5. CASE ~whole
    <3>1. pc = "close" /\ tree' = tree
      BY <1>6, <2>5 DEF CloseLoses
    <3>2. done + 1 = Len(content)
      BY <3>1 DEF FilesInv, LocalsInv
    <3>3. done = Len(content) - 1
      BY <1>0, <3>2
    <3> QED
      BY <2>1, <2>5, <3>1, <3>3 DEF Left, Begun, Node
  <2> QED
    BY <1>6, <2>2, <2>3, <2>4, <2>5
<1>4. AcknowledgedIsKept'
  <2>1. ASSUME NEW k \in kept' PROVE Node(tree', k.path) = File(Left(k.data, k.whole))
    <3>1. CASE k \in kept
      BY <1>2, <1>3, <3>1 DEF UploadInv, AcknowledgedIsKept
    <3>2. CASE k \notin kept
      <4>1. filePath \notin witness.touched /\ k = [path |-> filePath, data |-> content, whole |-> whole]
        BY <1>6, <2>1, <3>2
      <4>2. k.path = filePath /\ k.data = content /\ k.whole = whole
        BY <4>1
      <4> QED
        BY <1>3, <4>1, <4>2
    <3> QED
      BY <3>1, <3>2
  <2> QED
    BY <2>1 DEF AcknowledgedIsKept, Left
<1>5. answer'.status # 500
  BY <1>1 DEF Status
<1> QED
  BY <1>1, <1>4, <1>5 DEF UploadInv, BeforeInv, WritingInv, FailedUploadIsPrefix

\* What others change is touched, and no longer kept.
LEMMA ForeignUpload == ASSUME FilesInv, UploadInv, Foreign PROVE UploadInv'
<1>1. PICK path \in Paths \ {<<>>}, node \in Nodes, inPlace \in BOOLEAN : Apart(path, node, inPlace)
  BY ForeignIs
<1>2. /\ \A other : other # path => Node(tree', other) = Node(tree, other)
      /\ witness' = Seen(tree', path, inPlace) /\ kept' = {k \in kept : k.path # path}
      /\ handle'.at = IF handle.open /\ handle.at = path /\ ~inPlace THEN NoPath ELSE handle.at
      /\ UNCHANGED <<pc, request, answer, filePath, content, done>>
  BY <1>1, ApartIs
<1>3. witness'.touched = witness.touched \cup {path} /\ witness'.before = witness.before
  <2> DEFINE t == tree'
  <2> HIDE DEF t
  <2>1. witness' = Seen(t, path, inPlace) /\ IsWitness(witness)
    BY <1>2 DEF t, FilesInv
  <2> QED
    BY <2>1, SeenIs
<1>4. filePath \notin witness'.touched
      => /\ filePath # path /\ filePath \notin witness.touched
         /\ Node(tree', filePath) = Node(tree, filePath)
  BY <1>2, <1>3
<1>5. BeforeInv'
  BY <1>2, <1>3, <1>4 DEF UploadInv, BeforeInv
<1>6. WritingInv'
  <2>1. ASSUME pc \in {"write", "close"}, filePath \notin witness'.touched
        PROVE  handle'.at = filePath /\ Node(tree', filePath) = File(Begun(content, done))
    <3>1. handle.at = filePath /\ Node(tree, filePath) = File(Begun(content, done))
      BY <1>4, <2>1 DEF UploadInv, WritingInv
    <3> QED
      BY <1>2, <1>4, <2>1, <3>1
  <2> QED
    BY <1>2, <2>1 DEF UploadInv, WritingInv, Begun
<1>7. AcknowledgedIsKept'
  BY <1>2 DEF UploadInv, AcknowledgedIsKept, Left
<1>8. FailedUploadIsPrefix'
  BY <1>2, <1>3, <1>4 DEF UploadInv, FailedUploadIsPrefix, Answered, TextOf
<1> QED
  BY <1>5, <1>6, <1>7, <1>8 DEF UploadInv

\* Every step keeps it.
LEMMA UploadStep == ASSUME FilesInv, UploadInv, [FilesNext]_vars PROVE UploadInv'
<1>1. CASE \E r \in Requests : Accept(r)
  BY <1>1, AcceptUpload, FilesAssumption
<1>2. CASE UNCHANGED vars
  BY <1>2 DEF vars, local, UploadInv, BeforeInv, WritingInv, AcknowledgedIsKept, FailedUploadIsPrefix,
              Answered, TextOf, Node, Begun, Left
<1> QED
  BY <1>1, <1>2, LookUpload, RemoveUpload, PrepareUpload, DirectoryUpload, OpenUpload, WriteUpload,
     FailUpload, AcknowledgeUpload, ForeignUpload DEF FilesNext, Delete, Post

\* Nothing is stored at first.
LEMMA InitUpload == FilesInit => UploadInv
BY DEF FilesInit, UploadInv, BeforeInv, WritingInv, AcknowledgedIsKept, FailedUploadIsPrefix,
       Answered, Status

-----------------------------------------------------------------------------
(***************************************************************************)
(* What the answer of an upload says: 400 that a multipart body has no     *)
(* file to store, and 201 that the upload is kept, whole unless the close  *)
(* failed, which is the last call that a request makes                     *)
(***************************************************************************)
Outcome ==
    Answered({"POST"})
    => /\ answer.status = 400 => request.multipart /\ (~Part.isValid \/ Part.content = <<>>)
       /\ answer.status = 201 /\ filePath \notin witness.touched
          => [path |-> filePath, data |-> TextOf(request), whole |-> witness.failed # "close"] \in kept

ClosesLast == pc # "idle" => witness.failed # "close"

OutcomeInv == Outcome /\ ClosesLast

\* A new request is not answered.
LEMMA AcceptOutcome == ASSUME NEW r, Accept(r) PROVE OutcomeInv'
BY DEF Accept, WitnessFrom, OutcomeInv, Outcome, ClosesLast, Answered, Status

\* The answers of an upload that is not stored.
LEMMA RefuseOutcome ==
    ASSUME NothingToStore \/ NowhereToStore \/ NoFilePart
    PROVE  OutcomeInv'
<1>1. /\ answer' \in {Status(200), Status(403), Status(400)} /\ request' = request /\ pc' = "idle"
      /\ answer' = Status(400) => request.multipart /\ (~Part.isValid \/ Part.content = <<>>)
  BY DEF NothingToStore, NowhereToStore, NoFilePart, Conclude, Answer, Status
<1>2. Part' = Part
  BY <1>1 DEF Part
<1>3. answer'.status # 201 /\ (answer'.status = 400 => answer' = Status(400))
  BY <1>1 DEF Status
<1> QED
  BY <1>1, <1>2, <1>3 DEF OutcomeInv, Outcome, ClosesLast

\* The answers of an upload a call of which failed.
LEMMA FailOutcome ==
    ASSUME CannotMakeDirectory \/ CannotCreate \/ CannotWrite
    PROVE  OutcomeInv'
<1>1. pc' = "idle" /\ answer' = Status(500)
  BY DEF CannotMakeDirectory, CannotCreate, CannotWrite, FailWith, Answer
<1>2. answer'.status \notin {400, 201}
  BY <1>1 DEF Status
<1> QED
  BY <1>1, <1>2 DEF OutcomeInv, Outcome, ClosesLast

\* An upload that is acknowledged is kept.
LEMMA AcknowledgeOutcome ==
    ASSUME FilesInv, OutcomeInv, Saved \/ CloseStores \/ CloseLoses
    PROVE  OutcomeInv'
<1>1. PICK whole \in BOOLEAN :
        /\ Acknowledge(whole)
        /\ witness' = IF whole THEN witness ELSE [witness EXCEPT !.failed = "close"]
  BY DEF Saved, CloseStores, CloseLoses
<1>2. /\ pc \in {"write", "close"} /\ pc' = "idle" /\ answer' = Status(201)
      /\ UNCHANGED <<request, filePath>>
      /\ kept' = IF filePath \in witness.touched THEN kept
                 ELSE kept \cup {[path |-> filePath, data |-> content, whole |-> whole]}
  BY <1>1 DEF Saved, CloseStores, CloseLoses, Acknowledge, Answer
<1>3. witness'.touched = witness.touched /\ (whole <=> witness'.failed # "close")
  <2>1. CASE whole
    BY <1>1, <1>2, <2>1 DEF OutcomeInv, ClosesLast
  <2>2. CASE ~whole
    BY <1>1, <2>2, FailedIs DEF FilesInv
  <2> QED
    BY <2>1, <2>2
<1>4. content = TextOf(request)
  BY <1>2 DEF FilesInv, LocalsInv, Storing
<1>5. TextOf(request)' = TextOf(request)
  BY <1>2 DEF TextOf
<1>6. answer'.status # 400
  BY <1>2 DEF Status
<1>7. filePath' \notin witness'.touched
      => [path |-> filePath, data |-> TextOf(request), whole |-> witness.failed # "close"]' \in kept'
  <2>1. whole = (witness'.failed # "close")
    BY <1>3
  <2> QED
    BY <1>2, <1>3, <1>4, <1>5, <2>1
<1> QED
  BY <1>2, <1>6, <1>7 DEF OutcomeInv, Outcome, ClosesLast

\* What others change is touched.
LEMMA ForeignOutcome == ASSUME FilesInv, OutcomeInv, Foreign PROVE OutcomeInv'
<1>1. PICK path \in Paths \ {<<>>}, node \in Nodes, inPlace \in BOOLEAN : Apart(path, node, inPlace)
  BY ForeignIs
<1>2. /\ witness' = Seen(tree', path, inPlace) /\ kept' = {k \in kept : k.path # path}
      /\ UNCHANGED <<pc, request, answer, filePath>>
  BY <1>1, ApartIs
<1>3. witness'.touched = witness.touched \cup {path} /\ witness'.failed = witness.failed
  <2> DEFINE t == tree'
  <2> HIDE DEF t
  <2>1. witness' = Seen(t, path, inPlace) /\ IsWitness(witness)
    BY <1>2 DEF t, FilesInv
  <2> QED
    BY <2>1, SeenIs
<1>4. ClosesLast'
  BY <1>2, <1>3 DEF OutcomeInv, ClosesLast
<1> DEFINE k == [path |-> filePath, data |-> TextOf(request), whole |-> witness.failed # "close"]
<1> SUFFICES ASSUME Answered({"POST"})
             PROVE  /\ answer.status = 400 => request.multipart /\ (~Part.isValid \/ Part.content = <<>>)
                    /\ answer.status = 201 /\ filePath \notin witness'.touched => k \in kept'
  BY <1>2, <1>3, <1>4 DEF OutcomeInv, Outcome, Answered, Part, TextOf
<1>5. answer.status = 400 => request.multipart /\ (~Part.isValid \/ Part.content = <<>>)
  BY DEF OutcomeInv, Outcome
<1>6. ASSUME answer.status = 201, filePath \notin witness'.touched
      PROVE  k \in kept'
  <2>1. filePath # path /\ k \in kept /\ k.path = filePath
    BY <1>3, <1>6 DEF OutcomeInv, Outcome
  <2> HIDE DEF k
  <2> QED
    BY <1>2, <2>1
<1> QED
  BY <1>5, <1>6

\* A handler that goes on has not closed a file.
LEMMA GoesOn ==
    ASSUME FilesInv, OutcomeInv, pc # "idle", pc' # "idle",
           \/ UNCHANGED witness
           \/ \E noted \in {"stat", "entry"} : witness' = [witness EXCEPT !.failed = noted]
           \/ \E node : witness' = [witness EXCEPT !.before = node]
    PROVE  OutcomeInv'
<1>1. witness'.failed # "close"
  <2>1. witness.failed # "close"
    BY DEF OutcomeInv, ClosesLast
  <2>2. CASE \E noted \in {"stat", "entry"} : witness' = [witness EXCEPT !.failed = noted]
    BY <2>2, FailedIs DEF FilesInv
  <2>3. CASE \E node : witness' = [witness EXCEPT !.before = node]
    BY <2>1, <2>3, BeforeIs DEF FilesInv
  <2> QED
    BY <2>1, <2>2, <2>3
<1> QED
  BY <1>1 DEF OutcomeInv, Outcome, ClosesLast, Answered

\* Every step keeps it.
LEMMA OutcomeStep == ASSUME FilesInv, OutcomeInv, [FilesNext]_vars PROVE OutcomeInv'
<1>1. CASE (Get \/ Delete) /\ pc' = "idle"
  <2>1. request'.method # "POST"
    <3>1. CASE RemoveTarget
      BY <3>1 DEF RemoveTarget, Answer, FilesInv, StepInv
    <3>2. CASE Get \/ CannotRemove
      BY <3>2, OnlyLooks
    <3> QED
      BY <1>1, <3>1, <3>2 DEF Delete
  <2> QED
    BY <1>1, <2>1 DEF OutcomeInv, Outcome, ClosesLast, Answered
<1>2. CASE (Get \/ Delete) /\ pc' # "idle"
  <2>1. /\ pc # "idle"
        /\ \/ UNCHANGED witness
           \/ \E noted \in {"stat", "entry"} : witness' = [witness EXCEPT !.failed = noted]
    <3>1. \A a : ~Conclude(a)
      BY <1>2 DEF Conclude, Answer
    <3>2. \A call, a : ~FailWith(call, a)
      BY <1>2 DEF FailWith, Answer
    <3>3. \A a : ~Answer(a)
      BY <1>2 DEF Answer
    <3>4. CASE KindIsDirectory
      <4>1. request.method \in {"GET", "DELETE"}
        BY <3>4 DEF KindIsDirectory, FilesInv, StepInv
      <4>2. CASE request.method = "DELETE"
        BY <3>1, <3>4, <4>2 DEF KindIsDirectory
      <4>3. CASE request.method = "GET" /\ ~request.slash
        BY <3>1, <3>4, <4>3 DEF KindIsDirectory
      <4>4. CASE request.method = "GET" /\ request.slash
        BY <3>4, <4>4 DEF KindIsDirectory
      <4> QED
        BY <4>1, <4>2, <4>3, <4>4
    <3>5. CASE NoIndex
      BY <3>1, <3>5 DEF NoIndex
    <3>6. CASE \/ NotFound \/ NotSeen \/ ReadEnds \/ EndOfDirectory \/ ScanFails \/ CannotRead
               \/ CannotOpenDirectory \/ RemoveTarget \/ CannotRemove
      BY <3>1, <3>2, <3>3, <3>6 DEF NotFound, NotSeen, ReadEnds, EndOfDirectory, ScanFails, CannotRead,
                                    CannotOpenDirectory, RemoveTarget, CannotRemove
    <3>7. CASE \/ Found \/ KindIsOther \/ IndexExists \/ NextIndex \/ IndexFound \/ OpenForReading
               \/ ReadBlock \/ OpenDirectory
      BY <3>7 DEF Found, KindIsOther, IndexExists, NextIndex, IndexFound, OpenForReading, ReadBlock,
                  OpenDirectory
    <3>8. CASE \E name \in Names : ReadEntry(name) \/ ReadGone(name) \/ EntryNotSeen(name)
      BY <3>8 DEF ReadEntry, ReadGone, EntryNotSeen, StatFails
    <3>9. CASE KindNotSeen \/ IndexNotSeen
      BY <3>9 DEF KindNotSeen, IndexNotSeen, StatFails
    <3> QED
      BY <1>2, <3>4, <3>5, <3>6, <3>7, <3>8, <3>9 DEF Get, Delete
  <2> QED
    BY <1>2, <2>1, GoesOn
<1>3. CASE NamedFile \/ \E name \in GeneratedNames : GeneratedFile(name)
  <2>1. PICK path, text : pc = "prepare" /\ Prepared(path, text)
    BY <1>3 DEF NamedFile, GeneratedFile
  <2>2. pc = "prepare" /\ pc' = "directory" /\ \E node : witness' = [witness EXCEPT !.before = node]
    BY <2>1 DEF Prepared, Go
  <2> QED
    BY <2>2, GoesOn
<1>4. CASE \/ DirectoryThere \/ DirectoryMissing \/ MakeDirectory
           \/ OpenForWriting \/ WriteBlock \/ BufferBlock
  <2>1. pc # "idle" /\ pc' # "idle" /\ UNCHANGED witness
    BY <1>4 DEF DirectoryThere, DirectoryMissing, MakeDirectory, OpenForWriting, WriteBlock, BufferBlock, Go
  <2> QED
    BY <2>1, GoesOn
<1>5. CASE UNCHANGED vars
  BY <1>5 DEF vars, local, OutcomeInv, Outcome, ClosesLast, Answered, Part, TextOf
<1> QED
  BY <1>1, <1>2, <1>3, <1>4, <1>5, AcceptOutcome, RefuseOutcome, FailOutcome, AcknowledgeOutcome,
     ForeignOutcome DEF FilesNext, Post

\* Nothing is answered at first.
LEMMA InitOutcome == FilesInit => OutcomeInv
BY DEF FilesInit, OutcomeInv, Outcome, ClosesLast, Answered, Status

-----------------------------------------------------------------------------
(***************************************************************************)
(* A listing. While it is made, the witness has seen what the directory    *)
(* holds, and the handle still owes every name that was there throughout.  *)
(***************************************************************************)
Listing == {"exists", "kind", "index", "indexKind", "opendir", "readdir"}

DirectoryInv ==
    pc \in Listing
    => /\ EntriesOf(tree, request.path) \subseteq witness.shown
       /\ witness.throughout \subseteq NamesOf(EntriesOf(tree, request.path))

ScanInv ==
    pc = "readdir"
    => /\ entries \subseteq witness.shown
       /\ witness.throughout \subseteq handle.names
       /\ handle.gone \cap witness.throughout = {}
       /\ witness.failed \notin Omitting => witness.throughout \cap read \subseteq NamesOf(entries)

ListingInv == DirectoryInv /\ ScanInv /\ ListingIsFaithful

\* The answers' fields.
LEMMA AnswersAre ==
    /\ \A code : Status(code) = [status |-> code, page |-> "text", data |-> <<>>, entries |-> {}]
    /\ \A data : Served(data) = [status |-> 200, page |-> "file", data |-> data, entries |-> {}]
    /\ \A es : Listed(es) = [status |-> 200, page |-> "listing", data |-> <<>>, entries |-> es]
<1>1. \A code : Status(code) = [status |-> code, page |-> "text", data |-> <<>>, entries |-> {}]
  BY DEF Status
<1>2. ASSUME NEW data
      PROVE  Served(data) = [status |-> 200, page |-> "file", data |-> data, entries |-> {}]
  <2> DEFINE g == [Status(200) EXCEPT !.page = "file"]
  <2>1. g = [status |-> 200, page |-> "file", data |-> <<>>, entries |-> {}]
    BY DEF Status
  <2>2. Served(data) = [g EXCEPT !.data = data]
    BY DEF Served, Status
  <2> HIDE DEF g
  <2> QED
    BY <2>1, <2>2
<1>3. ASSUME NEW es
      PROVE  Listed(es) = [status |-> 200, page |-> "listing", data |-> <<>>, entries |-> es]
  <2> DEFINE g == [Status(200) EXCEPT !.page = "listing"]
  <2>1. g = [status |-> 200, page |-> "listing", data |-> <<>>, entries |-> {}]
    BY DEF Status
  <2>2. Listed(es) = [g EXCEPT !.entries = es]
    BY DEF Listed, Status
  <2> HIDE DEF g
  <2> QED
    BY <2>1, <2>2
<1> QED
  BY <1>1, <1>2, <1>3

\* The names in a directory.
LEMMA NamesAre ==
    ASSUME NEW t, NEW path, NEW name
    PROVE  name \in NamesOf(EntriesOf(t, path))
             <=> \E child \in Children(t, path) : Name(child) = name
<1> DEFINE entry(child) == [name |-> Name(child), kind |-> t[child].kind]
           es == EntriesOf(t, path)
<1>1. es = {entry(child) : child \in Children(t, path)}
  BY DEF EntriesOf
<1>2. \A child : entry(child).name = Name(child)
  OBVIOUS
<1>3. NamesOf(es) = {e.name : e \in es}
  BY DEF NamesOf
<1> HIDE DEF entry, es
<1>4. name \in NamesOf(es) <=> \E e \in es : e.name = name
  BY <1>3
<1>5. (\E e \in es : e.name = name) <=> \E child \in Children(t, path) : Name(child) = name
  BY <1>1, <1>2
<1> QED
  BY <1>4, <1>5 DEF es

\* What a change takes from the names in a directory.
LEMMA NamesStay ==
    ASSUME NEW t, NEW u, NEW path, NEW name \in NamesOf(EntriesOf(t, path)), NEW changedPath,
           \A other : other # changedPath => Node(u, other) = Node(t, other),
           Append(path, name) # changedPath \/ Exists(u, changedPath)
    PROVE  name \in NamesOf(EntriesOf(u, path))
<1>1. PICK child \in Children(t, path) : Name(child) = name
  BY NamesAre
<1>2. child \in Paths \ {<<>>} /\ Parent(child) = path /\ Exists(t, child)
  BY <1>1 DEF Children
<1>3. child = Append(path, name)
  BY <1>1, <1>2, PathOf
<1>4. Exists(u, child)
  BY <1>2, <1>3 DEF Exists
<1> QED
  BY <1>1, <1>2, <1>4, NamesAre DEF Children

\* The handlers of POST and DELETE do not list.
LEMMA OnlyStores ==
    ASSUME FilesInv, Delete \/ Post
    PROVE  UNCHANGED request /\ request.method # "GET" /\ pc' \notin Listing
<1>1. pc \in {"remove", "prepare"} \cup Storing
  BY DEF Storing, Delete, RemoveTarget, CannotRemove, Post, NothingToStore, NowhereToStore, NoFilePart,
         NamedFile, GeneratedFile, DirectoryThere, DirectoryMissing, MakeDirectory, CannotMakeDirectory,
         OpenForWriting, CannotCreate, WriteBlock, BufferBlock, CannotWrite, Saved, CloseStores, CloseLoses
<1>2. request.method # "GET"
  BY <1>1 DEF FilesInv, StepInv
<1>3. CASE RemoveTarget \/ CannotRemove \/ NothingToStore \/ NowhereToStore \/ NoFilePart
            \/ CannotMakeDirectory \/ CannotCreate \/ CannotWrite \/ Saved \/ CloseStores \/ CloseLoses
  <2>1. \E a : Answer(a)
    BY <1>3 DEF RemoveTarget, CannotRemove, NothingToStore, NowhereToStore, NoFilePart,
                CannotMakeDirectory, CannotCreate, CannotWrite, Saved, CloseStores, CloseLoses,
                Conclude, FailWith, Acknowledge
  <2> QED
    BY <1>2, <2>1 DEF Answer, Listing
<1>4. CASE NamedFile \/ \E name \in GeneratedNames : GeneratedFile(name)
  BY <1>2, <1>4 DEF NamedFile, GeneratedFile, Prepared, Go, Listing
<1>5. CASE DirectoryThere \/ DirectoryMissing \/ MakeDirectory \/ OpenForWriting \/ WriteBlock \/ BufferBlock
  BY <1>2, <1>5 DEF DirectoryThere, DirectoryMissing, MakeDirectory, OpenForWriting, WriteBlock,
                    BufferBlock, Go, Listing
<1> QED
  BY <1>3, <1>4, <1>5 DEF Delete, Post

\* A DELETE and a POST have no listing under way.
LEMMA StoreListing == ASSUME FilesInv, Delete \/ Post PROVE ListingInv'
<1>1. UNCHANGED request /\ request.method # "GET" /\ pc' \notin Listing
  BY OnlyStores
<1> QED
  BY <1>1 DEF ListingInv, DirectoryInv, ScanInv, ListingIsFaithful, Answered, Listing

\* Nor has a request that has just come in.
LEMMA AcceptListing == ASSUME FilesInv, NEW r, Accept(r) PROVE ListingInv'
<1>1. /\ pc' \in {"prepare", "exists"} /\ request' = r /\ answer' = Status(0)
      /\ tree' = tree /\ witness' = WitnessFrom(tree, r)
  BY DEF Accept
<1>2. DirectoryInv'
  BY <1>1 DEF DirectoryInv, WitnessFrom, EntriesOf, Children, Exists, Node
<1> QED
  BY <1>1, <1>2 DEF ListingInv, ScanInv, ListingIsFaithful, Answered, Status

\* The steps of a GET before and after the directory is read.
LEMMA LookListing ==
    ASSUME FilesInv, ListingInv, Get,
           ~OpenDirectory, ~EndOfDirectory, ~ScanFails,
           ~\E name \in Names : ReadEntry(name) \/ ReadGone(name) \/ EntryNotSeen(name)
    PROVE  ListingInv'
<1>1. /\ UNCHANGED <<tree, request>> /\ pc' # "readdir"
      /\ pc' \in Listing => /\ pc \in Listing
                            /\ witness'.shown = witness.shown /\ witness'.throughout = witness.throughout
      /\ pc' = "idle" => \/ answer'.page # "listing"
                         \/ answer'.entries = {} /\ witness'.failed \in Omitting
  <2>1. ASSUME NEW a, Conclude(a), a.page # "listing"
        PROVE  UNCHANGED <<tree, request, witness>> /\ pc' = "idle" /\ answer'.page # "listing"
    BY <2>1 DEF Conclude, Answer
  <2>2. ASSUME NEW call, NEW a, FailWith(call, a)
        PROVE  UNCHANGED <<tree, request>> /\ pc' = "idle" /\ answer' = a /\ witness'.failed = call
    BY <2>2, FailedIs DEF FailWith, Answer, FilesInv
  <2>3. /\ \A code : Status(code).page # "listing"
        /\ \A data : Served(data).page # "listing"
        /\ Listed({}).entries = {}
    BY AnswersAre
  <2>4. CASE NotFound \/ ReadEnds
    BY <2>1, <2>3, <2>4 DEF NotFound, ReadEnds, Listing
  <2>5. CASE NotSeen \/ CannotRead
    BY <2>2, <2>3, <2>5 DEF NotSeen, CannotRead, Listing
  <2>10. CASE CannotOpenDirectory
    BY <2>2, <2>3, <2>10 DEF CannotOpenDirectory, Listing, Omitting
  <2>11. CASE KindNotSeen \/ IndexNotSeen
    <3>1. /\ pc \in {"kind", "index", "indexKind"} /\ pc' \notin {"readdir", "idle"}
          /\ UNCHANGED <<tree, request>> /\ \E noted : witness' = [witness EXCEPT !.failed = noted]
      BY <2>11 DEF KindNotSeen, IndexNotSeen, StatFails, Go
    <3> QED
      BY <3>1, FailedIs DEF FilesInv, Listing
  <2>6. CASE KindIsDirectory
    <3>1. request.method \in {"GET", "DELETE"}
      BY <2>6 DEF KindIsDirectory, FilesInv, StepInv
    <3>2. CASE request.method = "DELETE"
      BY <2>1, <2>3, <2>6, <3>2 DEF KindIsDirectory, Listing
    <3>3. CASE request.method = "GET" /\ ~request.slash
      BY <2>1, <2>3, <2>6, <3>3 DEF KindIsDirectory, Listing
    <3>4. CASE request.method = "GET" /\ request.slash
      BY <2>6, <3>4 DEF KindIsDirectory, Listing, Go
    <3> QED
      BY <3>1, <3>2, <3>3, <3>4
  <2>7. CASE NoIndex
    <3>1. pc = "index" /\ \/ Conclude(Status(404))
                          \/ Go("opendir") /\ UNCHANGED <<tree, local, witness, kept>>
      BY <2>7 DEF NoIndex
    <3> QED
      BY <2>1, <2>3, <3>1 DEF Go, Listing
  <2>8. CASE Found \/ KindIsOther \/ IndexExists \/ NextIndex \/ IndexFound
    BY <2>8 DEF Found, KindIsOther, IndexExists, NextIndex, IndexFound, Go, Listing
  <2>9. CASE OpenForReading \/ ReadBlock
    BY <2>9 DEF OpenForReading, ReadBlock, Go, Listing
  <2> QED
    BY <2>4, <2>5, <2>6, <2>7, <2>8, <2>9, <2>10, <2>11 DEF Get
<1>2. DirectoryInv'
  BY <1>1 DEF ListingInv, DirectoryInv, EntriesOf, Children, Exists, Node
<1>3. ScanInv' /\ ListingIsFaithful'
  BY <1>1 DEF ScanInv, ListingIsFaithful, Answered
<1> QED
  BY <1>2, <1>3 DEF ListingInv

\* The directory is opened: it owes all its names.
LEMMA OpenListing == ASSUME FilesInv, ListingInv, OpenDirectory PROVE ListingInv'
<1>1. /\ pc = "opendir" /\ pc' = "readdir" /\ IsDirectory(tree, request.path)
      /\ handle' = [OpenAt(request.path) EXCEPT !.names = NamesOf(EntriesOf(tree, request.path))]
      /\ UNCHANGED <<tree, entries, read, witness, request>>
  BY DEF OpenDirectory, Go
<1>2. handle'.names = NamesOf(EntriesOf(tree, request.path)) /\ handle'.gone = {}
  <2> DEFINE names == NamesOf(EntriesOf(tree, request.path))
             h == OpenAt(request.path)
  <2>1. request.path \in Paths
    BY <1>1, NodeIs DEF FilesInv, TypeOK, Trees
  <2>2. h = [open |-> TRUE, at |-> request.path, own |-> <<>>, names |-> {}, gone |-> {}]
    BY <2>1, OpenAtIs
  <2> HIDE DEF names, h
  <2>3. h.gone = {} /\ HasFields(h)
    BY <2>2 DEF HasFields
  <2>4. handle' = [open |-> h.open, at |-> h.at, own |-> h.own, names |-> names, gone |-> h.gone]
    BY <1>1, <2>3, HandleNames DEF names, h
  <2> QED
    BY <2>3, <2>4 DEF names
<1>3. entries = {} /\ read = {}
  BY <1>1 DEF FilesInv, LocalsInv
<1>4. DirectoryInv'
  BY <1>1 DEF ListingInv, DirectoryInv, Listing, EntriesOf, Children, Exists, Node
<1>5. ScanInv'
  BY <1>1, <1>2, <1>3 DEF ListingInv, DirectoryInv, ScanInv, Listing
<1> QED
  BY <1>1, <1>4, <1>5 DEF ListingInv, ListingIsFaithful, Answered

\* A name is returned: it is listed if it is still there.
LEMMA ReadListing ==
    ASSUME FilesInv, ListingInv, \E name \in Names : ReadEntry(name) \/ ReadGone(name)
    PROVE  ListingInv'
<1> DEFINE es == EntriesOf(tree, request.path)
<1>1. PICK name \in Names : ReadEntry(name) \/ ReadGone(name)
  OBVIOUS
<1>2. /\ pc = "readdir" /\ pc' = "readdir" /\ read' = read \cup {name}
      /\ UNCHANGED <<tree, handle, witness, request>>
      /\ \/ entries' = entries \cup {e \in es : e.name = name} /\ name \in NamesOf(es)
         \/ entries' = entries /\ name \in handle.gone
  BY <1>1 DEF ReadEntry, ReadGone, Go, Unread
<1>3. es \subseteq witness.shown
  BY <1>2 DEF ListingInv, DirectoryInv, Listing
<1>4. DirectoryInv'
  BY <1>2 DEF ListingInv, DirectoryInv, Listing, EntriesOf, Children, Exists, Node
<1> HIDE DEF es
<1>5. ScanInv'
  <2>1. /\ entries \subseteq witness.shown /\ witness.throughout \subseteq handle.names
        /\ handle.gone \cap witness.throughout = {}
        /\ witness.failed \notin Omitting => witness.throughout \cap read \subseteq NamesOf(entries)
    BY <1>2 DEF ListingInv, ScanInv
  <2>2. entries \subseteq entries' /\ entries' \subseteq witness.shown
    BY <1>2, <1>3, <2>1
  <2>3. NamesOf(entries) \subseteq NamesOf(entries')
    BY <2>2 DEF NamesOf
  <2>4. name \in witness.throughout => name \in NamesOf(entries')
    BY <1>2, <2>1 DEF NamesOf
  <2> QED
    BY <1>2, <2>1, <2>2, <2>3, <2>4 DEF ScanInv
<1> QED
  BY <1>2, <1>4, <1>5 DEF ListingInv, ListingIsFaithful, Answered

\* An entry that cannot be looked at is left out.
LEMMA OmitListing ==
    ASSUME FilesInv, ListingInv, \E name \in Names : EntryNotSeen(name)
    PROVE  ListingInv'
<1>1. /\ pc = "readdir" /\ pc' = "readdir" /\ UNCHANGED <<tree, handle, entries, request>>
      /\ witness' = [witness EXCEPT !.failed = "entry"]
  BY DEF EntryNotSeen, StatFails, Go
<1>2. /\ witness'.shown = witness.shown /\ witness'.throughout = witness.throughout
      /\ witness'.failed \in Omitting
  BY <1>1, FailedIs DEF FilesInv, Omitting
<1>3. DirectoryInv'
  BY <1>1, <1>2 DEF ListingInv, DirectoryInv, Listing, EntriesOf, Children, Exists, Node
<1> QED
  BY <1>1, <1>2, <1>3 DEF ListingInv, ScanInv, ListingIsFaithful, Answered

\* readdir fails: what has been read is listed.
LEMMA CutListing == ASSUME FilesInv, ListingInv, ScanFails PROVE ListingInv'
<1>1. /\ pc = "readdir" /\ pc' = "idle" /\ answer' = Listed(entries) /\ UNCHANGED request
      /\ witness' = [witness EXCEPT !.failed = "readdir"]
  BY DEF ScanFails, FailWith, Answer
<1>2. witness'.shown = witness.shown /\ witness'.failed \in Omitting
  BY <1>1, FailedIs DEF FilesInv, Omitting
<1>3. answer'.entries = entries
  BY <1>1, AnswersAre
<1>4. entries \subseteq witness.shown
  BY <1>1 DEF ListingInv, ScanInv
<1> QED
  BY <1>1, <1>2, <1>3, <1>4 DEF ListingInv, DirectoryInv, ScanInv, ListingIsFaithful, Listing

\* The directory owes nothing more.
LEMMA EndListing == ASSUME FilesInv, ListingInv, EndOfDirectory PROVE ListingInv'
<1>1. /\ pc = "readdir" /\ handle.names \subseteq read /\ pc' = "idle" /\ answer' = Listed(entries)
      /\ UNCHANGED <<witness, request>>
  BY DEF EndOfDirectory, ScanOver, Conclude, Answer
<1>2. answer'.entries = entries
  BY <1>1, AnswersAre
<1>3. /\ entries \subseteq witness.shown
      /\ witness.failed \notin Omitting => witness.throughout \subseteq NamesOf(entries)
  BY <1>1 DEF ListingInv, ScanInv
<1> QED
  BY <1>1, <1>2, <1>3 DEF ListingInv, DirectoryInv, ScanInv, ListingIsFaithful, Listing

\* A name that others take is no longer one that was there throughout.
LEMMA ForeignListing == ASSUME FilesInv, ListingInv, Foreign PROVE ListingInv'
<1>1. PICK path \in Paths \ {<<>>}, node \in Nodes, inPlace \in BOOLEAN : Apart(path, node, inPlace)
  BY ForeignIs
<1>2. /\ Node(tree', path) = node
      /\ \A other : other # path => Node(tree', other) = Node(tree, other)
      /\ witness' = Seen(tree', path, inPlace)
      /\ handle' = IF inPlace THEN handle ELSE Adjusted(tree, handle, path)
      /\ UNCHANGED <<pc, request, answer, entries, read>>
  BY <1>1, ApartIs
<1>3. inPlace => Exists(tree', path)
  BY <1>1, <1>2 DEF Apart, Exists
<1>4. /\ witness'.shown = witness.shown \cup EntriesOf(tree', request.path)
      /\ witness'.throughout = {name \in witness.throughout : inPlace \/ Append(request.path, name) # path}
      /\ witness'.failed = witness.failed
  <2> DEFINE t == tree'
  <2> HIDE DEF t
  <2>1. witness' = Seen(t, path, inPlace) /\ IsWitness(witness)
    BY <1>2 DEF t, FilesInv
  <2>2. /\ witness'.shown = witness.shown \cup EntriesOf(t, request.path)
        /\ witness'.throughout = {name \in witness.throughout : inPlace \/ Append(request.path, name) # path}
        /\ witness'.failed = witness.failed
    BY <2>1, SeenIs
  <2> QED
    BY <2>2 DEF t
<1>5. DirectoryInv'
  <2> SUFFICES ASSUME pc \in Listing
               PROVE  /\ EntriesOf(tree', request.path) \subseteq witness'.shown
                      /\ witness'.throughout \subseteq NamesOf(EntriesOf(tree', request.path))
    BY <1>2 DEF DirectoryInv
  <2> DEFINE u == tree'
  <2>1. \A other : other # path => Node(u, other) = Node(tree, other)
    BY <1>2
  <2>2. ASSUME NEW name \in witness'.throughout PROVE name \in NamesOf(EntriesOf(u, request.path))
    <3>1. name \in NamesOf(EntriesOf(tree, request.path))
      BY <1>4, <2>2 DEF ListingInv, DirectoryInv
    <3>2. Append(request.path, name) # path \/ Exists(u, path)
      BY <1>3, <1>4, <2>2
    <3> HIDE DEF u
    <3> QED
      BY <2>1, <3>1, <3>2, NamesStay
  <2> QED
    BY <1>4, <2>2
<1>6. ScanInv'
  <2> SUFFICES ASSUME pc = "readdir"
               PROVE  /\ entries \subseteq witness'.shown
                      /\ witness'.throughout \subseteq handle'.names
                      /\ handle'.gone \cap witness'.throughout = {}
                      /\ witness'.failed \notin Omitting
                         => witness'.throughout \cap read \subseteq NamesOf(entries)
    BY <1>2 DEF ScanInv, NamesOf
  <2>1. /\ entries \subseteq witness.shown /\ witness.throughout \subseteq handle.names
        /\ handle.gone \cap witness.throughout = {}
        /\ witness.failed \notin Omitting => witness.throughout \cap read \subseteq NamesOf(entries)
    BY DEF ListingInv, ScanInv
  <2>2. CASE inPlace
    BY <1>2, <1>4, <2>1, <2>2
  <2>3. CASE ~inPlace
    <3> DEFINE scanned == handle.open /\ handle.at # path /\ handle.at = Parent(path)
    <3>1. /\ scanned => /\ handle'.names = handle.names \ {Name(path)}
                        /\ handle'.gone = handle.gone \cup (handle.names \cap {Name(path)})
          /\ ~scanned => handle'.names = handle.names /\ handle'.gone = handle.gone
      <4>1. handle' = Adjusted(tree, handle, path) /\ IsHandle(handle) /\ tree \in Trees
        BY <1>2, <2>3 DEF FilesInv, HandleInv, TypeOK, Trees
      <4> QED
        BY <4>1, AdjustedIs
    <3>2. CASE scanned
      <4>1. handle.at # NoPath
        <5>1. Parent(path) \in Paths
          BY PathOf
        <5> QED
          BY <3>2, <5>1, PathsAssumption
      <4>2. path = Append(request.path, Name(path))
        <5>1. handle.at = request.path
          BY <4>1 DEF FilesInv, HandleInv
        <5> QED
          BY <3>2, <5>1, PathOf
      <4>3. Name(path) \notin witness'.throughout
        BY <1>4, <2>3, <4>2
      <4> QED
        BY <1>4, <2>1, <3>1, <3>2, <4>3
    <3>3. CASE ~scanned
      BY <1>4, <2>1, <3>1, <3>3
    <3> QED
      BY <3>2, <3>3
  <2> QED
    BY <2>2, <2>3
<1>7. ListingIsFaithful'
  BY <1>2, <1>4 DEF ListingInv, ListingIsFaithful, Answered
<1> QED
  BY <1>5, <1>6, <1>7 DEF ListingInv

\* Every step keeps it.
LEMMA ListingStep == ASSUME FilesInv, ListingInv, [FilesNext]_vars PROVE ListingInv'
<1>1. CASE \E r \in Requests : Accept(r)
  BY <1>1, AcceptListing
<1>2. CASE UNCHANGED vars
  BY <1>2 DEF vars, local, ListingInv, DirectoryInv, ScanInv, ListingIsFaithful, Answered,
              EntriesOf, Children, Exists, Node, NamesOf
<1> QED
  BY <1>1, <1>2, LookListing, OpenListing, ReadListing, OmitListing, CutListing, EndListing, StoreListing,
     ForeignListing DEF FilesNext

\* No listing is under way at first.
LEMMA InitListing == FilesInit => ListingInv
BY DEF FilesInit, ListingInv, DirectoryInv, ScanInv, ListingIsFaithful, Listing, Answered, Status

-----------------------------------------------------------------------------
(***************************************************************************)
(* An answer of GET or DELETE. As long as there was one change and no stat *)
(* failed, what the handler saw was true of the tree as it was when the    *)
(* request came in, or of the tree as it is.                               *)
(***************************************************************************)
Looking == {"exists", "kind", "index", "indexKind", "open", "remove"}

OneChange == witness.changes <= 1 /\ ~witness.inPlace /\ witness.failed # "stat"

\* t is the tree as it was: it is the tree, or one step from it.
Moment(t) ==
    /\ t \in Trees /\ WellFormed(t)
    /\ TrueAnswer(t, request) \in witness.answers
    /\ TrueAnswer(tree, request) \in witness.answers
    /\ \/ t = tree
       \/ /\ witness.changes = 1
          /\ \E path \in Paths \ {<<>>}, node \in Nodes :
               TreeStep(t, path, node) /\ tree = With(t, path, node)

\* The index files before the k-th, each of them missing once.
PassedOver(t, k) ==
    \A m \in DOMAIN IndexFiles :
        m < k => ~IsFile(t, IndexPath(request.path, m)) \/ ~IsFile(tree, IndexPath(request.path, m))

Looked(t) ==
    /\ pc \in {"kind", "remove"} => Exists(t, request.path) \/ Exists(tree, request.path)
    /\ pc = "remove" => IsFile(t, request.path) \/ ~IsDirectory(tree, request.path)
    /\ pc \in {"index", "indexKind"}
       => /\ IsDirectory(t, request.path) \/ IsDirectory(tree, request.path)
          /\ PassedOver(t, done)
    /\ pc = "open"
       => \/ filePath = request.path
          \/ \E k \in DOMAIN IndexFiles :
               filePath = IndexPath(request.path, k) /\ PassedOver(t, k) /\ request.slash

MomentInv == pc \in Looking /\ OneChange => \E t : Moment(t) /\ Looked(t)

ReadInv ==
    pc = "read" /\ OneChange
    => /\ done \in 0..Len(Contents(tree, handle))
       /\ content = Begun(Contents(tree, handle), done)
       /\ Served(Contents(tree, handle)) \in witness.answers

AnswerInv ==
    /\ witness.changes \in Nat
    /\ pc \in {"exists", "kind"} => filePath = request.path
    /\ MomentInv /\ ReadInv /\ AnswerWasTrue

\* What the answer would be, were the tree to stand still.
LEMMA TrueIs ==
    ASSUME NEW t \in Trees, NEW r \in RequestType
    PROVE  /\ ~Exists(t, r.path) => TrueAnswer(t, r) = Status(404)
           /\ r.method = "DELETE" /\ IsDirectory(t, r.path) => TrueAnswer(t, r) = Status(403)
           /\ r.method = "DELETE" /\ IsFile(t, r.path) => TrueAnswer(t, r) = Status(204)
           /\ r.method = "GET" /\ IsFile(t, r.path) => TrueAnswer(t, r) = Served(Node(t, r.path).data)
           /\ r.method = "GET" /\ IsDirectory(t, r.path) => TrueAnswer(t, r) = DirectoryAnswer(t, r)
<1>1. CASE ~Exists(t, r.path)
  <2>1. ~IsDirectory(t, r.path) /\ ~IsFile(t, r.path)
    BY <1>1, NodeIs
  <2> QED
    BY <1>1, <2>1 DEF TrueAnswer
<1>2. CASE Exists(t, r.path) /\ IsDirectory(t, r.path)
  <2>1. ~IsFile(t, r.path)
    BY <1>2, NodeIs
  <2> QED
    BY <1>2, <2>1 DEF TrueAnswer
<1>3. CASE Exists(t, r.path) /\ IsFile(t, r.path)
  <2>1. ~IsDirectory(t, r.path)
    BY <1>3, NodeIs
  <2> QED
    BY <1>3, <2>1 DEF TrueAnswer
<1>4. Exists(t, r.path) => IsDirectory(t, r.path) \/ IsFile(t, r.path)
  BY NodeIs
<1> QED
  BY <1>1, <1>2, <1>3, <1>4

\* The first index file is served.
LEMMA TrueIndex ==
    ASSUME NEW t \in Trees, WellFormed(t), NEW r \in RequestType, r.method = "GET", r.slash,
           NEW k \in DOMAIN IndexFiles, IsFile(t, IndexPath(r.path, k)),
           \A m \in DOMAIN IndexFiles : m < k => ~IsFile(t, IndexPath(r.path, m))
    PROVE  TrueAnswer(t, r) = Served(Node(t, IndexPath(r.path, k)).data)
<1> DEFINE indexes == IndexesIn(t, r.path)
           first == CHOOSE j \in indexes : \A m \in indexes : j <= m
<1>1. k \in Nat /\ DOMAIN IndexFiles \subseteq Nat
  BY FilesAssumption, LenProperties
<1>2. IsDirectory(t, r.path)
  <2>1. IndexFiles[k] \in STRING /\ r.path \in Seq(STRING)
    BY FilesAssumption, ElementOfSeq, LenProperties, RequestIs
  <2>2. IndexPath(r.path, k) # <<>> /\ Parent(IndexPath(r.path, k)) = r.path
    BY <2>1, PathParts DEF IndexPath
  <2>3. IndexPath(r.path, k) \in Paths \ {<<>>} /\ Exists(t, IndexPath(r.path, k))
    BY <2>2, NodeIs
  <2> QED
    BY <2>2, <2>3 DEF WellFormed
<1>3. k \in indexes /\ \A m \in indexes : m \in Nat /\ k <= m
  <2>1. k \in indexes /\ indexes \subseteq DOMAIN IndexFiles
    BY DEF IndexesIn
  <2>2. \A m \in indexes : ~(m < k)
    BY DEF IndexesIn
  <2> HIDE DEF indexes
  <2> QED
    BY <1>1, <2>1, <2>2
<1>4. first = k
  <2> HIDE DEF indexes
  <2>1. first \in indexes /\ \A m \in indexes : first <= m
    BY <1>3
  <2> HIDE DEF first
  <2> QED
    BY <1>1, <1>3, <2>1
<1>5. DirectoryAnswer(t, r) = Served(Node(t, IndexPath(r.path, first)).data)
  BY <1>3 DEF DirectoryAnswer
<1>6. TrueAnswer(t, r) = DirectoryAnswer(t, r)
  BY <1>2, TrueIs
<1> HIDE DEF first
<1> QED
  BY <1>4, <1>5, <1>6

\* What changed between the two moments was one path.
LEMMA MomentPath ==
    ASSUME NEW t, Moment(t), t # tree
    PROVE  \E path \in Paths \ {<<>>} :
             /\ \A other : other # path => Node(tree, other) = Node(t, other)
             /\ IsDirectory(t, path) => ~IsFile(tree, path)
<1>1. t \in Trees
  BY DEF Moment
<1>2. PICK path \in Paths \ {<<>>}, node \in Nodes : TreeStep(t, path, node) /\ tree = With(t, path, node)
  BY DEF Moment
<1>3. Node(tree, path) = node /\ \A other : other # path => Node(tree, other) = Node(t, other)
  BY <1>1, <1>2, WithIs
<1>4. ASSUME IsDirectory(t, path) PROVE ~IsFile(tree, path)
  <2>1. ~Vacant(t, path) /\ ~IsFile(t, path)
    BY <1>1, <1>4, NodeIs DEF Vacant
  <2>2. node = Nothing
    BY <1>2, <2>1 DEF TreeStep
  <2> QED
    BY <1>3, <2>2 DEF IsFile, Nothing
<1> QED
  BY <1>3, <1>4

\* An index file that is found was the first at one of the two moments.
LEMMA IndexServed ==
    ASSUME tree \in Trees, WellFormed(tree), NEW t, Moment(t),
           request \in RequestType, request.method = "GET", request.slash,
           NEW k \in DOMAIN IndexFiles, PassedOver(t, k), IsFile(tree, IndexPath(request.path, k))
    PROVE  Served(Node(tree, IndexPath(request.path, k)).data) \in witness.answers
<1> DEFINE Index_(m) == IndexPath(request.path, m)
           found == {m \in DOMAIN IndexFiles : IsFile(tree, Index_(m))}
<1>0. DOMAIN IndexFiles \subseteq Nat
  BY FilesAssumption, LenProperties
<1>1. PICK first \in found : \A m \in found : first <= m
  <2>1. found \subseteq Nat /\ found # {}
    BY <1>0
  <2> HIDE DEF found
  <2> QED
    BY <2>1, LeastNatural
<1>2. /\ first \in DOMAIN IndexFiles /\ IsFile(tree, Index_(first)) /\ first <= k
      /\ \A m \in DOMAIN IndexFiles : m < first => ~IsFile(tree, Index_(m))
  <2>1. first \in DOMAIN IndexFiles /\ IsFile(tree, Index_(first)) /\ first <= k
    BY <1>1
  <2>2. ASSUME NEW m \in DOMAIN IndexFiles, m < first PROVE ~IsFile(tree, Index_(m))
    <3>1. ~(first <= m)
      BY <1>0, <2>1, <2>2
    <3> QED
      BY <1>1, <3>1
  <2> QED
    BY <2>1, <2>2
<1>3. TrueAnswer(tree, request) = Served(Node(tree, Index_(first)).data)
  BY <1>2, TrueIndex
<1>4. CASE Index_(first) = Index_(k)
  BY <1>3, <1>4 DEF Moment
<1>5. CASE Index_(first) # Index_(k)
  <2>1. first < k
    BY <1>0, <1>2, <1>5
  <2>2. ~IsFile(t, Index_(first))
    BY <1>2, <2>1 DEF PassedOver
  <2>3. t # tree
    BY <1>2, <2>2
  <2>4. PICK path : \A other : other # path => Node(tree, other) = Node(t, other)
    BY <2>3, MomentPath
  <2>5. path = Index_(first)
    BY <1>2, <2>2, <2>4 DEF IsFile
  <2>6. Node(t, Index_(k)) = Node(tree, Index_(k)) /\ IsFile(t, Index_(k))
    BY <1>5, <2>4, <2>5 DEF IsFile
  <2>7. ASSUME NEW m \in DOMAIN IndexFiles, m < k PROVE ~IsFile(t, Index_(m))
    <3>1. CASE Index_(m) = path
      BY <2>2, <2>5, <3>1
    <3>2. CASE Index_(m) # path
      BY <2>4, <2>7, <3>2 DEF PassedOver, IsFile
    <3> QED
      BY <3>1, <3>2
  <2>8. TrueAnswer(t, request) = Served(Node(t, Index_(k)).data)
    BY <2>6, <2>7, TrueIndex DEF Moment
  <2> QED
    BY <2>6, <2>8 DEF Moment
<1> QED
  BY <1>4, <1>5

\* Where none was found, there was none at one of the two moments.
LEMMA NoneServed ==
    ASSUME tree \in Trees, NEW t, Moment(t), request \in RequestType, request.method = "GET",
           request.slash, ~request.autoindex, PassedOver(t, Len(IndexFiles) + 1),
           IsDirectory(t, request.path) \/ IsDirectory(tree, request.path)
    PROVE  Status(404) \in witness.answers
<1> DEFINE path == request.path
<1>0. DOMAIN IndexFiles = 1..Len(IndexFiles) /\ Len(IndexFiles) \in Nat
  BY FilesAssumption, LenProperties
<1>1. \A m \in DOMAIN IndexFiles : ~IsFile(t, IndexPath(path, m)) \/ ~IsFile(tree, IndexPath(path, m))
  <2>1. \A m \in DOMAIN IndexFiles : m < Len(IndexFiles) + 1
    BY <1>0
  <2> QED
    BY <2>1 DEF PassedOver
<1>2. ASSUME NEW u \in Trees, IsDirectory(u, path), IndexesIn(u, path) = {}
      PROVE  TrueAnswer(u, request) = Status(404)
  BY <1>2, TrueIs DEF DirectoryAnswer
<1>3. CASE ~Exists(tree, path)
  BY <1>3, TrueIs DEF Moment
<1>4. CASE Exists(tree, path) /\ ~IsDirectory(tree, path)
  <2>1. IsFile(tree, path) /\ IsDirectory(t, path) /\ t # tree
    BY <1>4, NodeIs
  <2>2. PICK changedPath : /\ \A other : other # changedPath => Node(tree, other) = Node(t, other)
                           /\ IsDirectory(t, changedPath) => ~IsFile(tree, changedPath)
    BY <2>1, MomentPath
  <2> QED
    BY <1>4, <2>1, <2>2 DEF IsDirectory
<1>5. CASE IsDirectory(tree, path)
  <2>1. CASE IndexesIn(tree, path) = {}
    BY <1>2, <1>5, <2>1 DEF Moment
  <2>2. CASE IndexesIn(tree, path) # {}
    <3>1. PICK m \in DOMAIN IndexFiles : IsFile(tree, IndexPath(path, m))
      BY <2>2 DEF IndexesIn
    <3>2. ~IsFile(t, IndexPath(path, m)) /\ t # tree
      BY <1>1, <3>1
    <3>3. PICK changedPath : \A other : other # changedPath => Node(tree, other) = Node(t, other)
      BY <3>2, MomentPath
    <3>4. changedPath = IndexPath(path, m)
      BY <3>1, <3>2, <3>3 DEF IsFile
    <3>5. IndexesIn(t, path) = {}
      <4>1. ASSUME NEW j \in DOMAIN IndexFiles PROVE ~IsFile(t, IndexPath(path, j))
        <5>1. CASE IndexPath(path, j) = changedPath
          BY <3>2, <3>4, <5>1
        <5>2. CASE IndexPath(path, j) # changedPath
          BY <1>1, <3>3, <5>2 DEF IsFile
        <5> QED
          BY <5>1, <5>2
      <4> QED
        BY <4>1 DEF IndexesIn
    <3>6. IsDirectory(t, path)
      <4>1. IndexFiles[m] \in STRING /\ path \in Seq(STRING)
        BY FilesAssumption, ElementOfSeq, <1>0, RequestIs
      <4>2. changedPath # path
        BY <3>4, <4>1, PathParts DEF IndexPath
      <4> QED
        BY <1>5, <3>3, <4>2 DEF IsDirectory
    <3> QED
      BY <1>2, <3>5, <3>6 DEF Moment
  <2> QED
    BY <2>1, <2>2
<1> QED
  BY <1>3, <1>4, <1>5

\* The request of a handler that looks.
LEMMA LookIs ==
    ASSUME FilesInv, pc \in Looking \cup {"read"}
    PROVE  /\ request \in RequestType /\ request.method \in {"GET", "DELETE"}
           /\ tree \in Trees /\ WellFormed(tree)
<1>1. request.method \in {"GET", "DELETE"} /\ request \in RequestType \cup {NoRequest}
  BY DEF FilesInv, StepInv, TypeOK, Looking
<1>2. request \in RequestType
  BY <1>1 DEF NoRequest
<1> QED
  BY <1>1, <1>2 DEF FilesInv, TypeOK, Trees

\* An answer that was true of one of the two moments.
LEMMA AnsweredTrue ==
    ASSUME AnswerInv, NEW a, Answer(a),
           witness'.changes = witness.changes, witness'.answers = witness.answers,
           request.method \in {"GET", "DELETE"} /\ OneChange' /\ a.page # "listing"
             => a.status = 500 \/ a \in witness.answers
    PROVE  AnswerInv'
<1>1. pc' = "idle" /\ answer' = a /\ UNCHANGED request
  BY DEF Answer
<1>2. AnswerWasTrue'
  BY <1>1 DEF AnswerWasTrue, Answered, OneChange
<1> QED
  BY <1>1, <1>2 DEF AnswerInv, MomentInv, ReadInv, Looking

\* A request that is concluded, with an answer that was true.
LEMMA ConcludedTrue ==
    ASSUME AnswerInv, NEW a, Conclude(a),
           OneChange => a \in witness.answers \/ a.page = "listing"
    PROVE  AnswerInv'
<1>1. Answer(a) /\ UNCHANGED witness
  BY DEF Conclude
<1>2. OneChange' => OneChange
  BY <1>1 DEF OneChange
<1> QED
  BY <1>1, <1>2, AnsweredTrue

\* A request that is concluded because a call failed.
LEMMA FailedTrue ==
    ASSUME FilesInv, AnswerInv, NEW call, NEW a, FailWith(call, a),
           a.status = 500 \/ a.page = "listing" \/ request.method = "POST" \/ call = "stat"
    PROVE  AnswerInv'
<1>1. Answer(a) /\ witness' = [witness EXCEPT !.failed = call]
  BY DEF FailWith
<1>2. /\ witness'.changes = witness.changes /\ witness'.answers = witness.answers
      /\ witness'.failed = call
  BY <1>1, FailedIs DEF FilesInv
<1>3. OneChange' => call # "stat"
  BY <1>2 DEF OneChange
<1> QED
  BY <1>1, <1>2, <1>3, AnsweredTrue

\* A step that looks on.
LEMMA LookedOn ==
    ASSUME AnswerInv, UNCHANGED <<tree, witness, request>>, pc \in Looking, pc' \in Looking,
           pc' \in {"exists", "kind"} => filePath' = request.path,
           \A t : Moment(t) /\ Looked(t) => Looked(t)'
    PROVE  AnswerInv'
<1>1. MomentInv'
  <2> SUFFICES ASSUME OneChange PROVE \E t : Moment(t)' /\ Looked(t)'
    BY DEF MomentInv, OneChange
  <2>1. PICK t : Moment(t) /\ Looked(t)
    BY DEF AnswerInv, MomentInv
  <2>2. Moment(t)'
    <3>1. TrueAnswer(tree, request)' = TrueAnswer(tree, request)
      BY DEF TrueAnswer, DirectoryAnswer, IndexesIn, IndexPath, EntriesOf, Children, Name, Parent,
             Exists, IsDirectory, IsFile, Node, Status, Served, Listed
    <3>2. TrueAnswer(t, request)' = TrueAnswer(t, request)
      BY DEF TrueAnswer, DirectoryAnswer, IndexesIn, IndexPath, EntriesOf, Children, Name, Parent,
             Exists, IsDirectory, IsFile, Node, Status, Served, Listed
    <3> QED
      BY <2>1, <3>1, <3>2 DEF Moment
  <2> QED
    BY <2>1, <2>2
<1> QED
  BY <1>1 DEF AnswerInv, ReadInv, AnswerWasTrue, Answered, Looking

\* pathExists.
LEMMA ExistsTrue == ASSUME FilesInv, AnswerInv, NotFound \/ Found PROVE AnswerInv'
<1>1. pc = "exists" /\ request \in RequestType /\ tree \in Trees
  BY LookIs DEF NotFound, Found, Looking
<1>2. CASE NotFound
  <2>1. Conclude(Status(404)) /\ TrueAnswer(tree, request) = Status(404)
    BY <1>1, <1>2, TrueIs DEF NotFound
  <2>2. OneChange => Status(404) \in witness.answers
    BY <1>1, <2>1 DEF AnswerInv, MomentInv, Moment, Looking
  <2> QED
    BY <2>1, <2>2, ConcludedTrue
<1>3. CASE Found
  <2>1. /\ UNCHANGED <<tree, witness, request, filePath>> /\ pc' = "kind"
        /\ Exists(tree, request.path)
    BY <1>3 DEF Found, Go, local
  <2>2. \A t : Looked(t)'
    BY <2>1 DEF Looked, Exists, Node
  <2>3. filePath' = request.path
    BY <1>1, <2>1 DEF AnswerInv
  <2> QED
    BY <1>1, <2>1, <2>2, <2>3, LookedOn DEF Looking
<1> QED
  BY <1>2, <1>3

\* isDirectory.
LEMMA KindTrue == ASSUME FilesInv, AnswerInv, KindIsDirectory \/ KindIsOther PROVE AnswerInv'
<1>1. /\ pc = "kind" /\ request \in RequestType /\ request.method \in {"GET", "DELETE"}
      /\ tree \in Trees
  BY LookIs DEF KindIsDirectory, KindIsOther, Looking
<1>2. OneChange => TrueAnswer(tree, request) \in witness.answers
  BY <1>1 DEF AnswerInv, MomentInv, Moment, Looking
<1>3. CASE KindIsDirectory
  <2>1. IsDirectory(tree, request.path)
    BY <1>3 DEF KindIsDirectory
  <2>2. CASE request.method = "DELETE"
    <3>1. Conclude(Status(403))
      BY <1>3, <2>2 DEF KindIsDirectory
    <3> QED
      BY <1>1, <1>2, <2>1, <2>2, <3>1, TrueIs, ConcludedTrue
  <2>3. CASE request.method = "GET" /\ ~request.slash
    <3>1. Conclude(Status(301))
      BY <1>3, <2>3 DEF KindIsDirectory
    <3>2. TrueAnswer(tree, request) = Status(301)
      BY <1>1, <2>1, <2>3, TrueIs DEF DirectoryAnswer
    <3> QED
      BY <1>2, <3>1, <3>2, ConcludedTrue
  <2>4. CASE request.method = "GET" /\ request.slash
    <3>1. pc' = "index" /\ done' = 1 /\ UNCHANGED <<tree, witness, request>>
      BY <1>3, <2>4 DEF KindIsDirectory, Go
    <3>2. \A m \in DOMAIN IndexFiles : ~(m < 1)
      BY FilesAssumption, LenProperties
    <3>3. \A t : Looked(t)'
      BY <2>1, <3>1, <3>2 DEF Looked, PassedOver, IsDirectory, Node
    <3> QED
      BY <1>1, <3>1, <3>3, LookedOn DEF Looking
  <2> QED
    BY <1>1, <2>2, <2>3, <2>4
<1>4. CASE KindIsOther
  <2>1. /\ ~IsDirectory(tree, request.path) /\ UNCHANGED <<tree, witness, request, filePath>>
        /\ pc' = IF request.method = "GET" THEN "open" ELSE "remove"
    BY <1>4 DEF KindIsOther, Go, local
  <2>2. filePath = request.path
    BY <1>1 DEF AnswerInv
  <2>3. \A t : Looked(t) => Looked(t)'
    BY <1>1, <2>1, <2>2 DEF Looked, IsDirectory, Exists, Node
  <2> QED
    BY <1>1, <2>1, <2>3, LookedOn DEF Looking
<1> QED
  BY <1>3, <1>4

\* findIndexFile.
LEMMA IndexTrue ==
    ASSUME FilesInv, AnswerInv, IndexExists \/ NextIndex \/ IndexFound \/ NoIndex
    PROVE  AnswerInv'
<1>1. /\ pc \in {"index", "indexKind"} /\ request \in RequestType
      /\ request.method = "GET" /\ request.slash /\ tree \in Trees /\ done \in Nat
      /\ Len(IndexFiles) \in Nat /\ DOMAIN IndexFiles = 1..Len(IndexFiles)
  <2>1. pc \in {"index", "indexKind"}
    BY DEF IndexExists, NextIndex, IndexFound, NoIndex
  <2> QED
    BY <2>1, LookIs, FilesAssumption, LenProperties DEF FilesInv, StepInv, TypeOK, Looking
<1>2. CASE IndexExists
  <2>1. pc' = "indexKind" /\ UNCHANGED <<tree, witness, request, done>>
    BY <1>2 DEF IndexExists, Go, local
  <2>2. \A t : Looked(t) => Looked(t)'
    BY <1>1, <2>1 DEF Looked, PassedOver, IsDirectory, IsFile, Node
  <2> QED
    BY <1>1, <2>1, <2>2, LookedOn DEF Looking
<1>3. CASE NextIndex
  <2>1. /\ pc' = "index" /\ done' = done + 1 /\ UNCHANGED <<tree, witness, request>>
        /\ ~Exists(tree, Index) \/ IsDirectory(tree, Index)
    BY <1>3 DEF NextIndex, Go
  <2>2. ~IsFile(tree, IndexPath(request.path, done))
    BY <1>1, <2>1, NodeIs DEF Index
  <2>3. ASSUME NEW t, PassedOver(t, done), NEW m \in DOMAIN IndexFiles, m < done + 1
        PROVE  ~IsFile(t, IndexPath(request.path, m)) \/ ~IsFile(tree, IndexPath(request.path, m))
    <3>1. m < done \/ m = done
      BY <1>1, <2>3
    <3> QED
      BY <2>2, <2>3, <3>1 DEF PassedOver
  <2>4. \A t : Looked(t) => Looked(t)'
    BY <1>1, <2>1, <2>3 DEF Looked, PassedOver, IsDirectory, IsFile, Node
  <2> QED
    BY <1>1, <2>1, <2>4, LookedOn DEF Looking
<1>4. CASE IndexFound
  <2>1. /\ pc = "indexKind" /\ pc' = "open" /\ filePath' = IndexPath(request.path, done)
        /\ UNCHANGED <<tree, witness, request>>
    BY <1>4 DEF IndexFound, Go, Index
  <2>2. done \in DOMAIN IndexFiles
    BY <1>1, <2>1 DEF FilesInv, LocalsInv
  <2>3. \A t : Looked(t) => Looked(t)'
    BY <1>1, <2>1, <2>2 DEF Looked, PassedOver, IndexPath, IsDirectory, IsFile, Node
  <2> QED
    BY <1>1, <2>1, <2>3, LookedOn DEF Looking
<1>5. CASE NoIndex
  <2>1. pc = "index" /\ done > Len(IndexFiles)
    BY <1>5 DEF NoIndex
  <2>2. CASE request.autoindex
    <3>1. pc' = "opendir" /\ UNCHANGED <<tree, witness, answer, request>>
      BY <1>5, <2>2 DEF NoIndex, Go
    <3> QED
      BY <3>1 DEF AnswerInv, MomentInv, ReadInv, AnswerWasTrue, Answered, Looking
  <2>3. CASE ~request.autoindex
    <3>1. Conclude(Status(404))
      BY <1>5, <2>3 DEF NoIndex
    <3>2. ASSUME OneChange PROVE Status(404) \in witness.answers
      <4>1. PICK t : Moment(t) /\ Looked(t)
        BY <2>1, <3>2 DEF AnswerInv, MomentInv, Looking
      <4>2. /\ IsDirectory(t, request.path) \/ IsDirectory(tree, request.path)
            /\ PassedOver(t, done)
        BY <2>1, <4>1 DEF Looked
      <4>3. done = Len(IndexFiles) + 1
        BY <1>1, <2>1 DEF FilesInv, LocalsInv
      <4> QED
        BY <1>1, <2>3, <4>1, <4>2, <4>3, NoneServed
    <3> QED
      BY <3>1, <3>2, ConcludedTrue
  <2> QED
    BY <2>2, <2>3
<1> QED
  BY <1>2, <1>3, <1>4, <1>5

\* The file that is opened is what would be served at one of the two moments.
LEMMA OpenTrue == ASSUME FilesInv, AnswerInv, OpenForReading PROVE AnswerInv'
<1>1. /\ pc = "open" /\ pc' = "read" /\ IsFile(tree, filePath) /\ handle' = OpenAt(filePath)
      /\ UNCHANGED <<tree, content, done, witness>>
  BY DEF OpenForReading, Go
<1>2. request \in RequestType /\ request.method = "GET" /\ tree \in Trees /\ WellFormed(tree)
  BY <1>1, LookIs DEF FilesInv, StepInv, Looking
<1>3. filePath \in Paths /\ Node(tree, filePath) \in Nodes
  BY <1>1, <1>2, NodeIs
<1> DEFINE text == Node(tree, filePath).data
<1>4. Contents(tree, handle)' = text
  <2>1. handle'.at = filePath /\ filePath # NoPath
    BY <1>1, <1>3, OpenAtIs, PathsAssumption
  <2> QED
    BY <1>1, <2>1 DEF Contents, Unnamed, Node
<1>5. ASSUME OneChange PROVE Served(text) \in witness.answers
  <2>1. PICK t : Moment(t) /\ Looked(t)
    BY <1>1, <1>5 DEF AnswerInv, MomentInv, Looking
  <2>2. CASE filePath = request.path
    BY <1>1, <1>2, <2>1, <2>2, TrueIs DEF Moment
  <2>3. CASE \E k \in DOMAIN IndexFiles :
               filePath = IndexPath(request.path, k) /\ PassedOver(t, k) /\ request.slash
    BY <1>1, <1>2, <2>1, <2>3, IndexServed
  <2> QED
    BY <1>1, <2>1, <2>2, <2>3 DEF Looked
<1>6. text \in Seq(STRING) /\ content = <<>> /\ done = 0
  BY <1>1, <1>3 DEF Nodes, FilesInv, LocalsInv, Storing
<1>7. Begun(text, 0) = <<>> /\ 0 \in 0..Len(text)
  BY <1>6, LenProperties, BegunIs
<1>8. ReadInv'
  <2> SUFFICES ASSUME OneChange
               PROVE  /\ done' \in 0..Len(Contents(tree, handle)')
                      /\ content' = SubSeq(Contents(tree, handle)', 1, done')
                      /\ Served(Contents(tree, handle))' \in witness'.answers
    BY <1>1 DEF ReadInv, OneChange, Begun
  <2>1. Served(Contents(tree, handle))' = Served(text)
    BY <1>4 DEF Served, Status
  <2> HIDE DEF text
  <2> QED
    BY <1>1, <1>4, <1>5, <1>6, <1>7, <2>1 DEF Begun
<1> QED
  BY <1>1, <1>8 DEF AnswerInv, MomentInv, AnswerWasTrue, Answered, Looking

\* One more symbol of a text.
LEMMA BegunNext ==
    ASSUME NEW text \in Seq(STRING), NEW n \in 0..(Len(text) - 1)
    PROVE  Append(Begun(text, n), text[n + 1]) = Begun(text, n + 1)
<1> DEFINE a == Append(Begun(text, n), text[n + 1])
           b == Begun(text, n + 1)
<1>1. Len(text) \in Nat /\ n \in Nat /\ n \in 0..Len(text) /\ n + 1 \in 0..Len(text) /\ n + 1 \in 1..Len(text)
  BY LenProperties
<1>2. /\ Begun(text, n) \in Seq(STRING) /\ Len(Begun(text, n)) = n
      /\ \A k \in 1..n : Begun(text, n)[k] = text[k]
  BY <1>1, BegunIs
<1>3. b \in Seq(STRING) /\ Len(b) = n + 1 /\ \A k \in 1..(n + 1) : b[k] = text[k]
  BY <1>1, BegunIs
<1>4. /\ a \in Seq(STRING) /\ Len(a) = n + 1 /\ a[n + 1] = text[n + 1]
      /\ \A k \in 1..n : a[k] = Begun(text, n)[k]
  <2>1. text[n + 1] \in STRING
    BY <1>1, ElementOfSeq
  <2> QED
    BY <1>2, <2>1, AppendProperties
<1>5. \A k \in 1..(n + 1) : a[k] = b[k]
  <2>1. \A k \in 1..(n + 1) : k \in 1..n \/ k = n + 1
    BY <1>1
  <2>2. n + 1 \in 1..(n + 1)
    BY <1>1
  <2> HIDE DEF a, b
  <2> QED
    BY <1>2, <1>3, <1>4, <2>1, <2>2
<1> HIDE DEF a, b
<1> QED
  BY <1>3, <1>4, <1>5, SeqEqual DEF a, b

\* What is read of it is what is served.
LEMMA ReadTrue == ASSUME FilesInv, AnswerInv, ReadBlock \/ ReadEnds PROVE AnswerInv'
<1> DEFINE text == Contents(tree, handle)
<1>1. pc = "read" /\ text \in Seq(STRING) /\ done \in Nat /\ Len(text) \in Nat
  BY ContentsAre, LenProperties DEF ReadBlock, ReadEnds, FilesInv, TypeOK
<1>2. OneChange => /\ done \in 0..Len(text) /\ content = Begun(text, done)
                   /\ Served(text) \in witness.answers
  BY <1>1 DEF AnswerInv, ReadInv
<1>3. CASE ReadBlock
  <2>1. /\ pc' = "read" /\ done < Len(text) /\ content' = Append(content, text[done + 1])
        /\ done' = done + 1 /\ UNCHANGED <<tree, handle, witness>>
    BY <1>3 DEF ReadBlock, Go
  <2>2. Contents(tree, handle)' = text /\ Served(Contents(tree, handle))' = Served(text)
    BY <2>1 DEF Contents, Unnamed, Node, Served, Status
  <2>3. done \in 0..(Len(text) - 1) /\ done + 1 \in 0..Len(text)
    BY <1>1, <2>1
  <2>4. ReadInv'
    <3> SUFFICES ASSUME OneChange
                 PROVE  /\ done' \in 0..Len(Contents(tree, handle)')
                        /\ content' = SubSeq(Contents(tree, handle)', 1, done')
                        /\ Served(Contents(tree, handle))' \in witness'.answers
      BY <2>1 DEF ReadInv, OneChange, Begun
    <3> HIDE DEF text
    <3>1. content' = Begun(text, done + 1)
      BY <1>1, <1>2, <2>1, <2>3, BegunNext
    <3> QED
      BY <1>2, <2>1, <2>2, <2>3, <3>1 DEF Begun
  <2> QED
    BY <2>1, <2>4 DEF AnswerInv, MomentInv, AnswerWasTrue, Answered, Looking
<1>4. CASE ReadEnds
  <2>1. Conclude(Served(content)) /\ done >= Len(text)
    BY <1>4 DEF ReadEnds, AtEnd
  <2>2. ASSUME OneChange PROVE Served(content) \in witness.answers
    <3>1. done \in 0..Len(text) /\ content = Begun(text, done) /\ Served(text) \in witness.answers
      BY <1>2, <2>2
    <3> HIDE DEF text
    <3>2. done = Len(text)
      BY <1>1, <2>1, <3>1
    <3>3. content = text
      BY <1>1, <3>1, <3>2, BegunIs
    <3> QED
      BY <3>1, <3>3
  <2> QED
    BY <2>1, <2>2, ConcludedTrue
<1> QED
  BY <1>3, <1>4

\* Calls that fail, and listings, claim nothing.
LEMMA OtherTrue ==
    ASSUME FilesInv, AnswerInv,
           \/ NotSeen \/ KindNotSeen \/ IndexNotSeen \/ CannotRead \/ CannotRemove
           \/ OpenDirectory \/ CannotOpenDirectory \/ EndOfDirectory \/ ScanFails
           \/ \E name \in Names : ReadEntry(name) \/ ReadGone(name) \/ EntryNotSeen(name)
    PROVE  AnswerInv'
<1>5. CASE NotSeen
  BY <1>5, FailedTrue DEF NotSeen
<1>6. CASE KindNotSeen \/ IndexNotSeen
  <2>1. /\ pc' \in {"index", "open", "remove"}
        /\ witness' = [witness EXCEPT !.failed = "stat"]
    BY <1>6 DEF KindNotSeen, IndexNotSeen, StatFails, Go
  <2>2. witness'.changes = witness.changes /\ ~OneChange'
    BY <2>1, FailedIs DEF FilesInv, OneChange
  <2> QED
    BY <2>1, <2>2 DEF AnswerInv, MomentInv, ReadInv, AnswerWasTrue, Answered
<1>7. CASE \E name \in Names : EntryNotSeen(name)
  <2>1. pc' = "readdir" /\ witness' = [witness EXCEPT !.failed = "entry"]
    BY <1>7 DEF EntryNotSeen, StatFails, Go
  <2>2. witness'.changes = witness.changes
    BY <2>1, FailedIs DEF FilesInv
  <2> QED
    BY <2>1, <2>2 DEF AnswerInv, MomentInv, ReadInv, AnswerWasTrue, Answered, Looking
<1>8. CASE ScanFails
  <2>1. FailWith("readdir", Listed(entries)) /\ Listed(entries).page = "listing"
    BY <1>8, AnswersAre DEF ScanFails
  <2> QED
    BY <2>1, FailedTrue
<1>1. CASE CannotRead \/ CannotRemove
  <2>1. Status(500).status = 500
    BY DEF Status
  <2>2. \E call : FailWith(call, Status(500))
    BY <1>1 DEF CannotRead, CannotRemove
  <2> QED
    BY <2>1, <2>2, FailedTrue
<1>2. CASE CannotOpenDirectory
  <2>1. FailWith("opendir", Listed({}))
    BY <1>2 DEF CannotOpenDirectory
  <2>2. Listed({}).page = "listing"
    BY AnswersAre
  <2> QED
    BY <2>1, <2>2, FailedTrue
<1>3. CASE EndOfDirectory
  <2>1. Conclude(Listed(entries)) /\ Listed(entries).page = "listing"
    BY <1>3, AnswersAre DEF EndOfDirectory
  <2> QED
    BY <2>1, ConcludedTrue
<1>4. CASE OpenDirectory \/ \E name \in Names : ReadEntry(name) \/ ReadGone(name)
  <2>1. pc' = "readdir" /\ UNCHANGED <<witness, answer, request>>
    BY <1>4 DEF OpenDirectory, ReadEntry, ReadGone, Go
  <2> QED
    BY <2>1 DEF AnswerInv, MomentInv, ReadInv, AnswerWasTrue, Answered, Looking
<1> QED
  BY <1>1, <1>2, <1>3, <1>4, <1>5, <1>6, <1>7, <1>8

\* What is removed was a file at one of the two moments.
LEMMA RemoveTrue == ASSUME FilesInv, AnswerInv, RemoveTarget PROVE AnswerInv'
<1>1. /\ pc = "remove" /\ Removable(tree, request.path) /\ Answer(Status(204)) /\ UNCHANGED witness
  BY DEF RemoveTarget
<1>2. request \in RequestType /\ request.method = "DELETE" /\ tree \in Trees
  BY <1>1, LookIs DEF FilesInv, StepInv, Looking
<1>3. ASSUME OneChange PROVE Status(204) \in witness.answers
  <2>1. PICK t : Moment(t) /\ Looked(t)
    BY <1>1, <1>3 DEF AnswerInv, MomentInv, Looking
  <2>2. CASE IsDirectory(tree, request.path)
    <3>1. IsFile(t, request.path) /\ t \in Trees
      BY <1>1, <2>1, <2>2 DEF Looked, Moment
    <3> QED
      BY <1>2, <2>1, <3>1, TrueIs DEF Moment
  <2>3. CASE IsFile(tree, request.path)
    BY <1>2, <2>1, <2>3, TrueIs DEF Moment
  <2> QED
    BY <1>1, <1>2, <2>2, <2>3, NodeIs DEF Removable
<1>4. OneChange' => OneChange
  BY <1>1 DEF OneChange
<1> QED
  BY <1>1, <1>3, <1>4, AnsweredTrue

\* The handler of POST claims nothing about the tree.
LEMMA PostTrue == ASSUME FilesInv, AnswerInv, Post PROVE AnswerInv'
<1>1. request.method = "POST"
  <2>1. pc \in {"prepare"} \cup Storing
    BY DEF Storing, Post, NothingToStore, NowhereToStore, NoFilePart, NamedFile, GeneratedFile,
           DirectoryThere, DirectoryMissing, MakeDirectory, CannotMakeDirectory, OpenForWriting,
           CannotCreate, WriteBlock, BufferBlock, CannotWrite, Saved, CloseStores, CloseLoses
  <2> QED
    BY <2>1 DEF FilesInv, StepInv
<1>2. CASE NothingToStore \/ NowhereToStore \/ NoFilePart \/ Saved \/ CloseStores
  <2>1. \E a : Answer(a) /\ UNCHANGED witness
    BY <1>2 DEF NothingToStore, NowhereToStore, NoFilePart, Saved, CloseStores, Conclude, Acknowledge
  <2> QED
    BY <1>1, <2>1, AnsweredTrue
<1>3. CASE CannotMakeDirectory \/ CannotCreate \/ CannotWrite
  <2>1. \E call, a : FailWith(call, a)
    BY <1>3 DEF CannotMakeDirectory, CannotCreate, CannotWrite
  <2> QED
    BY <1>1, <2>1, FailedTrue
<1>5. CASE CloseLoses
  <2>1. Answer(Status(201)) /\ witness' = [witness EXCEPT !.failed = "close"]
    BY <1>5 DEF CloseLoses, Acknowledge
  <2>2. witness'.changes = witness.changes /\ witness'.answers = witness.answers
    BY <2>1, FailedIs DEF FilesInv
  <2> QED
    BY <1>1, <2>1, <2>2, AnsweredTrue
<1>4. CASE \/ NamedFile \/ \E name \in GeneratedNames : GeneratedFile(name)
           \/ DirectoryThere \/ DirectoryMissing \/ MakeDirectory \/ OpenForWriting
           \/ WriteBlock \/ BufferBlock
  <2>1. pc' \in Storing /\ UNCHANGED <<request, answer>> /\ witness'.changes = witness.changes
    <3>1. CASE NamedFile \/ \E name \in GeneratedNames : GeneratedFile(name)
      <4>1. PICK path, text : Prepared(path, text)
        BY <3>1 DEF NamedFile, GeneratedFile
      <4> QED
        BY <4>1, BeforeIs DEF Prepared, Go, Storing, FilesInv
    <3>2. CASE \/ DirectoryThere \/ DirectoryMissing \/ MakeDirectory \/ OpenForWriting
               \/ WriteBlock \/ BufferBlock
      BY <3>2 DEF DirectoryThere, DirectoryMissing, MakeDirectory, OpenForWriting, WriteBlock,
                  BufferBlock, Go, Storing
    <3> QED
      BY <1>4, <3>1, <3>2
  <2> QED
    BY <2>1 DEF AnswerInv, MomentInv, ReadInv, AnswerWasTrue, Answered, Looking, Storing
<1> QED
  BY <1>2, <1>3, <1>4, <1>5 DEF Post

\* When a request comes in, the moment to speak of is that one.
LEMMA AcceptTrue == ASSUME FilesInv, AnswerInv, NEW r \in RequestType, Accept(r) PROVE AnswerInv'
<1>1. /\ request' = r /\ answer' = Status(0) /\ filePath' = r.path /\ tree' = tree
      /\ pc' = IF r.method = "POST" THEN "prepare" ELSE "exists"
      /\ witness' = WitnessFrom(tree, r)
  BY DEF Accept
<1>2. /\ witness'.changes = 0 /\ witness'.answers = TrueAnswers(tree, r)
  BY <1>1 DEF WitnessFrom
<1>3. MomentInv'
  <2> SUFFICES ASSUME pc' = "exists" PROVE \E t : Moment(t)' /\ Looked(t)'
    BY <1>1 DEF MomentInv, Looking
  <2>1. r.method \in {"GET", "DELETE"}
    BY <1>1, RequestIs
  <2>2. PICK t : t = tree
    OBVIOUS
  <2>3. TrueAnswer(t, r) \in witness'.answers
    BY <1>2, <2>1, <2>2 DEF TrueAnswers
  <2>4. t \in Trees /\ WellFormed(t)
    BY <2>2 DEF FilesInv, TypeOK, Trees
  <2>5. TrueAnswer(t, request)' = TrueAnswer(t, r) /\ TrueAnswer(tree, request)' = TrueAnswer(t, r)
    BY <1>1, <2>2 DEF TrueAnswer, DirectoryAnswer, IndexesIn, IndexPath, EntriesOf, Children, Name,
                      Parent, Exists, IsDirectory, IsFile, Node, Status, Served, Listed
  <2>6. Moment(t)'
    BY <1>1, <2>2, <2>3, <2>4, <2>5 DEF Moment
  <2> QED
    BY <2>6 DEF Looked
<1> QED
  BY <1>1, <1>2, <1>3 DEF AnswerInv, ReadInv, AnswerWasTrue, Answered, Status

\* What was seen before the one change was true of the tree before it.
LEMMA ForeignTrue == ASSUME FilesInv, AnswerInv, Foreign PROVE AnswerInv'
<1>1. PICK path \in Paths \ {<<>>}, node \in Nodes, inPlace \in BOOLEAN : Apart(path, node, inPlace)
  BY ForeignIs
<1>2. /\ tree' = With(tree, path, node) /\ TreeStep(tree, path, node)
      /\ Node(tree', path) = node
      /\ \A other : other # path => Node(tree', other) = Node(tree, other)
      /\ witness' = Seen(tree', path, inPlace)
      /\ handle' = IF inPlace THEN handle ELSE Adjusted(tree, handle, path)
      /\ UNCHANGED <<pc, request, answer, filePath, content, done>>
  BY <1>1, ApartIs DEF Apart
<1>3. /\ witness'.answers = witness.answers \cup TrueAnswers(tree', request)
      /\ witness'.changes = witness.changes + 1
      /\ witness'.inPlace = (witness.inPlace \/ inPlace) /\ witness'.failed = witness.failed
  <2> DEFINE u == tree'
  <2> HIDE DEF u
  <2>1. witness' = Seen(u, path, inPlace) /\ IsWitness(witness)
    BY <1>2 DEF u, FilesInv
  <2>2. /\ witness'.answers = witness.answers \cup TrueAnswers(u, request)
        /\ witness'.changes = witness.changes + 1
        /\ witness'.inPlace = (witness.inPlace \/ inPlace) /\ witness'.failed = witness.failed
    BY <2>1, SeenIs
  <2> QED
    BY <2>2 DEF u
<1>4. witness.changes \in Nat
  BY DEF AnswerInv
<1>5. OneChange' => OneChange /\ witness.changes = 0 /\ ~inPlace
  <2>1. ASSUME OneChange'
        PROVE  ~witness.inPlace /\ ~inPlace /\ witness.changes + 1 <= 1 /\ witness.failed # "stat"
    BY <1>3, <2>1 DEF OneChange
  <2>2. witness.changes + 1 <= 1 => witness.changes = 0 /\ witness.changes <= 1
    BY <1>4
  <2> QED
    BY <2>1, <2>2 DEF OneChange
<1>6. MomentInv'
  <2> SUFFICES ASSUME pc \in Looking, OneChange' PROVE \E t : Moment(t)' /\ Looked(t)'
    BY <1>2 DEF MomentInv
  <2>1. PICK t : Moment(t) /\ Looked(t)
    BY <1>5 DEF AnswerInv, MomentInv
  <2>2. t = tree /\ t \in Trees /\ WellFormed(t) /\ TrueAnswer(t, request) \in witness.answers
    BY <1>5, <2>1 DEF Moment
  <2>3. request.method \in {"GET", "DELETE"}
    BY LookIs
  <2>4. Moment(t)'
    <3>1. TrueAnswer(tree, request)' = TrueAnswer(tree', request)
      BY <1>2 DEF TrueAnswer, DirectoryAnswer, IndexesIn, IndexPath, EntriesOf, Children, Name,
                  Parent, Exists, IsDirectory, IsFile, Node, Status, Served, Listed
    <3>2. TrueAnswer(t, request)' = TrueAnswer(t, request)
      BY <1>2 DEF TrueAnswer, DirectoryAnswer, IndexesIn, IndexPath, EntriesOf, Children, Name,
                  Parent, Exists, IsDirectory, IsFile, Node, Status, Served, Listed
    <3>3. TrueAnswer(tree', request) \in witness'.answers
      <4> DEFINE u == tree'
      <4> HIDE DEF u
      <4>1. witness'.answers = witness.answers \cup TrueAnswers(u, request)
        BY <1>3 DEF u
      <4>2. TrueAnswer(u, request) \in TrueAnswers(u, request)
        BY <2>3 DEF TrueAnswers
      <4> QED
        BY <4>1, <4>2 DEF u
    <3>4. witness'.changes = 1
      BY <1>3, <1>5
    <3>5. tree' = With(t, path, node) /\ TreeStep(t, path, node)
      BY <1>2, <2>2
    <3>6. TrueAnswer(t, request) \in witness'.answers
      BY <1>3, <2>2
    <3> HIDE DEF TrueAnswer
    <3> QED
      BY <2>2, <3>1, <3>2, <3>3, <3>4, <3>5, <3>6 DEF Moment
  <2>5. Looked(t)'
    <3>1. pc \in {"kind", "remove"} => Exists(t, request.path)
      BY <2>1, <2>2 DEF Looked
    <3>2. pc = "remove" => IsFile(t, request.path)
      BY <2>1, <2>2, <3>1, NodeIs DEF Looked
    <3>3. pc \in {"index", "indexKind"}
          => /\ IsDirectory(t, request.path)
             /\ \A m \in DOMAIN IndexFiles : m < done => ~IsFile(t, IndexPath(request.path, m))
      BY <2>1, <2>2 DEF Looked, PassedOver
    <3>4. pc = "open"
          => \/ filePath = request.path
             \/ \E k \in DOMAIN IndexFiles :
                  /\ filePath = IndexPath(request.path, k) /\ request.slash
                  /\ \A m \in DOMAIN IndexFiles : m < k => ~IsFile(t, IndexPath(request.path, m))
      BY <2>1, <2>2 DEF Looked, PassedOver
    <3> QED
      BY <1>2, <3>1, <3>2, <3>3, <3>4 DEF Looked, PassedOver, Exists, IsDirectory, IsFile, Node, IndexPath
  <2> QED
    BY <2>4, <2>5
<1>7. ReadInv'
  <2> SUFFICES ASSUME pc = "read", OneChange'
               PROVE  /\ done \in 0..Len(Contents(tree, handle)')
                      /\ content = SubSeq(Contents(tree, handle)', 1, done)
                      /\ Served(Contents(tree, handle))' \in witness'.answers
    BY <1>2 DEF ReadInv, Begun
  <2> DEFINE text == Contents(tree, handle)
  <2>1. done \in 0..Len(text) /\ content = Begun(text, done) /\ Served(text) \in witness.answers
    BY <1>5 DEF AnswerInv, ReadInv
  <2>2. Contents(tree, handle)' = text
    <3>1. handle' = Adjusted(tree, handle, path) /\ IsHandle(handle) /\ tree \in Trees /\ handle.open
      BY <1>2, <1>5 DEF FilesInv, HandleInv, Open, TypeOK, Trees
    <3>2. CASE handle.at = path
      <4>1. handle'.at = NoPath /\ handle'.own = tree[path].data
        BY <3>1, <3>2, AdjustedIs
      <4>2. ~Unnamed(handle)
        BY <3>2, PathsAssumption DEF Unnamed
      <4> QED
        BY <3>2, <4>1, <4>2 DEF Contents, Unnamed, Node
    <3>3. CASE handle.at # path
      <4>1. handle'.at = handle.at /\ handle'.own = handle.own
        BY <3>1, <3>3, AdjustedIs
      <4> QED
        BY <1>2, <3>3, <4>1 DEF Contents, Unnamed, Node
    <3> QED
      BY <3>2, <3>3
  <2>3. Served(Contents(tree, handle))' = Served(text)
    BY <2>2 DEF Served, Status
  <2> HIDE DEF text
  <2> QED
    BY <1>3, <2>1, <2>2, <2>3 DEF Begun
<1>8. AnswerWasTrue'
  <2> SUFFICES ASSUME Answered({"GET", "DELETE"}), OneChange', answer.page # "listing"
               PROVE  answer.status = 500 \/ answer \in witness'.answers
    BY <1>2 DEF AnswerWasTrue, Answered, OneChange
  <2>1. answer.status = 500 \/ answer \in witness.answers
    BY <1>5 DEF AnswerInv, AnswerWasTrue, OneChange
  <2> QED
    BY <1>3, <2>1
<1>9. witness'.changes \in Nat
  BY <1>3, <1>4
<1>10. pc' \in {"exists", "kind"} => filePath' = request'.path
  BY <1>2 DEF AnswerInv
<1> QED
  BY <1>6, <1>7, <1>8, <1>9, <1>10 DEF AnswerInv

\* Every step keeps it.
LEMMA AnswerStep == ASSUME FilesInv, AnswerInv, [FilesNext]_vars PROVE AnswerInv'
<1>1. CASE \E r \in Requests : Accept(r)
  BY <1>1, AcceptTrue, FilesAssumption
<1>2. CASE UNCHANGED vars
  <2>1. UNCHANGED <<tree, pc, request, answer, filePath, handle, content, done, witness>>
    BY <1>2 DEF vars, local
  <2>2. CASE pc \in Looking
    <3>1. \A t : Looked(t) => Looked(t)'
      BY <2>1 DEF Looked, PassedOver, IndexPath, Exists, IsDirectory, IsFile, Node
    <3> QED
      BY <2>1, <2>2, <3>1, LookedOn DEF AnswerInv
  <2>3. CASE pc \notin Looking
    <3>1. ReadInv'
      BY <2>1 DEF AnswerInv, ReadInv, OneChange, Contents, Unnamed, Node, Begun, Served, Status
    <3> QED
      BY <2>1, <2>3, <3>1 DEF AnswerInv, MomentInv, AnswerWasTrue, Answered
  <2> QED
    BY <2>2, <2>3
<1>3. CASE Get
  BY <1>3, ExistsTrue, KindTrue, IndexTrue, OpenTrue, ReadTrue, OtherTrue DEF Get
<1>4. CASE Delete
  BY <1>4, RemoveTrue, OtherTrue DEF Delete
<1> QED
  BY <1>1, <1>2, <1>3, <1>4, PostTrue, ForeignTrue DEF FilesNext

\* Nothing has been answered at first.
LEMMA InitAnswer == FilesInit => AnswerInv
<1> SUFFICES ASSUME FilesInit PROVE AnswerInv
  OBVIOUS
<1>1. pc = "idle" /\ answer.status = 0 /\ witness.changes = 0
  BY DEF FilesInit, Status, WitnessFrom
<1> QED
  BY <1>1 DEF AnswerInv, MomentInv, ReadInv, AnswerWasTrue, Answered, Looking
=============================================================================
