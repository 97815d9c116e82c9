------------------------------- MODULE Files -------------------------------
(***************************************************************************)
(* GetHandler, PostHandler and DeleteHandler as the system calls they      *)
(* make, one step each, on a tree that other processes (a descendant of a  *)
(* CGI program, an administrator) may change between any two of them and   *)
(* in which any call may fail.                                             *)
(***************************************************************************)
EXTENDS FileSystem, Multipart, FiniteSets

CONSTANTS
    Requests,       \* the requests that reach the handlers
    InitialTrees,
    IndexFiles,     \* the index directives of the location, in order
    GeneratedNames, \* what generateUploadFilePath may come up with
    ForeignData,    \* what other processes write
    Faults,         \* the system calls that may fail with their arguments in order
    MaxChanges,     \* bound: changes by other processes
    MaxRequests     \* bound: requests that are handled

\* NoPath is the path of a request for which resolvePath found no file name.
RequestType ==
    [method : {"GET"}, path : Paths \cup {NoPath}, slash : BOOLEAN, autoindex : BOOLEAN]
      \cup [method : {"DELETE"}, path : Paths \cup {NoPath}]
      \cup [method : {"POST"}, path : Paths \cup {NoPath}, body : Seq(STRING),
            multipart : BOOLEAN, filename : STRING]

ASSUME FilesAssumption ==
    /\ Requests \subseteq RequestType
    /\ IndexFiles \in Seq(STRING) /\ GeneratedNames \subseteq STRING
    /\ ForeignData \subseteq Seq(STRING)
    /\ \A tree \in InitialTrees : tree \in [Paths -> Nodes] /\ WellFormed(tree)
    /\ MaxChanges \in Nat /\ MaxRequests \in Nat

NoRequest == [method |-> "none", path |-> <<>>]

Status(code) == [status |-> code, page |-> "text", data |-> <<>>, entries |-> {}]
Served(data) == [Status(200) EXCEPT !.page = "file", !.data = data]
Listed(es) == [Status(200) EXCEPT !.page = "listing", !.entries = es]

VARIABLES
    tree,           \* the file system
    pc, request,
    answer,         \* of the last request
    filePath,       \* the file to be served or written
    handle,         \* the open file or directory
    content,        \* what has been read, or is to be written
    done,           \* how much of it is read or written; which index is looked for
    entries, read,  \* of a listing: its entries, and the names readdir returned
    served, changed \* the counters of the two bounds

local == <<filePath, handle, content, done, entries, read>>

(***************************************************************************)
(* History, read by properties only. witness describes the time since the  *)
(* request came in: the answers that would have been true at some moment,  *)
(* the entries of the directory that were there at some moment and the     *)
(* names that had one file all the time, the paths others changed, how     *)
(* many changes they made, whether one was made in place, which call       *)
(* failed ("stat" of what was asked for, "entry" for the stat of an entry  *)
(* of a listing), and what the target of an upload was before. kept is the *)
(* set of uploads that were acknowledged, whole or with their end lost,    *)
(* and that nobody has overwritten or removed.                             *)
(***************************************************************************)
VARIABLES witness, kept

vars == <<tree, pc, request, answer, local, served, changed, witness, kept>>

-----------------------------------------------------------------------------
(***************************************************************************)
(* What GET and DELETE promise: their answer, were the tree to stand still *)
(***************************************************************************)
EntriesOf(t, path) == {[name |-> Name(child), kind |-> t[child].kind] : child \in Children(t, path)}
NamesOf(es) == {e.name : e \in es}

IndexPath(path, k) == Append(path, IndexFiles[k])
IndexesIn(t, path) == {k \in DOMAIN IndexFiles : IsFile(t, IndexPath(path, k))}

DirectoryAnswer(t, r) ==
    LET indexes == IndexesIn(t, r.path)
        first == CHOOSE k \in indexes : \A m \in indexes : k <= m
    IN  CASE ~r.slash -> Status(301)
          [] r.slash /\ indexes # {} -> Served(Node(t, IndexPath(r.path, first)).data)
          [] r.slash /\ indexes = {} /\ r.autoindex -> Listed(EntriesOf(t, r.path))
          [] OTHER -> Status(404)

TrueAnswer(t, r) ==
    CASE ~Exists(t, r.path) -> Status(404)
      [] r.method = "GET" /\ IsDirectory(t, r.path) -> DirectoryAnswer(t, r)
      [] r.method = "GET" /\ IsFile(t, r.path) -> Served(Node(t, r.path).data)
      [] r.method = "DELETE" /\ IsDirectory(t, r.path) -> Status(403)
      [] r.method = "DELETE" /\ IsFile(t, r.path) -> Status(204)

TrueAnswers(t, r) == IF r.method \in {"GET", "DELETE"} THEN {TrueAnswer(t, r)} ELSE {}

WitnessFrom(t, r) ==
    [answers |-> TrueAnswers(t, r), shown |-> EntriesOf(t, r.path),
     throughout |-> NamesOf(EntriesOf(t, r.path)), touched |-> {}, changes |-> 0,
     inPlace |-> FALSE, failed |-> "none", before |-> Nothing]

\* The witness after another process has changed the tree to t at a path.
Seen(t, path, inPlace) ==
    [witness EXCEPT !.answers = @ \cup TrueAnswers(t, request),
                    !.shown = @ \cup EntriesOf(t, request.path),
                    !.throughout = {name \in @ : inPlace \/ Append(request.path, name) # path},
                    !.touched = @ \cup {path}, !.changes = @ + 1, !.inPlace = @ \/ inPlace]

-----------------------------------------------------------------------------
FilesInit ==
    /\ tree \in InitialTrees
    /\ pc = "idle" /\ request = NoRequest /\ answer = Status(0)
    /\ filePath = <<>> /\ handle = Closed /\ content = <<>> /\ done = 0
    /\ entries = {} /\ read = {}
    /\ served = 0 /\ changed = 0
    /\ witness = WitnessFrom(tree, NoRequest) /\ kept = {}

Fails(call) == call \in Faults

Go(step) == pc' = step /\ UNCHANGED <<request, answer, served, changed>>

\* Mutant: a listing does not close its directory.
HandleLeftByListing == IF pc = "readdir" THEN handle ELSE Closed

\* What a handler leaves open.
HandleLeft == Closed

\* The handler returns, its locals go.
Answer(a) ==
    /\ answer' = a /\ pc' = "idle"
    /\ handle' = HandleLeft /\ content' = <<>> /\ done' = 0 /\ entries' = {} /\ read' = {}
    /\ UNCHANGED <<request, filePath, served, changed>>

\* The same, for a handler that only looked.
Conclude(a) == Answer(a) /\ UNCHANGED <<tree, witness, kept>>

FailWith(call, a) ==
    /\ Answer(a)
    /\ witness' = [witness EXCEPT !.failed = call]
    /\ UNCHANGED <<tree, kept>>

\* A stat that fails although something is there: to the code, nothing is.
StatFails(noted) == Fails("stat") /\ witness' = [witness EXCEPT !.failed = noted]

Accept(r) ==
    /\ pc = "idle" /\ served < MaxRequests
    /\ request' = r /\ answer' = Status(0) /\ served' = served + 1
    /\ pc' = IF r.method = "POST" THEN "prepare" ELSE "exists"
    /\ witness' = WitnessFrom(tree, r)
    /\ filePath' = r.path
    /\ UNCHANGED <<tree, handle, content, done, entries, read, changed, kept>>

-----------------------------------------------------------------------------
(***************************************************************************)
(* GET and DELETE: pathExists, then isDirectory                            *)
(***************************************************************************)
NotFound ==
    /\ pc = "exists" /\ ~Exists(tree, request.path)
    /\ Conclude(Status(404))

NotSeen ==
    /\ pc = "exists" /\ Fails("stat")
    /\ FailWith("stat", Status(404))

Found ==
    /\ pc = "exists" /\ Exists(tree, request.path)
    /\ Go("kind") /\ UNCHANGED <<tree, local, witness, kept>>

KindIsDirectory ==
    /\ pc = "kind" /\ IsDirectory(tree, request.path)
    /\ CASE request.method = "DELETE" -> Conclude(Status(403))
         [] request.method = "GET" /\ ~request.slash -> Conclude(Status(301))
         [] request.method = "GET" /\ request.slash ->
              Go("index") /\ done' = 1
              /\ UNCHANGED <<tree, filePath, handle, content, entries, read, witness, kept>>

\* A path that vanished since is not a directory either.
KindIsOther ==
    /\ pc = "kind" /\ ~IsDirectory(tree, request.path)
    /\ Go(IF request.method = "GET" THEN "open" ELSE "remove")
    /\ UNCHANGED <<tree, local, witness, kept>>

KindNotSeen ==
    /\ pc = "kind" /\ StatFails("stat")
    /\ Go(IF request.method = "GET" THEN "open" ELSE "remove")
    /\ UNCHANGED <<tree, local, kept>>

-----------------------------------------------------------------------------
(***************************************************************************)
(* PathResolver::findIndexFile                                             *)
(***************************************************************************)
Index == IndexPath(request.path, done)

IndexExists ==
    /\ pc = "index" /\ done <= Len(IndexFiles) /\ Exists(tree, Index)
    /\ Go("indexKind") /\ UNCHANGED <<tree, local, witness, kept>>

NextIndex ==
    /\ done <= Len(IndexFiles)
    /\ \/ pc = "index" /\ ~Exists(tree, Index)
       \/ pc = "indexKind" /\ IsDirectory(tree, Index)
    /\ Go("index") /\ done' = done + 1
    /\ UNCHANGED <<tree, filePath, handle, content, entries, read, witness, kept>>

IndexFound ==
    /\ pc = "indexKind" /\ ~IsDirectory(tree, Index)
    /\ Go("open") /\ filePath' = Index /\ done' = 0
    /\ UNCHANGED <<tree, handle, content, entries, read, witness, kept>>

\* An index file is passed over, or taken for a file whatever it is.
IndexNotSeen ==
    /\ StatFails("stat")
    /\ \/ /\ pc = "index" /\ done <= Len(IndexFiles)
          /\ Go("index") /\ done' = done + 1 /\ UNCHANGED filePath
       \/ /\ pc = "indexKind"
          /\ Go("open") /\ filePath' = Index /\ done' = 0
    /\ UNCHANGED <<tree, handle, content, entries, read, kept>>

NoIndex ==
    /\ pc = "index" /\ done > Len(IndexFiles)
    /\ IF request.autoindex
       THEN Go("opendir") /\ UNCHANGED <<tree, local, witness, kept>>
       ELSE Conclude(Status(404))

-----------------------------------------------------------------------------
(***************************************************************************)
(* FileManager::readFile                                                   *)
(***************************************************************************)
OpenForReading ==
    /\ pc = "open" /\ IsFile(tree, filePath)
    /\ Go("read") /\ handle' = OpenAt(filePath)
    /\ UNCHANGED <<tree, filePath, content, done, entries, read, witness, kept>>

\* Opening fails, or succeeds on a directory, of which nothing can be read.
CannotRead ==
    /\ \/ pc = "open" /\ (~IsFile(tree, filePath) \/ Fails("open"))
       \/ pc = "read" /\ Fails("read")
    /\ FailWith("read", Status(500))

\* Mutant: an error ends the file.
AtEndOrError == done >= Len(Contents(tree, handle)) \/ Fails("read")

AtEnd == done >= Len(Contents(tree, handle))

ReadBlock ==
    /\ pc = "read" /\ done < Len(Contents(tree, handle))
    /\ content' = Append(content, Contents(tree, handle)[done + 1]) /\ done' = done + 1
    /\ Go("read") /\ UNCHANGED <<tree, filePath, handle, entries, read, witness, kept>>

ReadEnds ==
    /\ pc = "read" /\ AtEnd
    /\ Conclude(Served(content))

-----------------------------------------------------------------------------
(***************************************************************************)
(* FileManager::readDirectory. A name that comes or goes during the scan   *)
(* may or may not be returned by readdir, and one of which stat finds      *)
(* nothing is left out. What cannot be opened is listed as empty.          *)
(***************************************************************************)
OpenDirectory ==
    /\ pc = "opendir" /\ IsDirectory(tree, request.path)
    /\ Go("readdir")
    /\ handle' = [OpenAt(request.path) EXCEPT !.names = NamesOf(EntriesOf(tree, request.path))]
    /\ UNCHANGED <<tree, filePath, content, done, entries, read, witness, kept>>

CannotOpenDirectory ==
    /\ pc = "opendir" /\ (~IsDirectory(tree, request.path) \/ Fails("opendir"))
    /\ FailWith("opendir", Listed({}))

\* Names that are there and have not been returned yet.
Unread == IF Unnamed(handle) THEN {} ELSE NamesOf(EntriesOf(tree, request.path)) \ read

ReadEntry(name) ==
    /\ pc = "readdir" /\ name \in Unread
    /\ read' = read \cup {name}
    /\ entries' = entries \cup {e \in EntriesOf(tree, request.path) : e.name = name}
    /\ Go("readdir") /\ UNCHANGED <<tree, filePath, handle, content, done, witness, kept>>

\* A name that is gone by the time of its stat.
ReadGone(name) ==
    /\ pc = "readdir" /\ name \in handle.gone \ read /\ name \notin Unread
    /\ read' = read \cup {name}
    /\ Go("readdir") /\ UNCHANGED <<tree, filePath, handle, content, done, entries, witness, kept>>

\* An entry is left out.
EntryNotSeen(name) ==
    /\ pc = "readdir" /\ name \in Unread /\ StatFails("entry")
    /\ read' = read \cup {name}
    /\ Go("readdir") /\ UNCHANGED <<tree, filePath, handle, content, done, entries, kept>>

\* readdir returns NULL for an error as for the end.
ScanFails ==
    /\ pc = "readdir" /\ Fails("readdir")
    /\ FailWith("readdir", Listed(entries))

\* Mutant: a failing stat ends the loop.
ScanOverWhenOneIsGone == handle.names \subseteq read \/ handle.gone \cap read # {}

ScanOver == handle.names \subseteq read

EndOfDirectory ==
    /\ pc = "readdir" /\ ScanOver
    /\ Conclude(Listed(entries))

-----------------------------------------------------------------------------
(***************************************************************************)
(* DELETE: std::remove, which also takes an empty directory                *)
(***************************************************************************)
RemoveTarget ==
    /\ pc = "remove" /\ Removable(tree, request.path)
    /\ tree' = With(tree, request.path, Nothing)
    /\ kept' = {k \in kept : k.path # request.path}
    /\ Answer(Status(204))
    /\ UNCHANGED witness

CannotRemove ==
    /\ pc = "remove" /\ (~Removable(tree, request.path) \/ Fails("remove"))
    /\ FailWith("remove", Status(500))

-----------------------------------------------------------------------------
(***************************************************************************)
(* POST                                                                    *)
(***************************************************************************)
Part == parse(request.body, request.filename)

NothingToStore ==
    /\ pc = "prepare" /\ request.body = <<>>
    /\ Conclude(Status(200))

NowhereToStore ==
    /\ pc = "prepare" /\ request.body # <<>> /\ request.path = NoPath
    /\ Conclude(Status(403))

NoFilePart ==
    /\ pc = "prepare" /\ request.body # <<>> /\ request.path # NoPath
    /\ request.multipart /\ (~Part.isValid \/ Part.content = <<>>)
    /\ Conclude(Status(400))

Prepared(path, text) ==
    /\ filePath' = path /\ content' = text
    /\ witness' = [witness EXCEPT !.before = Node(tree, path)]
    /\ Go("directory") /\ UNCHANGED <<tree, handle, done, entries, read, kept>>

NamedFile ==
    /\ pc = "prepare" /\ request.body # <<>> /\ request.path # NoPath
    /\ request.multipart /\ Part.isValid /\ Part.content # <<>>
    /\ Prepared(Append(request.path, Part.filename), Part.content)

GeneratedFile(name) ==
    /\ pc = "prepare" /\ request.body # <<>> /\ request.path # NoPath
    /\ ~request.multipart
    /\ Prepared(Append(request.path, name), request.body)

\* ensureUploadDirectory: stat, then mkdir of one level.
DirectoryThere ==
    /\ pc = "directory" /\ Exists(tree, Parent(filePath))
    /\ Go("create") /\ UNCHANGED <<tree, local, witness, kept>>

DirectoryMissing ==
    /\ pc = "directory" /\ (~Exists(tree, Parent(filePath)) \/ Fails("stat"))
    /\ Go("mkdir") /\ UNCHANGED <<tree, local, witness, kept>>

MakeDirectory ==
    /\ pc = "mkdir" /\ Vacant(tree, Parent(filePath))
    /\ tree' = With(tree, Parent(filePath), Directory)
    /\ Go("create") /\ UNCHANGED <<local, witness, kept>>

CannotMakeDirectory ==
    /\ pc = "mkdir" /\ (~Vacant(tree, Parent(filePath)) \/ Fails("mkdir"))
    /\ FailWith("mkdir", Status(500))

Creatable == Vacant(tree, filePath) \/ IsFile(tree, filePath)

\* Mutant: opened without ios::trunc.
CreatedOverOld == IF IsFile(tree, filePath) THEN tree[filePath] ELSE File(<<>>)

\* The file as opening for output leaves it.
Created == File(<<>>)

\* saveFile opens: a file that is there is emptied in place.
OpenForWriting ==
    /\ pc = "create" /\ Creatable
    /\ tree' = With(tree, filePath, Created)
    /\ handle' = OpenAt(filePath)
    /\ kept' = {k \in kept : k.path # filePath}
    /\ Go("write") /\ UNCHANGED <<filePath, content, done, entries, read, witness>>

CannotCreate ==
    /\ pc = "create" /\ (~Creatable \/ Fails("open"))
    /\ FailWith("open", Status(500))

\* A block reaches the file at the position of the handle.
Stored(symbols) ==
    IF Unnamed(handle)
    THEN tree' = tree /\ handle' = [handle EXCEPT !.own = Written(@, done, symbols)]
    ELSE /\ tree' = With(tree, handle.at, File(Written(tree[handle.at].data, done, symbols)))
         /\ handle' = handle

\* Mutant: the last block may be skipped.
EverythingGivenUpToOne == done + 1 >= Len(content)

EverythingGiven == done = Len(content)

WriteBlock ==
    /\ pc = "write" /\ done < Len(content)
    /\ Stored(<<content[done + 1]>>)
    /\ done' = done + 1
    /\ Go("write") /\ UNCHANGED <<filePath, content, entries, read, witness, kept>>

\* The last block is short and stays in the buffer of the stream.
BufferBlock ==
    /\ pc = "write" /\ done + 1 = Len(content)
    /\ Go("close") /\ UNCHANGED <<tree, local, witness, kept>>

CannotWrite ==
    /\ pc = "write" /\ done < Len(content) /\ Fails("write")
    /\ FailWith("write", Status(500))

\* The answer of an upload that saveFile reported to be stored.
Acknowledge(whole) ==
    /\ Answer(Status(201))
    /\ kept' = IF filePath \in witness.touched THEN kept
               ELSE kept \cup {[path |-> filePath, data |-> content, whole |-> whole]}

Saved ==
    /\ pc = "write" /\ EverythingGiven
    /\ Acknowledge(TRUE)
    /\ UNCHANGED <<tree, witness>>

\* close writes what is left in the buffer.
CloseStores ==
    /\ pc = "close"
    /\ IF Unnamed(handle) THEN UNCHANGED tree
       ELSE tree' = With(tree, handle.at,
                         File(Written(tree[handle.at].data, done, <<content[done + 1]>>)))
    /\ Acknowledge(TRUE)
    /\ UNCHANGED witness

\* That it could not goes unnoticed.
CloseLoses ==
    /\ pc = "close" /\ Fails("close")
    /\ Acknowledge(FALSE)
    /\ witness' = [witness EXCEPT !.failed = "close"]
    /\ UNCHANGED tree

-----------------------------------------------------------------------------
(***************************************************************************)
(* Other processes                                                         *)
(***************************************************************************)
Change(path, node, inPlace) ==
    /\ changed < MaxChanges /\ changed' = changed + 1
    /\ tree' = With(tree, path, node)
    /\ handle' = IF inPlace THEN handle ELSE Adjusted(tree, handle, path)
    /\ witness' = Seen(tree', path, inPlace)
    /\ kept' = {k \in kept : k.path # path}
    /\ UNCHANGED <<pc, request, answer, filePath, content, done, entries, read, served>>

ForeignCreate(path, data) == Vacant(tree, path) /\ Change(path, File(data), FALSE)
ForeignMkdir(path) == Vacant(tree, path) /\ Change(path, Directory, FALSE)
ForeignRemove(path) == Removable(tree, path) /\ Change(path, Nothing, FALSE)
ForeignReplace(path, data) == IsFile(tree, path) /\ Change(path, File(data), FALSE)
ForeignRewrite(path, data) == IsFile(tree, path) /\ Change(path, File(data), TRUE)

Foreign ==
    \E path \in Paths \ {<<>>} :
        \/ ForeignMkdir(path)
        \/ ForeignRemove(path)
        \/ \E data \in ForeignData :
             \/ ForeignCreate(path, data)
             \/ ForeignReplace(path, data)
             \/ ForeignRewrite(path, data)

-----------------------------------------------------------------------------
Names == {Name(path) : path \in Paths \ {<<>>}}

Get ==
    \/ NotFound \/ NotSeen \/ Found \/ KindIsDirectory \/ KindIsOther \/ KindNotSeen
    \/ IndexExists \/ NextIndex \/ IndexFound \/ IndexNotSeen \/ NoIndex
    \/ OpenForReading \/ CannotRead \/ ReadBlock \/ ReadEnds
    \/ OpenDirectory \/ CannotOpenDirectory \/ EndOfDirectory \/ ScanFails
    \/ \E name \in Names : ReadEntry(name) \/ ReadGone(name) \/ EntryNotSeen(name)

Delete == RemoveTarget \/ CannotRemove

Post ==
    \/ NothingToStore \/ NowhereToStore \/ NoFilePart
    \/ NamedFile \/ \E name \in GeneratedNames : GeneratedFile(name)
    \/ DirectoryThere \/ DirectoryMissing \/ MakeDirectory \/ CannotMakeDirectory
    \/ OpenForWriting \/ CannotCreate \/ WriteBlock \/ BufferBlock \/ CannotWrite
    \/ Saved \/ CloseStores \/ CloseLoses

FilesNext == (\E r \in Requests : Accept(r)) \/ Get \/ Delete \/ Post \/ Foreign

-----------------------------------------------------------------------------
(***************************************************************************)
(* Properties                                                              *)
(***************************************************************************)
\* The tree stays one whatever the handlers and the others do: a name is made
\* in a directory only, and a directory is removed only when it is empty. No
\* handler leaves a file or a directory open.
TypeOK ==
    /\ tree \in [Paths -> Nodes] /\ WellFormed(tree)
    /\ request \in RequestType \cup {NoRequest}
    /\ filePath \in Seq(STRING) /\ content \in Seq(STRING) /\ done \in Nat
    /\ pc = "idle" => handle = Closed
    /\ served \in 0..MaxRequests /\ changed \in 0..MaxChanges

Answered(methods) == pc = "idle" /\ answer.status # 0 /\ request.method \in methods

\* GetHandler, DeleteHandler: each is several system calls. If another process
\* makes one change while they run, the answer is 500 or still the one that a
\* handler working in a single moment would have given at some moment, with a
\* file's whole content, whichever calls fail but stat: a file that cannot be
\* looked at is answered as one that is not there. Only a file that is rewritten
\* in place is read mixed. (A listing is compared below: it is not a picture of
\* one moment.)
AnswerWasTrue ==
    (/\ Answered({"GET", "DELETE"}) /\ answer.page # "listing"
     /\ witness.changes <= 1 /\ ~witness.inPlace /\ witness.failed # "stat")
    => answer.status = 500 \/ answer \in witness.answers

\* The calls whose failure leaves entries out, and nobody notices.
Omitting == {"opendir", "readdir", "entry"}

\* FileManager::generateDirectoryListing: a listing has no entry that was at no
\* moment in the directory, whichever calls fail, and unless one of opendir,
\* readdir and the stat of an entry does, every entry that was there all the
\* time, whatever others create and remove while it is made. (A name that is
\* given to another file may be missed: to readdir it was removed.)
ListingIsFaithful ==
    Answered({"GET"}) /\ answer.page = "listing"
    => /\ answer.entries \subseteq witness.shown
       /\ witness.failed \notin Omitting => witness.throughout \subseteq NamesOf(answer.entries)

\* What is in the file of an upload answered with 201: its text, or all but the
\* last block of it if the close that should have written that has failed.
Left(text, whole) == IF whole THEN text ELSE SubSeq(text, 1, Len(text) - 1)

\* PostHandler, FileManager::saveFile: until somebody removes or overwrites it,
\* the file of an upload answered with 201 has its text and nothing else; but
\* the last block is missing if the close failed, which saveFile does not
\* notice, and the client is told 201 nevertheless.
AcknowledgedIsKept ==
    \A k \in kept : Node(tree, k.path) = File(Left(k.data, k.whole))

TextOf(r) == IF r.multipart THEN parse(r.body, r.filename).content ELSE r.body

\* PostHandler, FileManager::saveFile: an upload answered with 500 leaves the file
\* as it was or with a part of the new text from its beginning; old and new text
\* are never mixed.
FailedUploadIsPrefix ==
    Answered({"POST"}) /\ answer.status = 500 /\ filePath \notin witness.touched
    => \/ Node(tree, filePath) = witness.before
       \/ \E n \in 0..(Len(TextOf(request)) - 1) :
            Node(tree, filePath) = File(SubSeq(TextOf(request), 1, n))
=============================================================================
