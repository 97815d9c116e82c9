# Forky: a verification project

Forky is an HTTP/1.1 server in C++98: one process, one thread, one epoll loop,
static files, uploads, deletions and CGI programs, configured by an nginx-like
file. This directory holds TLA+ modules translated from its source, TLC
configurations that check them on small instances, and TLAPS proofs that hold
for every value of the constants. Paths below are relative to the repository;
`Client.cpp:349` means line 349 of `src/src/server/Client.cpp`.

## 1. Inventory

| Component | State it keeps | Operations | Talks to |
|---|---|---|---|
| `EventLoop` (`server/EventLoop.cpp`) | epoll descriptor, `_interests[fd]` | `run`, `addServerSocket`, `addClientSocket`, `setWritable`, `remove` | calls the five callbacks of `Server` |
| `Server` (`server/Server.cpp`) | `_clients`, `_fd_to_port`, `_server_fds` | `onReadable` (accept or `handleClientData`), `onWritable`, `onHangup`, `onTick`, `cleanupClient`, `cleanupExpiredClients`, `addListenPort`, `stop` | `Client`, `HttpController`, `RequestRouter`, `EventLoop` |
| `Client` (`server/Client.cpp`) | raw buffer and its offsets, request, response, response buffer and how much of it is sent, state, header state, last activity | `tryParseHeaders`, `tryParseBody`, `setResponse`, `handleWrite`, `resetForNextRequest`, `consumeBuffer`, `isExpired` | `HttpRequest`, `HttpResponse` |
| `HttpRequest`, `HttpResponse`, `StatusCode` | the parsed request, a pointer to its body; status, headers, body | `parseHeaders`, `setBodyReference`, `decodeChunkedBody`, `isKeepAlive`; `createErrorResponse`, `serialize` | - |
| `HttpController` | none | `processRequest`, `executeCgi`, `serveErrorPage` | router, handlers, `CgiExecutor` |
| `RequestRouter` | none | `findServerForRequest`, `findLocationForRequest`, `isMethodAllowedInLocation` | configuration |
| `CgiExecutor`, `CgiResponse` | environment, pipes, child, temporary body file | `execute`; parsing the program's output | the operating system |
| Handlers, `FileManager`, `FileUtils`, `PathResolver`, `MultipartFormDataParser` | the file system | GET, POST, DELETE | the operating system |
| `ConfParser`, `ConfCascader`, `ConfigManager` | the directive tree | tokenise, parse blocks, inherit, look up | - |
| Start-up (`main.cpp`, `ConfApplicator`) | - | read the configuration, bind, run | all |
| `StringUtils` | none | `toBytes`, `trim` | - |

What happens to one connection: the peer's bytes wait in the kernel; a batch of
`EventLoop::run` hands the connection to `Server::onReadable`, which takes at
most `BUFFER_SIZE` bytes with one `recv`, appends them to the raw buffer and
parses from the current read offset; a complete request is handled at once,
synchronously (a CGI program included, which blocks every other connection); the
response is left in the `Client` and `EPOLLOUT` is asked for; `Server::onWritable`
sends it in as many pieces as the socket takes and then either closes the
connection or consumes the request from the buffer and starts the next.

### What is hard here, and what makes each component correct

* **Client**: four offsets into one buffer shared by pipelined requests, unsigned
  arithmetic, compaction at a threshold, two ways of delimiting a body, error
  answers given before a body has arrived. *Correct when* every request is read
  from its first byte, is handled once, with its own body, all of it received;
  when a response is sent once, whole, and the connection ends when the server
  announced that it would.
* **Server and EventLoop**: events are a snapshot taken at `epoll_wait`; a
  handler changes what a later event of the batch refers to; descriptors are
  reused by the kernel; a connection expires, hangs up or is reset between any
  two calls. *Correct when* an event never acts on a connection it was not
  reported for, the tables and the interest set agree, write interest is there
  exactly while something waits to be written, and silent connections go away.
* **CgiExecutor**: a child, three descriptors, a temporary file, a select loop in
  one-second slices, a timeout and a wait without one. *Correct when* every exit
  releases everything, output is whole or an error, and it always returns.
* **HttpController, RequestRouter, PathResolver**: the order of redirects, method checks, CGI
  detection and handlers; exact, extension and prefix matches. *Correct when* the
  most specific location wins whatever the order of the configuration.
* **Handlers and file utilities**: several system calls with the file system
  changing in between, partial failure. *Correct when* a path never leaves the
  root and an error leaves nothing behind.
* **Configuration and start-up**: one position in the tokens shared by functions that call each
  other, inheritance over three levels, merging of error pages, one socket per block. *Correct when*
  a file means what it says or is refused, the innermost setting wins, and the server listens
  where it was told to.
* **Chunked and multipart bodies**: a search for the end in what happens to have arrived, sizes
  and data in one text. *Correct when* what comes out is what the peer put in.

`PROJECT.json` lists every hazard with the line where it bites, the properties
that cover it, or why none does.

## 2. Plan

In this order, the most important behaviour first:

| Module | Models | Status |
|---|---|---|
| `Client` | class `Client` as operators on its fields | done |
| `Connection` | `Client` under `Server`'s handlers, the loop, a peer, time | done |
| `ClientPhase` | abstract: what the loop depends on in a client; implemented by `Connection`, used by `EventLoop` | done |
| `EventLoop` | descriptor tables, interests, batches, accept, reuse, double close, listening sockets, expiry, SIGPIPE | done |
| `Cgi` | `CgiExecutor::execute` and `HttpController::executeCgi`, with the program and its pipes | done |
| `ConnectionProofs` | the safety properties of `Connection`; that it implements `ClientPhase` | done |
| `EventLoopProofs` | the safety properties of `EventLoop` | done |
| `Router` | server and location choice, path resolution, dispatch | done |
| `RouterProofs` | `TypeOK`, `ServerIsBest`, `LocationIsBest`, `AliasReplacesLocation` | done |
| `Cascade` | inheritance, merging and look-up of directives | done |
| `Text`, `Chunked` | `std::string` as symbols; `tryParseChunkedBody`'s search and `decodeChunkedBody` | done |
| `Multipart` | `MultipartFormDataParser` | done |
| `FileSystem`, `Files` | GET, POST, DELETE as system calls on a tree that others change | done |
| `Upload` | composes the three above: an upload from the wire to the disk | done |
| `ConfSyntax` | `ConfParser` over tokens | done |
| `Startup` | composes `ConfSyntax` and `Cascade` with binding: `main` up to the event loop | done |
| `CgiProofs` | the safety properties of `Cgi` | done |
| `StartupProofs` | `Cascade`'s properties, for any configuration and for any file; `NothingIsSkipped`, `ParsedAsWritten`; `StartupTypeOK`, `ListensWhereConfigured` | done |
| `FilesProofs` | the invariants of the handlers of `Files` | done |
| `UploadProofs` | the decoder's invariant, and the theorems about an upload and the requests after it | done |
| `HttpSession` | abstract: a connection as a queue of requests answered in order; refined by `Connection` | planned |

Abstract specifications worth stating next: `HttpSession` (order, once, whole) for
`Connection`, beside `ClientPhase`; for `EventLoop`, a set of connections that
are taken from the backlog, served and dropped, without descriptors.

The theorem worth proving next is that refinement of `HttpSession`: every other
safety property that a run checks is proved.

## 3. Modules

### `Client`

The object is the record of type `ClientType`; its fields are the members of
`Client.hpp:26-46` that control anything, under their names without the
underscore (`headerEnd` is `_header_end_pos`, `conf` says whether
`_locConf`/`_serverConf` have been set). Each method that changes the object is an operator
from records to records with the method's name.

*Data abstraction.* The stream a peer sends is a sequence of requests, each with
the absolute position of its first byte. A "byte" of the model stands for a run
of bytes that no property splits: the last one of a header holds the blank line,
the last one of a chunked body holds `0 CRLF CRLF`. `_raw_buffer` is always one
slice `(base, got]` of that stream, since it is only appended to and erased at
the front, so the buffer is two positions. `std::string::find` becomes the first
mark after a position that has been received. What `parseHeaders` makes of a
request is part of the request (`error`, `keep`, `allowed`, `chunked`, `body`);
text that starts inside a request parses as a malformed request line (400), which
is what it is unless a peer writes a body that is itself a request. `zero` marks
a header that contains `0 CRLF`, the text that `tryParseChunkedBody` searches
for. Body data never contains that text or a blank line here: what happens when it
does is the subject of `Chunked`.

`getBufferLength` wraps as `size_t` does (`SIZE_MAX`), `std::string::erase` takes
what there is. A response is its status, the position of the request it answers,
and what decides and what announces the end of the connection: `asked`, whether the
request asked to keep it, which is what `handleWrite` looks at beside the status; `own`,
a `Connection` header that a CGI program wrote (`CgiResponse.cpp:63`); and `keep`, what the
header says once `serialize` has added one where there was none (`Announces`). A
program's header stays as it is and decides nothing. Names are compared letter by letter
(`HttpResponse.cpp:197`): a program's `connection` in small letters is sent beside the
server's `Connection`, which is the one that `keep` is about.

### `Connection`

Adds what is around the object: the peer (`Compose`, `Deliver`, `HangUp`), the
clock (`Elapse`), `epoll_wait` (`Poll`), the handlers in the order of
`EventLoop.cpp:134-161` (`OnError`, `OnReadable`, `OnWritable`, `OnHangup`,
`OnTick`). Peer and clock may act between any two handler calls: the events of a
batch are stale. `HandleClientData` is the whole of `Server.cpp:215-319` with its
early returns (`Step1`, `Step2`, `Step3` and `Parsed` are the steps the code's
comments number). `OnWritable(n)` sends any number of bytes the socket could take.
After `Cleanup` the object is gone; events of the batch that remain find no client.

`wire`, `handled` and `lapses` are history variables: the response bytes sent,
the requests given to `processRequest`, and the three events by which the code
gives up a guarantee. They are read by properties only. `lapses` holds
`early413` (a 413 was written and the connection kept before the body had
arrived), `outOfWindow` (a chunked body was completed only after its terminator
had left the last 200 bytes) and `replaced` (Step 2 ran on a client that was
already sending and replaced its response). Properties that these events break
say so in their premise, and the behaviour itself is in the model; all three are
reachable in the runs.

### `MCConnection`

The shapes of requests and the sets of them that the configurations use.

### `ClientPhase`

The abstraction of a `Client` that `EventLoop` is built on: one of four phases,
which decide `needsWriteEvent` and the exemption of `isExpired`, and the phases a
call of `handleClientData` may lead to from each (`AfterRead`). `Connection` is
checked to implement it: `ImplementsClientPhase` is `ClientPhase!Spec` with the
phase computed from the state and the response of the client and `asks` from the
registered interest. Every step of `Connection` is one of `Receive`, `Finish`,
`Leave` or a stutter, so what `EventLoop` assumes of a client is what the client does.

### `EventLoop`

All connections at once. `owner[fd]` and `epoll[fd]` are the kernel's tables,
`interests` and `clients` are `_interests` and `_clients`; that the four agree is a
property, not a definition. `Poll` is `epoll_wait`: any `MAX_EVENTS` of the ready
descriptors in any order, each with what is ready now and what it is registered
for. `OnAccept` (`handleNewConnection`, with the failures of `fcntl` and
`epoll_ctl`, which close the new descriptor), `OnData`, `OnWritable`, `OnHangup` and
`OnTick` are the handlers, dispatched in the order of `EventLoop.cpp:134-161`. A
handler looks at the tables as they are, not as they were when the batch was
filled. `accept` returns the lowest free descriptor, which is how a
number comes back within one batch. `CleanupClients` is `cleanupClient`: it closes
the number it is given whether or not there is a client, as the code does.
An entry of a batch also says whose event it is (`of`), a history component that
only properties read.

Left out: `EPOLLERR`/`EPOLLHUP` on a listening socket, which Linux does not report
for one that listens; what is in the bytes; a `recv` interrupted by a signal.
After a reset, unread data may or may not still be readable. `MCEventLoop`
declares the symmetry of connections.

### `Cgi`

One call of `CgiExecutor::execute`, the program it forks and the two streams
between them, and the status `executeCgi` makes of the outcome. The parent's
program counter follows the code: `Access`, `MakePipes` (with the pipes that were
made before one failed), `Spool` (the body to a temporary file), `Fork`, then
`LoopTop`, `Select`, `SelectExpires`, `SelectFails`, `Read`, `ReadFails` (an error other
than `EAGAIN` closes the stream like its end, `CgiExecutor.cpp:456` and `470`) and, after the
loop, `Close` and `Wait`. `held` is the set of descriptors the parent has open, `linked`
says that the temporary file has its name. The program writes to either stream
while its pipe has room, closes streams, ends, or does not; a descendant may keep
streams open after it; it may ignore SIGTERM.

Abstracted: output is a number of chunks, one of which (`blank`) holds the blank
line `CgiResponse::parse` needs. Output is never one of the two marker texts
`execute` itself returns for a missing script and a timeout. `execute`
returns the empty text for a failed call, and a program that ends with a non-zero
status is treated as one that ends with zero, whose output is used. Of the headers a program
writes, `Connection` has a place in `Client` and `Connection`; the others are copied as they are, a
`Content-Length` of the program's own included, and left out. A short
write to the temporary file is left out, as is a `Status` of zero or below.

### `Router`, `MCRouter`

One request on its way from the parsed header to whoever answers it:
`findServerForRequest` (`ExamineServer` is a turn of its loop, `ChooseServer` what
follows it), `findLocationForRequest` (`ExamineLocation`, `ChooseLocation`), and
`Dispatch`, which is the method check of `Server.cpp:274-282`, `processRequest` and
`getCgiPath`. The two pointers of the first loop and the three of the second are
indices, 0 for NULL. `resolvePath` and what it calls are operators. A path is a
sequence of slashes and names, so that `/a`, `/a/`, `/ab`, `/a.x` and `/a//b`
are the different things they are to the comparisons of the code; backslashes are
left out. A query is one name at the end of the path (`Uri`), which the router and
the CGI lookup cut off and the file handlers do not.

The parser allows at most one `listen`, `server_name`, `alias` and `root` per block, and
the cascade has copied an inherited `root` into every location without an alias, so that a
server block's own need not be looked at. `MCRouter` gives the configurations: server
blocks of every kind without locations, and every sequence of locations from a
pool.

### `Cascade`

`ConfCascader::applyCascade` on a copy of the parsed configuration: `CascadeToServer`,
`CascadeToLocation` (from the server, then from http) and `applyDefaultValues` are the body of
its loops and what follows them. A directive of which a block has at most one is a value or `None`;
`error_page` directives are a sequence of maps from codes to pages. `Collected` and
`Merged` are the maps `cascadeErrorPage` builds; `findErrorPagePath` is
`ConfigManager`'s, applied to the result. It is checked as a part of `Startup`, on what the
parser makes of a file. `return` of a server block is left out: the
parser takes it, nothing reads it. Directives that are not inherited (`limit_except`, `alias`, `cgi_pass`,
`listen`, `server_name`) are left out as well.

### `Text`, `Chunked`

Here a symbol is a symbol: `CR` and `LF` are `"r"` and `"n"`, positions count from 0 and
`find` returns `npos`, as in the code. A transfer is what a peer means: chunks, a chunk
extension, and a place where a symbol is lost on the way, or none; `OnTheWire` writes it
out. `Receive(n)` is any `recv` followed by `tryParseChunkedBody`'s search
(`EndOfBody`, with its window). `DecodeChunk`, `DecodeLastChunk`, `DecodeFails` and `DecodeRunsOut` are the
four ways a turn of `decodeChunkedBody`'s loop ends; `Verdict` is what the caller
makes of the text. Positions wrap at `SIZE_MAX`. Left out: `strtoul` also takes a sign and `0x`
in front of a size, which no transfer has; header fields after the last chunk.

### `Multipart`

`parse` and `getFilename` over symbols, with `--boundary` and each header line as one
symbol: the search from boundary to boundary, for the first part with a file name, and the
two bytes at the end of a part that are not content.

### `FileSystem`, `Files`

`FileSystem` is the operating system's part: a tree of directories and files, and handles.
An open file stays readable after its name is gone; a directory that is being read must
return the names that were there all the time and may return those that came or went.

In `Files` every system call of `GetHandler`, `PostHandler` and `DeleteHandler`, with those of
`FileManager`, `FileUtils` and `PathResolver::findIndexFile`, is an action: `stat` for existence,
`stat` for the kind, one per index file, `open`, each block read or written, `opendir`,
`readdir` with its `stat`, `mkdir`, `close`, `remove`. Between any two of them another process
may create, remove, replace or rewrite a path (`Foreign`), and each call may fail
although it should not (`Faults`): `open`, `read`, `write`, `close`, `opendir`, `readdir`, `mkdir` and
`remove`, and every `stat`. To the code a `stat` that fails means that nothing is there, or no directory
(`NotSeen`, `KindNotSeen`, `IndexNotSeen`, `DirectoryMissing`), or leaves an entry out of a listing
(`EntryNotSeen`); a `readdir` that fails is the end of the directory (`ScanFails`). Only failures
of `closedir` and of `close` after reading are left out, on which nothing depends. A symbol of
content is a block of the 4 KB that `saveFile` writes at
a time, written whole or not at all; the last one may stay in the buffer of the stream until `close` (`BufferBlock`,
`CloseStores`, `CloseLoses`). `parse` and `resolvePath` are computed elsewhere; a request
brings the path it was resolved to, `NoPath` if there is none. `witness` and `kept` are
history variables; an upload that was answered with 201 is in `kept` whether its last block was
written (`whole`) or lost by a failing `close`.

### `Upload`, `MCUpload`

`Upload` puts them together: a transfer is received and decoded, `HandOver` gives the
request to the handler as `processRequest` does, and once it is answered further
requests may come. `sent` is history: what the peer meant to be stored. `MCUpload` gives bodies, their cuts into
chunks, trees and requests.

### `ConfSyntax`

`parseString`, `parseHttpContext`, `parseServerContext` and `parseLocationContext` over the
tokens of a file. The functions call each other, so the blocks they are in the middle of are a
stack, `contexts`; each action is one turn of the innermost one's loop: `OpenBlock`,
`SetDirective`, `CloseBlock`, `ThrowError`, and `SkipToken` outside of the http block. `Accepts`
says what each directive's function takes as arguments, by sets of words (`Absolute`,
`Sizes` and so on) where the code looks at characters. `parsed` and `written`
are history: the words taken inside the http block, and the block a file was written from, which is
`Unwritten` for a file that is just words. `HttpText` writes a block out and `Meaning` is
what the program should make of it. The tokenizer is left out: its words are the input.

### `Startup`, `MCStartup`

`main`: the parser runs (`Parsing`), what it returned becomes the input of the cascade
(`CallApplyCascade`; `HttpDTO` and `parseListenAddress` are what the parser stores in the
`ConfigDTO`), the cascade runs (`Cascading` is a step of `Cascade`), and
`ConfApplicator::applyConfig` calls `Server::addListenPort` for one block after the other. `sockets` is the
process's table of listening sockets, `interest` the epoll set, `_server_fds` and
`_server_ports` the server's own tables. `bind` refuses an address that
`inet_pton` does not take and one that clashes with a socket that is open, and `ListenFails` lets
any call fail, as it does when another program has the port. Ports go through
`htons`, and words become ports by `atoi`; a code of `error_page` is a word that stands for the number
it is read as (`ConfParser.cpp:649`), and a code repeated in one directive is kept.
`MCStartup` writes the files. `IsWrittenHttp` says which blocks a file can be written
from: each directive is one that its block takes, with arguments that it takes. `FilesAssumption` is
that a file said to be written from a block is such a block's text.

### `ConnectionProofs`, `EventLoopProofs`, `CgiProofs`, `RouterProofs`, `StartupProofs`, `FilesProofs`, `UploadProofs`, `LeastNaturals`

Section 6. `FilesProofs` holds the lemmas about the steps of `Files`, which are cited by
the theorems of `UploadProofs` about `Upload`'s `Spec`. `LeastNaturals` holds what the others need of the
natural numbers: that a set of them has a least and a bounded one a greatest, induction
along an interval, up and down, and that a function defined by recursion on an interval
exists.

## 4. Runs

| Run | Question |
|---|---|
| `connection_safety` | Two pipelined requests, each of any of eleven shapes: with and without body, chunked (empty, good, too large), longer than the limits, forbidden, malformed, closing, with a header that contains the text the search for the last chunk looks for. Delivered in any pieces, with hangups and resets, answered by handlers or by programs that write a `Connection` header: are they framed, handled once, in order, with their bodies, and answered once, whole, and by nothing after the last answer? Does the connection implement `ClientPhase`? |
| `connection_live` | A patient peer that waits for each answer gets it; a silent one is dropped |
| `eventloop_tables` | Three connections, two descriptors, batches of two: do the tables agree, are events always about the connection they were reported for, is `recv` only called with something to read, and write interest registered exactly when needed? |
| `eventloop_live` | With the only descriptor in use, is a connection in the backlog taken once the accepted one falls silent? |
| `cgi` | Every order of output, closing, exit, timeout and failing calls: is everything released, is an answer made of all the output or exactly of the part before a failing call, and does `execute` return? |
| `router` | Every order of three server blocks, and every sequence of up to three of eight locations, against 60 requests: is the block, the location and the file name the one a reader of the configuration would say? |
| `upload` | Chunked uploads in every cut, arriving in any pieces, then a second request of any method, on trees that another process changes between the system calls, any of which may fail: is what was sent decoded and stored (all but the last block, if `close` fails), were the answers true, and what do failures leave behind? |
| `startup` | Files with all combinations of directives, error pages and listen addresses, and every edit of one token of a file that uses everything: is the file parsed to what was written, or refused; does the innermost block decide; does the server listen where it was told to? |
| `connection_refused_body` | *violation*: a refused body is read as a request |
| `chunked_end` | *violation*: a chunked body is cut at a `0` at the end of a line with a blank line after it |
| `eventloop_sigpipe` | *violation*: a peer that sends FIN and then RST ends the server |
| `cgi_stubborn` | *violation*: a program that ignores SIGTERM outlives the timeout, and the server waits for it |

*Bounds.* Two requests are what framing needs: every offset error shows at the
start of the second, and the third request starts from the state the second did
(`resetForNextRequest` builds the object anew except for the buffer). Header and
body are one to four units, against a compaction threshold, a window and limits
of two: each comparison is reached on both sides and at equality. `BUFFER_SIZE` of four
(three in the other runs) lets one `recv` cut inside a body, end at a request or cross into
the next. Responses are two units, so that a write can be partial. In
`connection_safety` a program's `Connection` header may say either thing (`ProgramHeaders`); no
property of the two other runs looks at what is announced, and they have none. The timeout is
0 in every run: a connection expires when its idle time exceeds the timeout, so
one tick without traffic is enough, at any point of the exchange, and both the safety
and the liveness properties have to survive it. `SIZE_MAX` is 1000: no sum of the
instance comes near it, only a wrap does.

`eventloop_tables` has three connections over two descriptors, so that one waits
while two are open and takes over a number that was closed in the same batch;
two events in a batch are what it takes for the first handler to change what the
second is about, and with two descriptors and a listening socket three can be
ready, more than fit. The timeout is 0 ticks: expiry may follow any tick. The
connections are symmetric (no property of that run is temporal).
`eventloop_live` has two connections and one descriptor. In the `Cgi` runs a pipe
holds one chunk and the program writes up to two to each stream, so that it can
block on a full pipe and the blank line can be in the first chunk, the second or
none; the timeout is one second, so that the loop goes round before and after it.

In `router` three blocks or locations are what it takes for one to come between two
that compete. The pool of locations has two exact ones, two
extensions that match one path, and the nested prefixes `/`, `/a`, `/a/`, `/a/b`; the
ten paths end in a slash, in a name that continues a prefix, in an extension, or
have a doubled slash, and one has no slash at all.

In `upload` chunk sizes are binary: a hexadecimal size ends in 0 from 16 bytes on, a
binary one from two, and that a size may end in 0 is what the search for the end trips over. For
the same reason the window of 200 bytes is 16 symbols (some bodies fit into it, some do not) and `MAX_BODY_SIZE` 27 (the
longest multipart body fits, 28 symbols do not). Bodies have line breaks, blank lines, zeros
and `0 CRLF` in them, are cut into one or two chunks at any place, have an extension
or not, or lose any one symbol. One change by others (`MaxChanges` is two) is what each property
needs to be interesting, and the second what a handler needs to see a path go and come back.
Two requests (`MaxRequests`) let the second one find what the first left, or remove it.
Content of two blocks has a first, a last and a place between them.

In `startup` there are three levels because a value may come from either of two
outer ones, a second location and a second server to see that nothing crosses over, and two
`error_page` directives per block with pages of their own, which is what it takes for the first
and the last of them to differ. The files come in four families: which of the directives that are
inherited a block sets (in two groups, a directive does not depend on another); error pages; one to three server blocks with each of eleven listen addresses; and
one file with every directive there is, and every edit of a token of it: left out, added,
replaced, or repeated. Every edit of one token is what reaches each error of the parser at each
depth.

## 5. Properties

Safety: `Framing` (the parser stands at a request's first byte), `BodyWhole`,
`HandledInOrder`, `WireFramed` (the response stream is a sequence of whole
responses to ever later requests), `CloseHonoured` (nothing is sent after a response whose status
closes the connection, whose request did not ask to keep it, or in which the server itself announced
the end before the first byte was sent; the `close` of a CGI program is announced and not
heeded, and is no part of it), `HeaderRefusal` (a 431 is
only given to a header that is too long: pipelined bytes in front of it do not
count; a program that answers with a 431 of its own is not meant), `InterestMatches` and the type invariant.

Liveness: `WholeRequestIsAnswered` and `SilentIsDropped`, under `FairSpec`, which
asks for weak fairness of the loop and nothing else: `EventLoop::run` never stops and handles
every event it was given. That a peer reads (`PeerReads`: the socket becomes
writable again and again while something waits), stays and is served before
its timeout are premises of the first property, that time passes is one of the
second. The first is stated for a peer that waits for each answer; for a
pipelining one it does not hold in the code, since a request that is already in
the buffer is looked at only when more bytes arrive (`Server.cpp:321-332`).

`EventLoop`: `TablesAgree` (the kernel and the three maps of the server say the same
between any two handlers), `WriteInterest`, `EventsAreOwn` (a stale event finds
its own connection or, if its own earlier handler closed it, a free number) and
`ReadsFindSomething` (the code ends the connection on any -1 of `recv`, `EAGAIN`
included; this says it never happens to a live one). `QueuedIsTaken`, under weak
fairness of the loop and of the clock, has as premises that the process lives (see
the findings), that the accepted peers fall silent, none of them inside a body
(`isExpired` exempts those without a limit), and that responses are finite
(a write that takes bytes resets the idle time, so strong fairness is asked of the
write that is a response's last).

`Cgi`: `Released` (every exit after the pipes were made closes them, removes the
file and reaps the program; an exit because a pipe could not be made leaks the
earlier ones, `CgiExecutor.cpp:296-299`, which `faults` records), `AnswerIsWholeOutput`
(unless the time runs out, the answer is 200 exactly if what was read of stdout has a blank line, and what was
read is all there was unless a `select` or a `read` of stdout failed: then the part is sent as the
whole) and `Returns`, under weak fairness of
the parent and the clock. Of the program it assumes that it heeds
SIGTERM and that it ends once both streams are closed, by itself or on it by a failing
`select` or `read`: `waitpid` has no limit
and no kill before it when the streams ended in time.

`Router`: `ServerIsBest` and `LocationIsBest` say which block and which location
serve a request without regard to where they stand, as a comparison of any two
that match; the loops find it in one pass. `IsIn` is what a prefix stands for, a directory
and what is in it; the code's four cases of slashes come down to it.
`LocationIsBest` has as premise that at most one extension
matches: of `.gz` and `.tar.gz` the later one wins, and only it is asked for the method.
`AliasReplacesLocation` relates router and resolver, which compare path and location
each in its own way: what the router sent to a location, the resolver finds in it.

`Cascade`: `InnermostWins` and `PageIsOfInnermost` compare the result with the configuration
as it was written: three passes of copying and merging, in an order that
matters, amount to asking the blocks from the inside out. A block that names a code in two
directives has two pages for it: the look-up takes the first (`ConfigManager.cpp:13`), a merge
keeps the last (`ConfCascader.cpp:123`), so that which one is served depends on whether a
block around it has error pages; `PageIsOfInnermost` allows both.

`Upload`: `ChunksAreUndone` is the reference for the search and the decoder: cut up and
delivered in any way, the body comes out as it was put in and is taken off the buffer whole.
Its premise `Unmistakable` is the exact condition under which the search is right, and a peer cannot be
expected to meet it: see the finding. `StoredIsSent` goes from the peer's meaning to the
disk, and says what is missing there when the `close` failed: the last block, which the stream had
kept until then, and no more. `AnswerWasTrue` compares handlers that make several calls with ones that work in a
single moment: with one change by others during a request, the answer is 500 or one that was right at some
moment. With two it need not be (a directory that becomes a file and a
file that becomes a directory), a file rewritten in place is read mixed, and a path that `stat`
cannot look at is answered as if nothing were there; all three are premises.
`ListingIsFaithful` is what can be said of a listing, which is not a picture of one moment: no
entry that never was there, whatever fails, and none missing unless one of the three calls failed
whose failure the code passes over (`Omitting`).
`AcknowledgedIsKept` and `FailedUploadIsPrefix` say what an upload leaves, whether
answered with 201 (`Left`: its content, or that without the last block after a failing
`close`) or with 500.

`ConfSyntax`: `ParsedAsWritten` for files that were written from blocks, `NothingIsSkipped` for any:
of what stands in the http block, all of it is in the result, or the file is refused.
`Startup`: `ListensWhereConfigured`, and in the type invariant that the two tables of the server and
the epoll set name the same sockets. `Ended` is the only stutter: start-up gets stuck nowhere else (deadlock is checked).

Every property of a passing run has a mutant: an operator next to the one it
changes (`BufferLengthOfAll` beside `BufferLength`), with which TLC finds the
property violated.

### Findings

* `Client.cpp:343-349` records the length of a refused body so that the buffer
  is emptied of it. The 413 is given once the first body byte is there and
  `resetForNextRequest` consumes bytes that have not arrived: past the compaction
  threshold they are forgotten and the rest of the body is parsed as a request.
* `Client.cpp:304` takes "the whole chunked body part" off the buffer. Its end is the
  first blank line after the first `0 CRLF` in the last 200 bytes. A chunk of 16 bytes (size
  `10`) whose data begins with a part's headers, or a chunk whose data ends in `0` followed by
  one with a blank line in its data, ends the body too early: 400, or a shortened body, and the
  rest is read as the next request.
* `Client.cpp:136` treats every error of `send` by closing the connection, but
  `send` (`Client.cpp:130`) has no `MSG_NOSIGNAL` and SIGPIPE is not ignored: a
  reset that follows a FIN, between `epoll_wait` and the write, ends the process.
* `CgiExecutor.cpp:480` says that a timeout ends the child. SIGTERM is sent
  once; a program that ignores it keeps the `waitpid` behind it, and with it the
  whole server, from returning.

Seen on the way and in the models, without a run of their own:

* `EventLoop.cpp:154` says that a hangup is handled after reading and writing. A request and
  the FIN behind it come in one event without `EPOLLOUT`: the response the read prepares is
  deleted by `onHangup` (`OnReadable`, then `OnHangup` of `Connection`).
* `tester_dj.conf:15` says that a location limited to GET allows HEAD by itself.
  `isMethodAllowedInLocation` looks for the method as it is written: HEAD gets 405 (`Dispatch`).
* `saveFile` does not look at the result of `close`: on a full disk an upload is answered with 201 and
  its last block is missing (`CloseLoses`), although `FileManager.hpp:59` has it return false on failure.
* A directory that cannot be opened is listed as empty, with 200 (`CannotOpenDirectory`); one whose
  `readdir` fails is listed as far as it was read (`ScanFails`).
* A CGI program that writes `Connection: close` has it sent, and the connection is kept and used for further
  responses if the request asked to keep it; one that writes `keep-alive` to a request that did
  not ask for it is followed by the end of the connection (`WithConnection`, `Announces`).
* A failing `read` of a program's output is taken for its end: what has come so far is answered with 200
  if it has the blank line (`ReadFails`).
* A chunked body of zero length with an extension is answered with 400 (`Verdict`).
* A port beyond 65535 is cut to 16 bits (`htons`), so that `listen 65616` is port 80; a host that is not an address
  (`localhost`) ends the start-up; two server blocks on one address and port do too, although
  `findServerForRequest` chooses among blocks of one port by name. Of two blocks on one port of two addresses, both get
  a socket, but a request is given to a block by port alone.
* What stands after the brace that ends the http block is skipped without a word (`SkipToken`), also when that
  brace was one too many and server blocks follow.

## 6. Proofs

`TypeCorrect == Spec => []TypeOK` holds for every stream, buffer size, threshold
and limit (`SizesAssumption`, `LoopAssumption`). `TypeOK` says more than types:
`base <= got <= sent`, that is, the buffer never starts beyond its end and the
server never holds a byte the kernel has not delivered, and all offsets are
naturals, so that no `size_t` other than the one `BufferLength` models goes below zero.
The invariant is inductive as it stands. The argument is one lemma per method:
`Keeps(c, d)` says that `d` is well formed and that the method did not move the
end of the buffer; `CompactKeeps`, `ConsumeKeeps`, `TryParseHeadersKeeps`,
`TryParseBodyKeeps`, `ResetKeeps` and so on establish it for each, and
`ParsedKeeps` and `HandleWriteKeeps` put them together in the order the handlers call
them. Two places are not obvious: `headerEnd` is a difference of positions and
needs that `find` returns a mark beyond where it began (`FirstIsFound`, from
`MinIsLeast`, from well-foundedness of the naturals), and a chunked body's
length needs that the search never starts before the body.

`InterestCorrect == Spec => []InterestMatches` is inductive relative to
`TypeOK`. Its one real step is `ParsedKeepsWaiting`: whichever early return
`handleClientData` takes, bytes that arrive while a response waits do not make the
client forget it.

`EventLoopProofs` proves, for any sets of connections, descriptors and listening
sockets (`DescriptorsAssumption`) and any batch size and timeout, all safety
properties of `eventloop_tables`:

* `TypeCorrect`, by one lemma per handler. `accept`'s lowest free descriptor needs
  that a non-empty set of naturals has a least member.
* `TablesCorrect == Spec => []TablesAgree`. `TablesAgree` alone is not inductive:
  that no connection has two descriptors needs that one in a backlog has
  none. `TablesInv` adds that a connection is in one place: in one backlog and
  once (`QueuedOnce`), not open while it is queued (`QueuedNotOpen`), and
  nowhere before it is made (`NewIsNowhere`).
* `InterestCorrect == Spec => []WriteInterest`, relative to the two before.
* `EventsCorrect == Spec => []EventsAreOwn` and `ReadsCorrect ==
  Spec => []ReadsFindSomething`, from `EventsInv`: a batch names a descriptor once
  (`NamedOnce`), an entry's descriptor is still its owner's, except perhaps for the
  first, which then has none (`EntryOwned`), and an entry with `IN` left has
  something to read (`EntryReadable`). The steps that matter are `AcceptKeepsEvents`
  (a new connection gets a free number, and no later entry names a free one, since
  a handler closes only its own entry's descriptor) and `IdleKeepsEvents` (`OnTick`
  may close any descriptor, but only when the batch is empty).

`RouterProofs` proves, for any configuration and request (`RouterAssumption`):

* `TypeCorrect`, inductive as it stands.
* `ServerCorrect == Spec => []ServerIsBest`, from `ServersInv`: among the blocks
  before `at` on the port (`SeenOnPort`) none has the name, and the two pointers are
  the first default one and the first one of them. `FirstStays` is the step of the loop:
  a new largest index is the first only of a set that was empty.
* `LocationCorrect == Spec => []LocationIsBest`, from `LocationsInv`: each of the three
  pointers is a match of its kind among the locations before `at`, or 0 if there is
  none, and no prefix seen is longer than the longest. `PrefixIsDirectory` shows that
  the code's comparison of prefixes, with its cases for a slash at the end, is `IsIn`.
* `AliasCorrect == Spec => []AliasReplacesLocation`, from `LocationFits`: the location that was
  chosen, the best or not, matches. `NamesJoined` and `NamesNormalized` say that joining
  and normalising paths keeps the names in them; `AliasIs` then goes through the cases of `resolveWithAlias`.

The rest of `ConnectionProofs` is one invariant, `Inv`, and what follows from it. Between two handler
calls a `Client` is in one of four stages: reading a header, reading a body, having been
refused, or having been answered (`Stages`). In each, `headerEnd`, `lastBodyLength`,
`headerState`, the response and the buffer fit the request of the peer that begins at the
read position; `PlaceInv` says that there is one, except after a lapse the histories
record. `OrderInv`, `SentInv` and `ClosingInv` tie `handled` and `wire` to that position:
everything handled lies before it, and what was sent last is what the object says it
is sending. `Framing`, `BodyWhole`, `HandledInOrder`, `WireFramed`, `CloseHonoured` and `HeaderRefusal`
are read off it. None is inductive alone: that a second pipelined request is handled
after the first needs that the position never moves back, which needs the length that
`resetForNextRequest` consumes, which needs the stage in which it was written down. The steps go method by
method, as in the type proof, with `Differs(c, d, fields)` for what a method leaves alone.
`PhaseCorrect == Spec => ImplementsClientPhase` maps each handler to a step of
`ClientPhase` or a stutter; it is a step-wise consequence of `Inv` and `InterestMatches`.

`CgiProofs`, for any timeout, pipe and output size (`CgiAssumption`): `HeldInv` says at every
place of `execute` which descriptors are open, whether the temporary file has its name and what
has become of the program; `Released` is its case at the end. `AnswerIsWholeOutput` needs
`DrainedInv`: a stream left the set of those being read only when it was empty
and nobody had it open for writing, or when a `read` of it failed, which `faults` then says, and the
loop ends in no other way but by a timeout or a failing
`select`. `ReadyInv` is why that holds although a read follows a `select` that may be out of date: nothing
but `execute` takes anything out of a pipe, and a stream that is closed stays closed.

`StartupProofs`, for any configuration (`CascadeAssumption`) and any file of tokens
(`StartupAssumption`): `CascadeInv` says of each block that it is still as it was written
or already cascaded, by where the loops are (`Begun`, `Passed`), and `CascadedPages`
what one call of `cascadeErrorPage` does to the pages of a code; composing two of them
gives `PageIsOfInnermost`. `SyntaxInv` says that the parser's stack holds blocks of the kinds
that may contain each other, and so that what it leaves is a configuration: which makes the
theorems about `Cascade` hold of every file (`FileInnermostCorrect`, `FilePageCorrect`).
`StartupInv` adds `TablesInv` (the descriptors are numbered in the order they were
made, and the server's two tables, the epoll set and the kernel's table have the same ones) and `ListenInv` (the
sockets so far are those of the blocks before `server` that have a port), which is
`ListensWhereConfigured` when the loop is over.

The two theorems about what the parser makes of a file have an invariant each. `WordsInv`, for
`NothingIsSkipped`: for every set of words, as many of the words taken so far are in it as of the texts of
the blocks on the stack, each without its brace at the end, and of the http block
once it is closed. Counting for every set, and not for one word, lets the weight of a text be the sum of
the weights of its parts (`WeightConcat`), wherever in a block a directive belongs (`FlattenedAt`, `WeightAt`);
an action then takes some words and adds or moves a part of just those words, and `NothingIsSkipped` is the case
of sets with one word. `WrittenInv`, for `ParsedAsWritten`: each block on the stack is a part
of the one it was written as (`Partly`: some of its directives, in their order, the first of its error pages and of
the blocks inside), and the tokens that remain are exactly the text of what is left of those blocks (`RestOf`,
`TailAt`). So there is one thing that can stand next, a directive, the beginning of a block
inside or a brace, and the guards take it for nothing else (`WhatIsNext`), so that no `ThrowError`
is possible; outside of the http block it is `AtFileLevelIs`. That a word is an argument and not the name of a
directive, or that a location has a path, comes from `FilesAssumption`.

`FilesProofs`, for any paths, trees, requests, faults, index files and changes
(`PathsAssumption`, `FilesAssumption`): `FilesInv` gives each step of a handler its request, its handle and its local
variables, and keeps the tree well formed through everybody's changes. `UploadInv` adds
what is on the disk while a file is being written: the first `done` blocks of the
content, unless the path was touched by others. `ListingInv` is about a directory while
it is read: what was in it from the beginning is either still to be returned or listed
already. `AnswerInv` is the argument for `AnswerWasTrue`: as long as others made at most one change,
there is one tree, the one before the change or the one after it, in which all that the
handler has seen so far was so (`Moment`, `Looked`). A second change breaks this, which is why it is
a premise. To prove `ListingIsFaithful` showed that a name whose file is renamed over by
another may be missing from a listing, as `readdir` promises nothing about a name that is
taken away and made again: the history `throughout` loses a name then.

`UploadProofs` states the theorems about `Upload`: each step of it is one of `Files`, one
that hands over a well-formed request, or none of the handlers' concern (`StepOfFiles`). Its
own argument is `ChunksCorrect == Spec => []ChunksAreUndone`, for bodies of any length cut into any number of
chunks of any size, any base of at least two digits and any window. `EndIs` is the search: if the text cannot be taken for its
own end, what is found in any beginning of it is its end. `DecodedInv` is the
invariant of `decodeChunkedBody`'s loop: at each turn the position is where some chunk
begins (`IsAt`), and what was decoded, with the data from that chunk on, is all the data.
`ChunkIsRead` and `LastIsRead` are a turn of the loop. They need that the first `CRLF` after the
position is the one that ends the line (`LineIsRead`), that a size is
read back as it was written (`NumberIsText`), and that no addition wraps. The assumptions
are those of a peer that means something by its body: chunks are not empty, since an empty one is the last; an extension has no
`CR` and begins with something other than a digit; a string is no longer than `SIZE_MAX` (`ChunkedAssumption`);
the text of a multipart body is made of parts whose data does not contain the boundary
(`UploadAssumption`). A transfer that loses a symbol is under no such condition, and the type theorems cover it.

`StoredCorrect == Spec => []StoredIsSent` joins the three components. `MeantIs` is `parse` undoing
`MultipartBody`: each part begins where the parts before it end (`JoinedAt`, `AreAt`), the
boundary is found there and nowhere else (`NextBoundary`), and so the first place that
names a file is that of the first part that does (`FileIsFound`). `SentInv` keeps, through everything the handlers
do, that the first request has the content the peer meant; `OutcomeInv` says what an answer tells of its
request: a 400 that there was nothing to store, a 201 that the content is among what was kept, and is whole
there unless the `close` failed, which is the last call of a request (`ClosesLast`). With
`KeptCorrect` it is what is on the disk, to the last block or to the one before it.

Recursion: `HexText`, `HexValue`, `Encoded`, `Concatenated`, `MultipartFrom`, `Flattened` and `Kept` are recursive functions on intervals. The library's
induction cannot be instantiated here, but a set of naturals that contains 0 and the successor of each
of its members up to n can be cited without an operator parameter; `Upward`, `Downward`,
`RecursiveFunction` and `BackwardFunction` of `LeastNaturals` are made of that, and
give such a function its type and its equation.

Model-checked only: liveness and anything with ENABLED, which are beyond the prover
(`WholeRequestIsAnswered`, `SilentIsDropped`, `QueuedIsTaken`, `Returns`). Every other property of a passing run is a theorem.

## 7. Not modelled

Formatting and wording (header text, reason phrases, the start-up banner, log
lines, media types, the text of a listing), the environment of a CGI program, the tokenizer of the
configuration and the boundary in a `Content-Type`, which are the words and symbols that
the models start from; `StringUtils::toBytes`, whose overflow would need 64-bit
arithmetic and of which nothing says what it should give; the example CGI programs and pages.
`ConfParser::printConfig` and the cascade of single directives by name have no caller, and
`Server::stop` only the destructor. `serverConf` is never null for a
connection of a listening port, since a port is only listened on because a
server block names it; the 500 for that case (`Server.cpp:261-266`) is left out.
