# A verification of the network programs of 4273-Network-Systems

This directory holds TLA+ models of the programs in `4273-PA1` to `4273-PA4`, TLC
configurations that check them on small instances, and TLAPS proofs about them for
every value of their constants. `PROJECT.json` maps every definition to the lines it
stands for and lists the runs, the hazards, the mutants and the theorems.

To check a run: `tlc -config DfsPut.cfg MCDfs`. To check the proofs:
`tlapm M.tla` for `UftpProofs`, `UploadProofs`, `HttpProofs`, `ProxyProofs`, `DfsProofs`, `DfsPutProofs`
and `DfsListProofs`.

## 1. Inventory

| Part | State it keeps | Operations | Interacts with | What is hard | What makes it correct |
|---|---|---|---|---|---|
| **UFTP server**, `4273-PA1/serverSide/uftp_server.c` | its directory; `clientaddr`, the sender of the last datagram; the position in the put handler | `delete`, `get`, `put`, `ls`, `exit`, echo of anything else | one UDP socket, all clients | `put` blocks in a second `recvfrom` that takes anybody's datagram; fixed buffers; failed `fopen` | a client gets the answers to its own commands; a stored file is what was put under its name; no file exceeds the buffers |
| **UFTP client**, `4273-PA1/clientSide/uftp_client.c` | its directory, the file name in progress | the same five commands | one UDP socket to the server | counts datagrams instead of numbering them; loss, duplication and reordering; waits with no timeout | get leaves the server's bytes under the right name; every command ends |
| **DFS client**, `4273-PA4/dfc.c` | four connections, `command` and `file` of the last line, what `scanf` left in stdin | LIST, PUT, exit (GET is an empty branch) | four TCP connections | dead servers (SIGPIPE), servers not running, blocking reads, a repeated command, splitting the file | a file put is stored whole and survives the loss of a server; commands come back to the prompt |
| **DFS server**, `4273-PA4/DFS1..DFS4/dfs.c`, identical | the directory; per thread: request, buffers, progress | accept, read request, read credentials, LIST, PUT (GET empty) | a thread per TCP connection, the directory and `exit()` shared | unframed reads, uninitialised buffer, one thread ending all, interleaved PUTs | only valid users list and store; one connection does not harm another |
| **DFS server, earlier version**, `4273-PA4/OG/dfs.c` | as above | as above | - | as above | replaced by the four servers; not modelled |
| **HTTP server**, `4273-PA2/httpechosrv.c` | the process's descriptors; per thread: connection, path, stream, bytes left | accept, read one request, header, one write or the 8192-byte loop, index page, close | browsers over TCP; threads share descriptors and `exit()` | streams left open, descriptor numbers used again by other threads, `exit(0)` for a missing file, `strlen` against Content-Length, a browser that leaves | a client gets the length and the bytes of its own file and then the end; what leaks is bounded; requests for files that exist do not end the server |
| **HTTP proxy**, `4273-PA3/webProxy.c` | the process's descriptors, the resolver's static result; per thread: connection, method, host, address | accept, read, look up, blacklist, reject, look up again, connect, send, relay | clients, hosts, the resolver, `blacklist.txt`; threads share descriptors, the resolver's result and `exit()` | `gethostbyname` shared by threads, uninitialised `hostname`, `exit(0)` for an unknown host, refused connections, descriptors never closed | only GETs that name hosts off the blacklist leave; a client gets the response of the host its request went to; what leaks is bounded |
| **UDP echo**, `4273-PA1/*/udp_*.c` | none | echo | UDP | - | the code the UFTP programs were edited from |
| **Python example**, `4273-PA2/httpecho.py`; **site**, `4273-PA2/www` | none | a fixed page; data | - | - | not modelled |

The hazards of each part, at their lines, are in `PROJECT.json`, with the properties
that catch each going wrong.

## 2. Modules

### UFTP (PA1)

| Module | Models | State | Actions |
|---|---|---|---|
| `UftpNet` | the two UDP sockets; payloads as (whose text, how many bytes) so that cutting to a buffer and `strlen` of a binary file are visible; faults | `toServer`, `toClient`, `faults`, auxiliary `skewed` | `FaultToServer`, `FaultToClient`: lose, duplicate or reorder the head of a queue |
| `UftpServer` | `main` of the server | `srv` (main loop, second `recvfrom`, crashed, exited), `store`, `request`, auxiliary `served` | one per branch: `ServeDelete`, `ServeGet`, `ServeGetEmpty`, `ServeGetCrash`, `ServePut`, `StorePut`, `ServeLs`, `ServeExit`, `ServeOther`, `ServeOtherCrash` |
| `UftpClient` | `main` of the client | `cpc`, `local`, `wanted`, `typed`, auxiliary `uploads` | `TypeDelete/Get/Put/Ls/Exit`, `PutSend`, `PutCrash`, `GetData`, `GetEcho`, `DelReply`, `LsReply` |
| `Uftp` | the composition, fairness, properties | - | `Server`, `Client(c)`, `Network` |
| `MCUftp`, `Uftp*.cfg` | the instances | | |
| `UftpProofs`, `UploadProofs` | the theorems | | |

A handler of the server is one action, except `put`, which blocks in the middle:
`ServePut` up to the second `recvfrom`, `StorePut` from there on. Everything between two
blocking calls touches no state another process sees but the queues, which only grow.
Undefined behaviour is a choice: a file larger than its stack buffer may end the process
(`ServeGetCrash`, `PutCrash`) or not, and so may a word longer than `command` in a datagram that
is no command (`ServeOtherCrash`). Where the directory does not let `remove` delete the file, `ServeDelete`
sends the echo alone, as for a file that is not there.

`skewed[c]` is set by the things after which client and server may count datagrams
differently: a put by c (the client never reads its echo), deleting an existing file or
getting an empty one (the server sends one datagram more, or fewer, than the client
reads), being taken for another client's upload, a fault. The claim the model
establishes is that these are *all* such things: a client that is not skewed is in step.

### HTTP server (PA2) and proxy (PA3)

| Module | Models | State | Actions |
|---|---|---|---|
| `Descriptors` | the table of open files of one process: the lowest free number is given out next; whom an entry was opened for is recorded, which the programs cannot see | `table` | - (operators `Opens`, `Closes`, `Lowest`) |
| `HttpService` | the abstract specification: one header with the length of what this client asked for, never more bytes than that, the end only after all of them | `asked`, `gone`, `head`, `body`, `ended`, `up` | `Ask`, `Leave`, `Announce`, `Deliver`, `End`, `Stop` |
| `HttpServer` | `main`, `thread` and `echo` of httpechosrv.c, and the browsers | `link`, `asked`, `gone`, `head`, `body`, `tpc`, `fd`, `fp`, `path`, `left`, `alive` | `Accept`, `AcceptFails`, `Start`, `ReadRequest`, `ReadNothing`, `Open`, `OpenFails`, `SendHead`, `SendSmall`, `SendEmpty`, `SendChunk`, `OpenIndex`, `OpenIndexFails`, `SendIndex`, `SigPipe`, `Close`; `Connect`, `Ask`, `Leave` |
| `Http` | the refinement mapping to `HttpService`, properties, inductive invariant | - | - |
| `ProxyService` | the abstract specification: a GET that names a host off the blacklist is sent at most once, its client gets at most one response, of the host it was sent to or the proxy's own, and the end only when nothing more will come | `asked`, `gone`, `sent`, `reply`, `ended`, `up` | `Ask`, `Leave`, `Forward`, `Answer`, `Refuse`, `End`, `Stop` |
| `WebProxy` | `main`, `thread`, `webProxy` and `forwardClientReq` of webProxy.c, the resolver, the hosts and the clients | `link`, `asked`, `gone`, `sent`, `reply`, `resolved`, `tpc`, `fd`, `list`, `get`, `name`, `addr`, `alive` | `Accept`, `AcceptFails`, `ReadRequest`, `ReadNothing`, `Lookup(Fails)`, `OpenList(Fails)`, `Block`, `Reject`, `Socket(Fails)`, `Resolve`, `Copy(Fails)`, `Forward(Fails)`, `Relay`, `SigPipe`, `CloseList`; `Connect`, `Ask`, `Leave` |
| `Proxy` | the refinement mapping to `ProxyService`, properties, inductive invariant | - | - |
| `MCHttp`, `MCProxy`, their `.cfg` | the instances | | |
| `HttpProofs`, `ProxyProofs` | the theorems | | |

Both programs start a thread per connection, and a step of a thread goes from one call that
other threads or the peer can notice to the next: `read`, `fopen`, each `write`, `fclose`
and `close`, `socket`, both `gethostbyname`, the copy of its result, `connect` with `send`.
What is shared is the table of descriptors, and that is what the two invariants are about: a
thread keeps a number, and nothing but the order of open and close keeps that number its
own. `exit()` and SIGPIPE set `alive` to FALSE and stop every process. A thread that is
done may be started again with the stack it left, which is how an uninitialised `fullPath`
or `hostname` gets an earlier request's value (`ReadNothing`, `Parsed`); `Junk` is what
else such a buffer may hold.

In the HTTP server the size of a file is in bytes, so that the loop's arithmetic is
the code's; `Text` is the number of bytes before the first zero byte, which is what
`strlen` sends of a file below 8192 bytes. In the proxy the response of a host is the
host's address: the properties follow whose response a client gets. The second
`gethostbyname` returns into a buffer that every thread shares; while another thread is in the
function, a reader finds the old result, that thread's result, bytes of both, or no address at all
(`Found`, `CopyFails`). The mixed bytes are an address that nobody named (`Torn`), where there may be a host
that answers or none.

### Distributed file system (PA4)

| Module | Models | State | Actions |
|---|---|---|---|
| `DfsPlacement` | the table of which parts go where, the byte counts of the split | - | - |
| `DfsWire` | the TCP connections: sequences of `write()`s; a `read()` returns the first n of them | `up`, `down`, `closed`, `alive` | - (operators `Amounts`, `Consume`) |
| `DfsServer` | `main` and a thread per connection | `tpc`, `req`, `valid`, `buf`, `n2`, `store`, `starved` | `Accept`, `AcceptFails`, `StrayWrite`, `ReadRequest`, `RequestExit`, `RequestLeftover`, `ReadCred`, `CredExit`, `SendListing`, `ListFails`, `ReadPart1/2`, `Open1/2`, `OpenFails`, `Close2/1` |
| `Dfc` | the client | `cpc`, `next`, `sock`, `out`, `cmd`, `again`, `cmds`, auxiliary `asked` | `Dial`, `Type`, `TypeExit`, `Repeat`, `Unrecognized`, `Send`, `SigPipe`, `ReadListing`, `OpenFile`, `NoSuchFile` |
| `Dfs` | the composition, fairness, properties | - | `Thread(k)`, `Stray(s)`, `Run(c)`, `Prompt(c)` |
| `MCDfs`, `Dfs*.cfg` | the instances | | |
| `DfsProofs`, `DfsPutProofs`, `DfsListProofs` | the theorems: for every instance, about the first PUT, about the first LIST | | |

Every blocking or shared-state call is a step: each `read`, `write`, `fopen` and `fclose`.
The data of `fwrite` is in the stream's buffer until `fclose`, so `Open1`/`Open2` truncate and
`Close2`/`Close1` write over the start of the file as it then is; that is what two uploads
of one name interleave.

A `read` may return several writes (`Coalesce`). `Amounts(k)` includes 0 only when the
client is gone. The request buffer is not initialised, so a `read` of 0 leaves what the
stack holds: `RequestExit` when that is nothing the `switch` knows, `RequestLeftover` when
it is the request of a finished thread of the same server whose stack was reused.

`userN` and `passN` are not initialised either. A `read` of 0 for the pair, or one of nothing but
empty lines, leaves in them what the stack holds, which may be the pair that a finished thread of
that server verified (`Wordless`, `PairLeft`; `valid` keeps which threads did). `sscanf` skips empty lines in front
of a pair (`First`), and bytes of a part may spell a pair or complete one: the clients in `Spelling` have
such files (`Spelt`). What is sure to pass is a valid pair at the end of what was read (`MustPass`); with
more behind it, both outcomes are offered.

No thread closes its connection, so the descriptors of a server run out. The model counts them by a
bound: a thread has at most its connection and two files open, so that calls may fail only from
`3 * Cardinality(Started(s)) >= MaxFds` on (`Crowded`), and `accept` is sure to fail when every descriptor is
a connection. The kernel completes a connection before `main` accepts it (`Queue`). What a failure does:

- `accept` (`AcceptFails`): the thread started for -1 reads nothing. It ends the server; or ends by itself; or
  finds on its stack a finished thread's PUT and pair, truncates those files and writes -1 bytes to
  them, at any later time (`StrayWrite`).
- `dfc.conf` (`CredExit`): `exit()`.
- `opendir` (`ListFails`): `free` of an unset pointer, or a listing of no bytes.
- `fopen` of a file (`OpenFails`): `fwrite` to NULL ends the server. So it does for a file whose directory
  the server has not (`Creatable`).

`starved` records the servers where a call failed for that reason: what the properties say of stored bytes and of answers is
about the others.

In the client, `scanf(" %s")` leaves the newline after the password in stdin; the next
`fgets` returns it alone, `sscanf` matches nothing, and `command` and `file` still hold the
last command, which runs again (`Repeat`) with a blank request line. `bzero(message, 8192)`
on the 20-byte `initialReq` may also clear `command`, in which case the line is not
recognised (`Unrecognized`). Both are outcomes the build can produce.

## 3. Runs

UFTP file sizes are those of the three files beside `4273-PA1/README` (22133, 1469 and
1339 bytes, the latter two with a zero byte at offset 4) and an empty one.

| Run | Instance | Shows |
|---|---|---|
| `uftp_two` | 2 clients, 2 names, any 2 of get, put and delete each, 1 fault; over-long, empty and missing files | `TypeOK`, `StoreFits`, `InStepInv`, `GetFaithfulInStep`, `AnswersInStep`, and `InStepAnswered` (liveness) |
| `uftp_alone` | 1 client, 2 names, 6 commands, no faults, no empty file | `UploadsPaired`, `AloneAnswered` (liveness) |
| `http_serve` | 2 connections, 2 threads, 3 descriptors; files of 3348 and 15287 bytes, an empty one, "/", a missing one | `TypeOK`, `HttpInv`, `LeaksBounded`, `EndsOnlyFor`, the refinement `ServiceSpec`, `Attended`, `Progress`, `Answered` (liveness) |
| `proxy_serve` | 2 connections, 2 threads, 5 descriptors; a host that answers, one blacklisted, one down, one unknown; two addresses of mixed bytes, one of which answers; GET, POST, a URL without a host | `TypeOK`, `AnswersFit`, `OwnHostAlone`, `LeaksBounded`, `EndsOnlyFor`, the refinement `ServiceSpec`, `Attended`, `Answered` (liveness) |
| `dfs_put` | 1 client, 4 servers with descriptors enough, one PUT, one write per read; every interleaving of threads, every hash | `FourPartsKept`, `FirstPartsKept`, `PutInv` |
| `dfs_merged` | 1 server, merged reads, 7 descriptors, a directory that is missing; a trusted client that types one PUT and has no file; one that is not trusted, has a file and types PUT or exit, with a second command (the first one repeated) | `TypeOK`, `AskedInv`, `TrustInv` |
| `dfs_list` | 2 clients, 2 of 4 servers running with 6 descriptors each, one write per read; a trusted client that types LIST, or PUT of a file it has not, 2 commands (the second one the repeat); one that types exit | `AskedInv`, `ListComes`, `ListInv`, `FirstListReturns` (liveness) |

Why the bounds are enough to be of interest: two clients are what every race here needs,
a thief and a victim; two commands let an unread answer of the first meet the second;
one fault is enough to put a client out of step, after which nothing is claimed of it, only of
the other. Of the HTTP server, 2 threads with a stream each need 4 descriptors, so that 3
make `accept` and `fopen` fail, and the 15287 bytes take the loop's two branches; 2
connections are what a leak needs to be somebody else's. In the proxy 5 are enough for one request to be
forwarded beside another and few enough to run out. A model of a server is
bounded by its connections, each of which makes one request, as the programs read one. Four servers matter only for the placement, one
for everything about a connection, because servers share nothing. In `dfs_merged` the trusted client's pair stays on the stack,
where the other's empty line can meet it; its 7 descriptors are enough for two threads, and the missing directory is what ends the server. In
`dfs_list` 6 may be used up by two, so that every call there that may lack one does in some behaviour, and the PUT is what `StrayWrite` finds on a
stack. The 4 of `dfs_put` are enough for its one connection to a server. The proofs below cover
the unbounded case for the safety properties.

Violations (each run checks one property, quoted from the program's own words in
`PROJECT.json` "findings"):

| Run | What happens |
|---|---|
| `uftp_stale` | put, then get: the echo of the put becomes the local file |
| `uftp_mixed_uploads` | another client's command line is stored as the file (and, as `clientaddr` is overwritten, the put is echoed to that client) |
| `dfs_parts` | the second file of every server holds its first part again |
| `dfs_merged_list` | request and credentials in one `read`: the first LIST waits for ever |
| `proxy_hosts` | between a thread's second `gethostbyname` and its copy of the result another thread calls the function: the request goes to the other's host |

`CHECK_DEADLOCK FALSE` everywhere: users stop typing, and processes exit.

### Fairness

`Uftp!Fairness`: a process that can take a datagram from its socket, or is in the middle
of a handler, eventually does; that is the scheduler of the operating system. Users need
not type and the network need not do anything. `Dfs!Fairness`: every thread and every
client that can go on without its user goes on. Nothing is assumed about how much a
`read` returns, nor of `Stray`: no call has to fail. `FirstListReturns` has a way out for servers that lack a descriptor; it is checked with one write per read, and `dfs_merged_list`
shows that it needs that. `HttpServer!Fairness` and `WebProxy!Fairness`: `main` accepts
when it can and every thread goes on when it can; clients do nothing they do not
want to, and an HTTP server's `Answered` says what then holds of each. In the proxy, a
thread that waits for a host's response goes on only if the host answers: hosts in `Up`
do. Its `Answered` has a way out that the server's has not: when the descriptors have
run out, a thread returns from `forwardClientReq` (155-159) with nothing sent and the
connection open.

## 4. Proofs

TLAPS checks the following for any clients, names, sizes, directories, commands and
numbers of faults. The assumptions are those of the modules: a command line fits the
50 bytes that `serverReply` reads and a listing 1024; descriptors are numbers and -1 is none
of them; `index.html` is shorter than 8192 bytes; `NoFile`, `NoReq` and `Missing` are not contents or requests.

`UftpProofs`:

- `TypeCorrect`: `Spec => []TypeOK`; `TypeOK` is inductive.
- `StoresFit`: `Spec => []StoreFits`; what is stored was cut by `recvfrom` or was there.
- `InStepAlways`: `Spec => []InStepInv`. `GetFaithfulInStep` and `AnswersInStep` are not
  inductive: they say what the next datagram is, not where it comes from. `InStep(c)` says
  where the whole conversation of c is: nothing in flight, or the one request, or all of
  what is left of the answer, or a server that stopped. Each server action moves an in-step
  client from the second case to the third, each client action consumes from the third.
- `GetsFaithful`, `AnswersAlways`: the two properties, from `InStepInv`.

`UploadProofs`:

- `UploadsStayPaired`: `Undisturbed => (Spec => []UploadsPaired)`, for one client, no faults and no
  empty file in either directory. Two clients break it (`uftp_mixed_uploads`), and so does an
  empty file, whose put sends no data: every part of the premise is needed. The invariant
  `PairInv` says of `Flight`, the put the server is at and the datagrams queued behind it, which of them are
  data (`DataAt`): each directly behind its put, none behind anything else, and only the last
  put still without. It moves along as the server takes one datagram or two (`Shift`), the client
  sends one more (`Grow`) or neither (`Same`); that no datagram becomes empty on the way (`Sizes`) is what
  keeps the client's next put from leaving its data out.

`HttpProofs`:

- `TypeCorrect`, `AnswersRight`: `HttpInv` is inductive together with `TypeOK`. It has three
  parts about descriptors (`OwnConnection`, `OneDescriptor`, `OwnStream`: no two threads that
  are at work have the same number, and the table agrees with each about what it is) and
  one about answers (`Answers`: how far a thread has got says exactly what its client has been
  sent). Neither half is kept without the other: bytes reach the right client because
  the descriptor is the thread's own. The lemmas on opening and closing (`StreamOpened`, `ConnClosed`,
  ...) are where a number goes from one owner to the next.
- `LeaksAreBounded`: by `StreamInv`, which adds to `HttpInv` which streams a request has
  opened by each point of the thread.
- `EndsOnly`: the last step before `alive` became FALSE, case by case.
- `Implements`: under `SmallFilesAreText` every step of `HttpServer` is a step of `HttpService` or a
  stutter, given the invariants (`ToService`, one case per action). The premise is needed: of a
  PNG below 8192 bytes, `strlen` sends what comes before its first zero byte, 8 bytes
  or so, after a header that promises all of it, and the connection then ends.
  `4273-PA2/www` has such files (`fancybox/fancy_close.png`); the runs have none.
- `NobodyForgotten`: `Attended`, that an accepted connection has a thread of its own at work on it. A
  thread can lose its connection in two ways: another thread closes the number, which
  `HttpInv` excludes, or it ends without `close`, which no branch of `thread` does.
- `RequestsProgress`: `Progress`, an action property: a thread at work is left where it is by every step of
  the others, and each step of its own takes it to a later point of the code (`Todo`), or leaves fewer bytes in the
  loop. Together these two are `Answered` without the fairness: for any number of threads
  and files, an accepted request needs only that its thread goes on.

`ProxyProofs`:

- `TypeCorrect`, `AnswersAreFit`: `ProxyInv` has, for the descriptors, `OwnConnection` and `OwnList`
  and, for each connection, what its thread knows of the request (`Serving`) and what has been
  sent either way (`ConnInv`). A thread whose connection could not be accepted reads nothing and
  is never a GET, which is why nothing is forwarded for nobody.
- `HostsAlone`, `OneThreadHosts`: `OwnHost`, that a request goes to its own host, does not hold
  (`proxy_hosts`); this is how it comes not to. As long as no thread has been in `gethostbyname`
  while another one read its result (`NoOverlap`), every request is at its own host: the invariant
  (`OwnAddress`) follows the address from the resolver's result to the thread's copy and to
  `connect`. With one thread there is no overlap. So the shared result is the only cause.
- `Implements`: every step of `WebProxy` is a step of `ProxyService` or a stutter, one case per action; that a
  connection gets at most one response is what needs `ConnInv`. `ProxyService` lets a request
  go to the host of somebody's request, or to one that nobody named, as the code does while lookups overlap; that there is
  no third kind of host is `KeptHosts`, which says it of every place a host is kept (the resolver's result, each thread's
  address and name).
- `NobodyForgotten`: `Attended`, for clients that stay: an accepted connection has a thread at work on it, or its response, or
  is a GET that was let through when `socket` had no descriptor for it. The last is the
  way out that `Answered` names too.
- `LeaksAreBounded`, `EndsOnly`: as for the HTTP server. Of the proxy's causes two are of the shared result: no address, or
  an address of mixed bytes where nothing accepts.

`DfsProofs`:

- `OnTwoServers`, `OneServerMayFail`: the sixteen rows of the switch follow one rule
  (`PlacementRule`), so each part is on two servers and any one server may be lost.
  This is the table; `dfs_parts` shows that the server does not store what the table sends.
- `SplitLosesTail`: for every size from 20 up and every hash, the four reads take fewer
  bytes than the file has, although the comment at `dfc.c:164` says "divide & store the file
  into 4 parts": the tail of every file put is lost.
- `TypeCorrect`: includes that a thread past its first read holds a request and that the
  files it is about to close exist.
- `TrustAlways`, `StoreIsTrusted`: that only valid users store does not hold, since a thread may verify a pair that
  is not its client's. What holds is `OnlyTrustedStore`. Of the threads past `botherUser` (`PastCred`): the pair is the
  client's own (or spelled by its file), or left by one that such a client had brought to this server (`Admitted`). Of the stored
  bytes (`Storers`): they are of a client that is entitled, or of one that sent an empty line, in a second
  command, to a server where another had been let in; servers that have lacked a descriptor are left out, as `StrayWrite` is theirs. The
  second part is the one that takes an argument: a client with one command only can get by with a leftover pair when its `read`
  returns 0, and then nothing of it is left to be stored (`Leftover`, `NothingLeft`). `TrustInv` adds that
  what is queued and buffered is the client's own.
- `AskedAlways`, `ServersSurvive`: a server ends for one of three causes (`EndsOnlyFor`): a client that never sent a
  request has left, a call found no descriptor, a file could not be created. With descriptors for three files per client and
  every directory there (`EnoughDescriptors`, `AllCreatable`) the first is the only one: that no LIST or PUT
  makes a server see an invalid request needs neither premise. `AskedInv` adds where the request is: first in the client's writes
  (`AsksFirst`, `WillAsk`), first on the connection, or read. `Repeat` sends a blank line
  where a request would be, and is harmless only because by then every open connection has
  been asked (`AllAsked`): the proof turns on that.

`DfsPutProofs`, under `PutPremise`: one client types PUTs (`OneUploader`) and the others list, but do not type exit
(`OthersStay`); `EnoughDescriptors` and `AllCreatable`; and a `read` returns one write (`~Coalesce`):

- `PutAlways`: `PutInv` is inductive. That the files are right in the end is not; `PutInv` says of each
  server at every step what the client has still to write, what is on the connection, which of it
  the thread has read and what its two open files hold, and that these are, in order and once each, the request, the
  pair and the two parts of that server (`Talk`, `Putting`), all by one and the same hash. `Sent` and
  `Made` count how many of eight writes are done (twice eight: the lines and pairs, then the parts), and so how many are to one server.
  What other clients do is kept out by `NeverPuts`: their threads do not get to a file.
- `FirstPartsStay`, `PartsStay`: `FirstPartsKept` and `FourPartsKept`, for every interleaving of the four threads and the
  other clients. Both speak of puts that four running servers are done with; of a put whose
  server ended, `PutInv` says that the other servers still get what is theirs.
- `CopiesLost`: no server has a part that another one has. With `OneServerMayFail`, which is about the
  table, this is `dfs_parts` for every file and hash: a lost server is a lost part.

Every part of the premise is needed. Without `OneUploader` two PUTs of a name interleave in `fopen` and `fclose`. Without
`OthersStay` the thread of a client that has left silently may find the uploader's PUT and pair on its stack, reads two parts of
nothing, and truncates the stored file. Without `EnoughDescriptors` a thread started for a failed `accept` does the like
(`StrayWrite`). Without `AllCreatable` a server ends in `fwrite`, and a lister that next writes to it is ended by SIGPIPE, which is
another way to leave. Without `~Coalesce` a part may be taken with the pair before it, as a thread drops what follows the pair.

`DfsListProofs`, under `~Coalesce`:

- `ListAlways`: `ListInv`, the same for the first LIST: the line and the pair of a server are unwritten, on the connection or
  read, each once (`Asks`), for any number of clients and commands of theirs.
- `FirstListComes`: `ListComes`, that a client in its first LIST waits for no server in vain: what its thread needs
  for its answer is there, or the answer is, unless the server has lacked a descriptor (`ListFails`, or a connection
  that was never accepted). This is `FirstListReturns` without the fairness;
  `dfs_merged_list` shows that `~Coalesce` is needed.

Model-checked only: the liveness properties `InStepAnswered`, `AloneAnswered`, `Answered` (of both
servers) and `FirstListReturns`. They rest on fairness, hence on ENABLED, which the prover does not reason about;
what they need besides it is proved: `AnswersAlways`, `UploadsStayPaired`, both theorems `NobodyForgotten`,
`RequestsProgress` and `FirstListComes`.

## 5. What is not modelled

- UFTP: commands without a file name; a put whose `fopen` fails on the server (`fwrite` to NULL); a file whose contents are a command line; partial
  use of `recvfrom` lengths other than the buffers'; the program's own files in the directory.
- DFS: commands without a file name; files under 20 bytes (negative counts) or larger than
  the buffers; a `read` that returns part of a write; GET, empty on both sides; a `dfc.conf` that is not there (that
  it cannot be opened for want of a descriptor is `CredExit`); the table of descriptors itself, of which the model has a bound. A part is one chunk: rows of `DFCBuf` overlap by a byte and
  are not terminated, so `strlen(DFCBuf[0])` may run on into the next row, which is
  undefined behaviour below this level. `fread`'s letters ("a" to "d") are part of the chunk.
  Two names that collide by the appended "2" are allowed by the constants but not in the runs.
- HTTP server and proxy: `pthread_create` and `malloc` succeed and there is a thread for every
  connection in the runs; a request arrives in one `read` and its words fit the 50-byte buffers; the
  files and the blacklist do not change; a directory opened as a file is a stream of no use (its size is
  never read). Which header belongs to which extension is layout.
- Proxy: both lookups of a name answer alike (a second one that fails would be read at 169
  without a check); the descriptors that the resolver itself uses for a moment; a host that is up answers
  and does not close first; how much of a response one `read` and one `strlen` pass on.
- Everything marked "not modelled" in the inventory.

Behaviour that the model contains and no run is spent on:

- a DFS client that connects and types exit ends the server under another client's request,
  with `exit(0)` in the thread (`RequestExit`); `EndsOnlyFor` has the two other causes, and
  `ServersSurvive` proves that without them this is the only one;
- a GET for a page that is not there ends the HTTP server (`OpenFails`), a GET for an unknown host or one
  that refuses the connection ends the proxy (`LookupFails`, `ForwardFails`): `EndsOnlyFor` names these
  causes and proves that there are no others;
- no client of the proxy that is answered ever sees its connection end (`Relay`; the `close` at 65 is
  commented out);
- a get of a missing UFTP file ends the server in `fclose(NULL)` (`ServeGetCrash`), although the
  comment at `uftp_server.c:158` speaks of informing the client;
- a put of an empty UFTP file sends no data, so the server stores the next datagram;
- a DFS server that has served enough clients has no descriptor for the next one, although all of them have left;
- a second DFS LIST waits for ever, since the thread of the connection has ended with the
  connection open (`Close1`, `SendListing`);
- a DFS PUT of a missing file prints "Try again." and ends the client (`NoSuchFile`), and the
  servers, whose reads return 0, truncate the copies they have;
- a DFS PUT whose request and pair arrive together waits for a pair that is not sent.

## 6. Plan

Done: UFTP, the HTTP server and the proxy with their abstract specifications, and DFS, as above; all
safety properties of the passing runs are proved. What could follow:

1. An abstract upload service that UFTP with one client refines (put stores, get returns), and
   one for a DFS server (`store` changes only by trusted PUTs).
2. `Progress` for the proxy, whose threads also wait for hosts.
3. `Descriptors` under `DfsServer` in place of the bound `Crowded`.
4. `4273-PA4/OG/dfs.c` against `DfsServer`, and two names that collide by the appended "2".
