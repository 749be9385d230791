# Sync-Cloud-Drive-Server: TLA+ models

These modules model the parts of the server where its threads, its clients, the
kernel and the database can get in each other's way. TLC checks them on small
instances; TLAPS proves the most important properties for every instance. Paths
below are relative to the repository; `server.cc` is
`source/server/sync_drive_server.cc`.

## 1. The system

One process. A main reactor accepts connections; a fixed number of sub-reactors,
each a thread with its own epoll instance, read requests and run their handlers;
one more thread, the sender, writes all replies. State that outlives the process
is in MongoDB and in slide files on the disk.

| component | state | operations | who calls it |
|---|---|---|---|
| Reply path (`server.cc:40-84, 127-137`) | `sender_queue`, its mutex, its condition variable, `sender_stop` | `SendMessageCallback` pushes, `SenderStart` writes and pops | `Connection::Send`, at the end of every handler |
| Upload protocol (`server.cc:196-262, 292-368, 452-501`, services and DAOs) | file, filemd5 and transmission documents; slide files; `on_transmission_slides` under `on_transmission_mutex` | `ProcessUploadFile`, `ProcessUploadData`, `ProcessDeleteFile` | the reactor that read the request |
| Connections and reactors (`tcp_server.cc`, `connection.cc`, `reactor_pool.cc`, `event_loop.cc`, `poller.cc`, `channel.cc`) | `connections`, `connection_num`, `reactor_index_of_connection`, the interest lists of epoll | accept, dispatch, close | main reactor, sub-reactors |
| Client pool (`sync_drive_client_pool.cc`) | `connections`, `clients`, `fd_clients_map` | add on accept, look up on every message, remove on close | main reactor, sub-reactors |
| Messages (`client_to_server.pb.*`, `server_to_client.pb.*`) | the fields of a message | serialize, parse, merge, size | every handler, and the client |
| Message framing (`connection.cc:43-68, 95-119`, `buffer.cc`) | `read_length`, `received_length`, `read_buf` | `Business` on every read event | sub-reactor |
| Accounts and dispatch (`server.cc:113-121, 139-190`, user service and DAO) | user documents | register, login, change password; the gate in `ProcessMessageCallback` | sub-reactor |
| Directories (directory service and DAO) | directory documents, in the collection of the users | add, remove | sub-reactor |
| DAO core (`dao.cc`, `dao.h`) | the one collection all DAOs are bound to | find, insert, update, delete | services |
| Thread pool (`thread_pool.cc`) | task queue, `stop` | `Add`, the worker loop, the destructor | `TcpServer` |

There are only three locks: `sender_queue_mutex`, `on_transmission_mutex` and the
pool's `queue_mutex`. The maps of connections and of clients and the load counters
are shared by the main reactor and all sub-reactors without any.

**What is hard here.** The sender keeps a raw pointer outside its lock and names its
client by a descriptor the kernel may hand out again. Nothing wakes the sender. Upload
handlers are sequences of database calls that interleave with one another, with kills of
the process and with driver exceptions, which the DAOs turn into ordinary negative
answers. Connections are registered with epoll before their callbacks are set. An
edge-triggered event reads one part of a message, through a buffer that stops at NUL
bytes; replies have no frame at all. Checks before an insertion and the insertion are
separate calls. `PROJECT.json` lists each hazard with its line and the properties that
address it.

**What would make it correct.** Replies: each in one piece, in order, to the client
it was for, and eventually. Uploads: no slide struck off before it is written, no
file finished before it is whole, every whole file eventually finished.
Connections: one live object per descriptor, only an object's own reactor touches
it, a hung-up connection is eventually released, load counts agree with bindings.
Messages: a request is seen as it was sent, a reply can be told from the next.
Framing: a message is dispatched once, when it is complete. Accounts: one account
per name, a login for the user whose password was compared, and a connection that was
told so kept. Thread pool: no task and no wake-up lost.

## 2. Modules

| module | what it is |
|---|---|
| `ReplyFifo` | abstract: replies retired in order, bytes of each contiguous, only the front may be given up |
| `ReplySender` | the reply path in detail, with descriptors, peers, the lock, the condition variable and signals |
| `SlideLedger` | abstract: what an upload owes, has received and has finished, until its account is closed |
| `Upload` | the three handlers as sequences of database calls, the disk, the mutex, kills, faults |
| `ReactorConnections` | the main reactor, the sub-reactors, epoll, the unlocked tables, load counts |
| `ProtoWire` | the wire format: varints, fields, serializing, parsing, merging |
| `ClientMessages`, `ServerMessages` | the messages of the two files and their layouts |
| `MessageExchange` | requests and replies of one connection as bytes, and what the handlers copy |
| `MessageFraming` | how the bytes of one connection become messages |
| `Accounts` | users, logins, their clients, and directories, by driver calls |
| `ThreadPool` | the pool the loops run in |
| `ReplySenderProofs`, `UploadProofs`, `ReactorConnectionsProofs`, `ProtoWireProofs`, `MessageExchangeProofs`, `MessageFramingProofs`, `AccountsProofs`, `ThreadPoolProofs` | theorems |
| `MCReplySender`, `MCUpload`, ... | values and seeded databases for TLC |

In the detailed modules an operator named `X_How` is `X` with a plausible
mistake. No specification uses these: a property is worth checking if TLC finds it
violated once `X_How` takes the place of `X`, and every property of every passing
run has such a mutant in `PROJECT.json`.

### 2.1 ReplySender

`packages` is every `SendPackage` ever pushed, `queue` the indices still in
`sender_queue`, `package` the sender's raw pointer. `pc` is the place of the sender:
`idle` is before the wait's predicate, `asleep` inside the wait, `writing` the loop
over `write`, `popping` before the second lock.

| action | code |
|---|---|
| `Open`, `Close` | `TcpServer::NewConnection`; `Connection::Close`, `DeleteConnection` and `~Socket`. The kernel hands out any free descriptor |
| `SendMessage` | `SendMessageCallback`: copy, lock, push, no notify |
| `SenderReturn`, `SenderSleep`, `SenderTake` | `server.cc:43-57` |
| `Write`, `WriteFull`, `WriteError`, `SigPipe`, `WriteEnd` | one call of `write`: some bytes, EAGAIN, EBADF or ECONNRESET, EPIPE (whose SIGPIPE ends the process), nothing left |
| `Pop` | `server.cc:76-82` |
| `SpuriousWake` | `std::condition_variable::wait` may return without a notification |
| `PeerGone` | the client resets the connection |

Data: a reply is its length up to the first NUL byte, which is where
`Buffer::SetBuf` cuts it (`buffer.cc:11-14`), so 0 is a length. EINTR retries at
once and is not an action. `sender_stop` has no initialiser and the code is built as
C++17, so its first value is any Boolean. `left` and `offset` are ints and the
lengths are small numbers: no overflow is in question.

### 2.2 Upload

A step is one call of the database driver, one system call on the disk, or one
critical section without calls in it; between steps anything may happen. `docs` holds
file and filemd5 documents; a document the program itself inserts lacks fields its
decoder needs (`AddFile` writes no `state`, `AddFileMD5` neither `reference_num` nor
`state`), and the decoder's exception makes the search come back empty. A search by
md5 finds whichever document was inserted first, file or filemd5, because every DAO
is bound to one collection (`dao.cc:3-5`). Documents that can be decoded therefore
come from outside the program; `Seeds` says which may be there at the start. The
gate of `ProcessMessageCallback` and the framing keep clients away from these
handlers in the program as it is wired (section 6), so the model is of the handlers
as a logged-in client would drive them.

`pending[id][s]` counts transmission documents; `disk` the folders; `intact` and
`received` what slide files hold and ever held. `onTrans` is
`on_transmission_slides`, `lock` its mutex. `pc[w]` names the next call of worker
`w`'s handler. `Faults` says whether driver calls may throw (each DAO then reports a
negative answer) and whether writes to the disk may fail unnoticed. A kill
(`Crash`) keeps database and disk and loses everything else.

| action | code |
|---|---|
| `FindFile` ... `AddNextSlideNo`, `Reply` | `ProcessUploadFile`, one action per call |
| `AddFileMD5` | the insertion and `CreateFileMD5InDisk`, whose `stat` test is inverted (`filemd5_dao.cc:15`) |
| `AddTransmission`, `AddAllEnds` | `AddAllTransmission`, which has no return statement at its end: the caller sees any Boolean |
| `FindForSlide` | `filemd5.value()` of an empty optional throws; the reactor's loop ends (`dead`) |
| `OpenSlide`, `FillSlide` | `WriteData`: `std::ofstream` empties the file, then the write |
| `FindForData` ... `UpdateState` | `ProcessUploadData`. `UpdateState` is under the mutex together with the check before it, which is why `lock` is held between the two |
| `DeleteFile`, `FindMd5ById` ... `UpdateReferenceNum` | `ProcessDeleteFile` and `FileService::RemoveFile`, for any `file_id` |

`DeleteFile` takes any id that a document has or had, and one that none had: the DAOs share
one collection, `GetMd5ById` asks for a field `md5` only and `RemoveById` for the `_id`
only, so the id of a filemd5 removes the filemd5. Its transmission documents stay, under an
id that no search by md5 finds any more, and so do its slide files. A handler that has found
the filemd5 before goes on with its id. In `SlideLedger` this is `Close`: the account goes,
with what it was owed, and its id is never opened again.

`UpdateAllFileState` filters on `filemd5_id`, a field that only transmission
documents have; it sets a field nobody reads on one of those at most, and is left
out. A slide is a number below one constant `SlideNum`; sizes and contents are
abstracted to "intact". `nextId` numbers documents, so `Removed` are the ids that were
handed out and have no document any more, of either kind: `RefsFallWithRemovals` bounds what
deletions may take off a reference number by them. It does not say that the number counts
the files in use: nothing raises it when a second file of a content is added
(`server.cc:219-237`).

### 2.3 ReactorConnections

Thread 0 is the main reactor, threads 1 to `Reactors` are the sub-reactors; all run
at once. A step is one access to a shared table, one system call, or the code between
two of them. `sock` says which connection each descriptor is, `ready` and `batch` are
the ready list of each epoll instance and what is left of the vector `Poll` returned;
`object` is the life of a `Connection` with its `Channel`; `connections`, `wrappers`
and `index` are the three tables keyed by descriptor, `num` the loads. `pc[0]` walks
through `NewConnection`, `pc[r]` through `HandleEvent`, `Business` and
`DeleteConnection`.

| action | code |
|---|---|
| `Accept` | `Acceptor::AcceptConnection`; any free descriptor |
| `Bind`, `IncreaseConnection`, `StoreIndex` | `BindConnectionToReactor`: choose, then an unlocked read-modify-write, then the index |
| `Register`, `EnableET`, `SetOnRecv` | the constructor of `Connection` (epoll ADD, then MOD), then the callback |
| `Insert`, `Lookup`, `AddConnection` | `tcp_server.cc:37-40` and the client pool's `AddConnection` |
| `Poll`, `HandleEvent` | `EventLoop::Loop`. A callback that is not set throws; `packaged_task` swallows the exception and the loop is over (`dead`) |
| `RecvPart`, `RecvNothing`, `Close` | `Business` with one call of `ReadNonBlocking`: it got what it asked for; EAGAIN or nothing asked for; EOF or closed before |
| `ProcessMessage` | the wrapper lookup of `ProcessMessageCallback`; through the right wrapper the handler returns, or throws, as `GetProtobufString` does of a text shorter than a header, and the loop is over |
| `FindConnection`, `EraseConnection`, `LoadNum`, `DecreaseConnection`, `EraseIndex`, `Return` | `DeleteConnection`, `RemoveConnection` and the rest of `HandleEvent` |
| `Arrive`, `HangUp` | the client |
| `TableRace` | two unlocked accesses to one table at once, one a write |

Data: input is counted in parts, a part being what one call of `ReadNonBlocking`
asks for (a header, or the rest a header announced). What `Business` makes of a part
depends on its bytes, so it is a choice: a message is complete, more is asked for, or
more was received than announced and `read_length` sticks at 0 (`deaf`). A read that
gets less than a part changes nothing another component can see. `on_delete` does
nothing, as no descriptor ever has a client; what a handler does with a message is in
`Upload`. A connection's `ready_events` are only ever added to and have the read bit
whenever it is reported, so they are left out, and so is `MAX_EVENTS`: an epoll
instance that returns only some of its ready channels returns the others next time.

Undefined behaviour is a choice. A table race either crashes the process or is one
access after the other. Through a wrapper of a connection that is gone the handler
crashes, throws or replies to nobody; a freed channel or connection that is read
crashes the process or reads what was there. `up` is false after a crash.

`ReactorsAssumption` (at least one sub-reactor) is what the code needs, not what it
checks: `hardware_concurrency` may be 0, and then `BindConnectionToReactor` returns a
null pointer that the constructor of `Connection` follows. In the thread pool such a
number makes a pool that runs nothing, and `DestroyedIsDone` assumes a worker.

### 2.4 Messages

`ProtoWire` is what the generated classes do with a record of strings and int32s, given
its layout: `Encode` is a field's part of `_InternalSerialize`, `FieldSize` its part of
`ByteSizeLong`, `ReadField` one turn of the loop of `_InternalParse`, `MergeFrom` the
method of that name. Two wire types are in use, varint and length-delimited; what the
parser makes of others (it skips them), of a truncated field and of a string that is no
UTF-8 (it has been assigned when the parse fails) is there too, because the handlers
use what was parsed without a look at the result. The parser is a recursive function.
`Text` is what the two calls can take at all, whose sizes are ints: at most 2147483647
bytes. A request that is longer is not serialized, so `Receive` is of those that fit.

`ClientMessages` and `ServerMessages` give each message its fields and layout: a
generated class is one record set and one layout. `MessageExchange` puts the two ends
together.

| action | code |
|---|---|
| `Receive` | the client serializes a request that fits an int; `Buffer::Append` keeps of each piece what is before its first NUL |
| `ProcessRegister` ... `ProcessModifyUser` | the handlers of `process_function_pool`: `ParseFromString`, and the reply through `SetBuf` or none. Which of the replies is open |
| `ProcessUploadData` | and `WriteData`: `Reached` are the slide files that the path may lead to, `Write` what is in one then |
| `ProcessDownLoad` | and `ReadData`: one `operator>>`, hence `Word` |
| `ClientReads` | the client takes all there is |

`disk` holds what is in the slide files, each found by its md5 and its number. Which of them
there are is the constant `FoundSlides`: `WriteData` opens a file only if `stat` finds it,
and the one function that would make slide files, `CreateFileMD5InDisk`, gives up before it
does (`filemd5_dao.cc:15`), so the server never adds one. `Md5Of` are the md5s of the files
in the database, by their ids, and `SLIDE_SIZE` the bound on the data of a slide, 1024 in
the program. The path is `DISK_DATA_PATH`, the md5 as the handler sees it, a slash and the
number. An md5 that names a folder (`FolderName`: not empty, not "." or "..", without "/"
and NUL) leads to that slide or to none; another may lead to any slide, or to a file that is
none. `std::ofstream` empties the file, and nobody looks whether the write succeeds: `Write`
leaves all of the data or any shorter beginning of it, and `WriteData` returns true of both.
`uploaded` and `failed` are history: what each slide was last sent, or `Unknown` if the md5
or the data were not plain text, and the slides whose last write failed, which nothing in
the program knows. Other connections do not upload meanwhile; `Upload` has those.

### 2.5 MessageFraming

One connection, byte by byte: `network`, `socket` and `event` are what is under way, in
the kernel, and on epoll's ready list; `readLength`, `receivedLength` and `text` the
fields of `Connection` and its buffer. `memory` is what stands at the buffer's `c_str()`
for the length of a header, whether the text reaches that far or not: `Business` copies
a header from there without a look at the text's length. An int has `WordSize` bytes of
`Base` values and is signed, as those of `TransmissionHeader` are: a highest byte of the
upper half of its values counts as negative (`Signed`). Two-byte ints of five values are
enough to have NULs where real headers have them, and negative commands.

| action | code |
|---|---|
| `Send`, `HangUp`, `Arrive`, `ArriveEnd` | the client and the network, in pieces of any size |
| `Poll` | the event is taken, once (edge triggered) |
| `Read` | one turn of the loop of `ReadNonBlocking` |
| `Dispatch`, `AskForRest`, `SomethingWrong` | the three branches of `Business` |
| `Close` | the end of the stream |

`Gate` is that of `ProcessMessageCallback`: a command below 2 passes, and it has no lower
bound. Command 1 is `ProcessRegister`, which throws in `GetProtobufString` if the text is
shorter than a header, and the loop is over. A command below 1 is an index before the first
element of `process_function_pool`; what a call of what stands there does is not defined, and
in the model the loop goes on (`Returns`) or ends (`LoopEnds`).

### 2.6 Accounts

Users and directories are documents of one collection in the order of insertion, which
is what `find_one` goes by. A thread of `Threads` is a reactor with one call at a time;
a step is one driver call or one access to the client pool. `seen`, `loggedIn` and
`overlapped` are history. `complete` says whether a document can be decoded as a user:
what `AddUser` inserts cannot, for want of `sync_directory_id`. `Restart` is a kill and a
new start: the collection stays.

| action | code |
|---|---|
| `RegisterHas`, `AddUserHas`, `AddUser` | `UserService::Register` looks for the name, `UserDao::AddUser` does again and inserts |
| `Login`, `GetUserId`, `HasClient`, `MakeClient`, `AddConnection` | `ProcessLogin`: the password, the id by name again, `GetOrMakeClient`, the client's connections |
| `ChangePassword` | `ProcessModifyUser` |
| `HasDirectory`, `AddDirectory`, `RemoveDirectory` | `DirectoryService`; a string that is no id throws, in a search as "nothing found", elsewhere out of the loop |

The gate lets only `ProcessRegister` pass as the program is wired, and the framing not
even that; as in `Upload`, the model is of the handlers as a client would drive them if
they were reached.

### 2.7 ThreadPool

A step is one critical section of `queue_mutex`, one notification or the end of a task;
`TakeTask`, `Return` and `Sleep` are the three ways out of the worker's wait
(`thread_pool.cc:8-18`), `Add` and `NotifyOne` the two halves of `Add`
(`thread_pool.h`), `Stop`, `NotifyAll` and `Join` the destructor. A task that throws
ends like one that returns, because `packaged_task` keeps the exception: that is how a
reactor's loop ends without a trace. As the loops do not return otherwise,
`~TcpServer`, if it were reached, would not return either.

## 3. Runs

| run | checks | bounds |
|---|---|---|
| `reply` | `TypeOK`, `FrontPinned`, `BytesInOrder`, `OpenClientServed`, `ImplementsFifo`, `DeadFrontDropped`, `AwakeSenderDrains` | 2 descriptors, 3 connections (so one is reused), 2 replies of 0 or 2 bytes (so a write may be partial and a package may be empty) |
| `reply_awake`, `reply_stray` | violated: findings below | 1 descriptor, 2 connections |
| `upload` | `TypeOK`, `PendingOrReceived`, `TornOnlyByCrash`, `FinishedIsReceived`, `RefsFallWithRemovals`, `ImplementsLedger`, `AllReceivedFinishes` | 2 workers, 1 content, 2 slides, 3 requests, 1 kill, 8 documents, every seed of `MCUpload`, among them two filemd5s of one content |
| `upload_stuck` | `HandlerEnds`, with driver and disk faults | 2 requests, 1 kill |
| `upload_done` | violated: finding below | 4 requests |
| `conn` | `TypeOK`, `BatchAlive`, `TableMatchesSockets`, `MessageFindsItsWrapper`, `LoadCountsBound`, `OwnReactorFrees`, `HungUpReleased` | 2 descriptors, 1 sub-reactor, 2 connections, 2 unread parts each |
| `messages` | `RequestIsSeen`, `RepliesMerge`, `DownloadIsUpload` | every request of 9 kinds over 3 texts and 2 numbers, 2 unread replies, 2 slides of one md5, 2 files |
| `framing` | `TypeOK`, `FramesInOrder`, `NothingBeyond`, `StallsBetweenParts`, `NothingIsServed`, `BodyIsDispatched` | 3 messages of 5 kinds, one with a negative command, cut anywhere; ints of 2 bytes of 5 values |
| `framing_stall` | violated: finding below | 2 messages |
| `accounts` | `DuplicateOnlyByRace`, `LoginIsOfCheckedUser`, `RegisteredNeverLogIn`, `LoginIsKept` | 2 threads, 1 name, 2 passwords, 1 place, 3 documents, 3 seeds, driver faults, restarts |
| `threadpool` | `NothingLost`, `NoTaskSleeps`, `DestroyedMeansDone`, `LoopsStart`, `DestructorReturns` | 3 workers, 2 callers, 4 tasks |

The type correctness of `Accounts` and `ThreadPool` is proved (section 5), and their
runs do not repeat it.

Why the bounds are enough: two descriptors and three connections give every way a
package can outlive its connection, with the descriptor free or reused, while another
client is served; two replies give a front and a follower. Two workers give every
pair of handlers in every interleaving; with three requests both slides of a file can be
sent while a third request races them, or a file be announced and each of its slides be
sent, and no run of three requests can insert more than `MaxDocs` documents. The seeds
add what takes more requests to come about: files that share a filemd5, a folder that is
missing, a file document in front of the filemd5 it refers to, a second filemd5 that is found
once the first has been deleted. `conn` has one
sub-reactor because two connections on it are what can starve one another, and the main
reactor can accept over a reused descriptor while the sub-reactor deletes; that
everything but `HungUpReleased` holds for several sub-reactors as well is proved.
`MaxInput` bounds what is unread at a time, not how much a client sends, so the other
connection may keep the reactor busy for ever. The texts of `messages` are empty, plain,
and two words with a NUL between them; its numbers take one byte and three, and -1, a
reply's, ten. Its two slides differ in their number; an upload's md5 leads to one of them,
to none, or to any, and its data fits or does not; one file has the slides' md5, the other
an md5 that names no folder. In `framing` one message has a body that takes more than one
read, two have NULs (in the header or the body), one has a negative command and no NUL, and
a third message shows what the second leaves behind. In `accounts` two threads give every
pair of calls, and three documents a duplicate behind or in front of a user who can log in.
In `threadpool` there are more
tasks than workers, and at times fewer. Symmetry (of threads, in `accounts`) is used
only where no liveness property is checked. `CHECK_DEADLOCK FALSE` is used because the
systems really stop: clients send a bounded number of requests, a signal ends the
process, a pool is destroyed. The largest runs are `messages` with about 962,000
distinct states, `framing` with about 389,000, `upload` with about 141,000 and `conn` with
about 111,000; none takes more than two or three minutes.

**Fairness.** `ReplySender!FairSpec` has weak fairness of the sender thread only: no
client and no connection is assumed to do anything. `AwakeSenderDrains` states its own
assumption that clients read (strong fairness of a write that makes progress).
`Upload!FairSpec` has weak fairness of each worker's handler, i.e. every thread keeps
being scheduled. `ReactorConnections!FairSpec` has weak fairness of the main reactor
and of each sub-reactor as a whole, again the scheduling of threads; nothing is assumed
of clients. That the loop gets round to every channel of a batch is the code's doing.
`on_transmission_mutex` is not a fair mutex: with endless requests a
waiting worker might be overtaken for ever. Requests are bounded in the model, so weak
fairness is enough there, and `HandlerEnds` says nothing about an endless stream.
`MessageFraming!FairSpec` has weak fairness of the reactor: neither client nor network
is assumed to do anything. `ThreadPool!FairSpec` has it of each worker that can take
the lock, of each notification that is due, and of the destructor once called; nothing
is assumed of how long a task takes, and `DestructorReturns` states its own assumption
that tasks end. `MessageExchange` and `Accounts` claim no liveness.

## 4. Findings

| run | what the code does |
|---|---|
| `reply_awake` | a push never wakes a sleeping sender |
| `reply_stray` | a reply goes to whoever has the descriptor when it is written |
| `upload_done` | a client that sends exactly what it is told is told -1 with slides owed |
| `framing_stall` | a message that has arrived whole is not processed: after the header `Business` waits for an event that has been spent |

The models contain these as well, and have no run for them.

In the upload protocol:

* Two concurrent deletions may take one reference between them, which leaves the number
  too high (`filemd5_service.cc:80`); `RefsFallWithRemovals` says that deletions do not take
  more than they may. The number may be too low all the same: a second file of a content
  does not raise it (`server.cc:219-237`).
* A driver exception counts as "all are received" (`transmission_dao.cc:144`,
  `server.cc:322`), so `FinishedIsReceived` is for a driver that does not throw.
* A failed write does not "close client" (`server.cc:69`); `on_transmission_slides`
  misses the numbers `GetNextSlideNoInTransmission` hands out (`server.cc:473`); a
  finished filemd5 leaves its files' state (`file_dao.cc:166`); no folder is ever created
  (`filemd5_dao.cc:15`); a second announcement inserts a second document
  (`server.cc:207`); `WriteData` returns true after a failed write (`filemd5_dao.cc:198`).
* A deletion by the `_id` of a filemd5 removes the filemd5 (`dao.cc:189`): its content's
  account is gone, its transmission documents and slide files stay.
* Once a filemd5 is deleted a slide of its content that arrives is written and then not
  accounted for, unless there is another filemd5 of the content. Hence the `IsOpen` in
  `AllReceivedFinishes`: what is deleted while its last slide is handled is never finished.

In messages and framing:

* Every header that the real client can send has NULs among the bytes of its two ints.
  `Append` stops at the first, so the header that is looked at is not the one that was
  sent, its length reads as 0 or as what an earlier message left there, and `Business`
  is in the branch of what is wrong, which resets nothing: the connection is `Deaf`, for
  good. `FramesInOrder` and `NothingBeyond` are about streams without NULs whose headers
  are read in one go (`whole`), the latter while the reactor runs; `NothingIsServed` is about
  all.
* A header that is read in two pieces, or an event with nothing behind it, makes
  `Business` look at a header that is not all there, with a stale length.
* The gate lets only commands below 2 pass without a client, and clients are made by
  `ProcessLogin`, command 2, only. What passes has a NUL in its header, and then the text
  ends there and no request is parsed, or is negative, and then it names no handler: its
  header may be whole (`server.cc:118-119`). Negative lengths are less than anything received, so `Business`
  takes them for something wrong.
* Refusals are silent: a reply whose fields are all 0 is no bytes. Replies have no frame:
  `RepliesMerge` says what the client reads if two reach it together.
* A download brings the first word of the slide (`filemd5_dao.cc:169`). An md5 that
  names no folder, an empty one for instance, is put into the path like any other
  (`filemd5_dao.cc:158, 188`), and one that is cut at a NUL leads to another content's slide. A write that fails leaves the slide empty or half written, and is
  answered like one that did not.

In accounts:

* `AddUser` leaves out a field that the decoder needs: who registers cannot log in.
* Two registrations of one name at once both succeed, and so do registrations after a
  search that threw (`dao.h:284`).
* The second of two logins of a user at once replaces the client that the first holds a
  pointer to (`sync_drive_client_pool.cc:52`).
* `RemoveOne` removes whatever has the id, a user too; a malformed id ends the loop.

`ReactorConnections` shows these, all of which the properties state around:

* An event before `SetOnRecv` ends its reactor's loop, silently, and
  `BindConnectionToReactor` goes on giving connections to that reactor. Hence the
  `dead` in `HungUpReleased`.
* Edge triggered, a channel is reported once, and one event reads one part. An EOF (or
  a further part) that is there already is not looked at before more arrives; after an
  EOF nothing does. Such a connection, and one that is `deaf`, is never released.
  `EofReported` leaves them out.
* A connection that hangs up between `SetOnRecv` and `Insert` is not found by
  `DeleteConnection`; the closed object is inserted afterwards and stays.
* Between `Insert` and `AddConnection` the reactor may delete what the main reactor is
  about to use, or dispatch a message that finds no wrapper, or the one of an earlier
  connection. Hence the `Me` in `MessageFindsItsWrapper`.
* A deletion that overlaps an accept may leave the loads wrong for good: the descriptor
  is free before `RemoveConnection` looks it up, and the counters have no lock. Hence
  `raced` in `LoadCountsBound`.
* Wrappers are never removed from the pool; they are only overwritten.

## 5. Proofs

Every theorem is for all values of the constants under the named assumptions
(`ReactorsAssumption`, `ConnBoundsAssumption`, `LensAssumption`, `BoundsAssumption`,
`SlideNumAssumption`, `SeedsAssumption`, `ValuesAssumption`, `RepliesAssumption`,
`SlidesAssumption`, `FramingAssumption`, `AccountsAssumption`, `PoolAssumption`), which TLC evaluates in the
runs. Every safety invariant and action property that a passing run checks is stated by
a theorem; what a run checks and no theorem states is listed at the end.

**Reply path.** `SenderInv` is inductive: the queue is the tail of all packages ever
pushed (`QueueIsSuffix`), the pointer is its head while in use (`FrontPinned`), a
package's counters add up and none behind the front was touched (`Counters`), and the
sender pops only what it finished or failed on (`PopsFinished`). The last two are
needed because popping is a separate critical section: without them a pop could be of
an unfinished package. `SenderImplementsFifo` maps each step to a step of `ReplyFifo`
or a stutter; `BytesInOrder` is then inherited from `FifoSafe`, which is proved in the
same module of its instance `Fifo` of the abstract one. `OpenClientIsServed` needs a second
invariant: a connection that is still open is still at the descriptor its packages name
(`AtItsFd`), so whatever was written for it went to it (`ServedInv`).

**Upload.** `UploadInv` says for each label what the handler there relies on
(`Relies`), in terms of documents, ids and written slides, and that this survives the
steps of the other workers (`ReliesIsStable`). The document a handler has found may be
deleted under it, a complete filemd5 too, but then for good, because ids are never reused;
while there is a document of that id it is the one that was found, complete and of the same
content; written slides stay written. So what is relied on is said of *the document of this
id, if there is one*, and an update by an id that is gone changes nothing.
`FinishedIsReceived` does not rest on the mutex at all: once nothing is pending for a
complete document, `PendingOrReceived` gives that all its slides were written, and that
fact, unlike "nothing is pending", cannot be invalidated before `UpdateState`.
In the refinement the account of a complete filemd5 is open while the document is there;
`RemoveFile` maps to `Close` if it removes one and to a stutter if it removes a file
document, and transmission documents that are inserted or struck off under the id of a
deleted one are owed to nobody.
`PendingOrReceived` and `TornOnlyByCrash` are proved for a working disk, with driver
exceptions allowed; `FinishedIsReceived` and the refinement of `SlideLedger` need a
driver that does not throw, and need it (section 4). Type correctness is proved
whatever fails.

`RefsFallWithRemovals` is proved in `UploadProofs`, whatever fails, for a finite set of
workers. `RefsInv` counts what deletions may still take: a worker between `GetId` and
`UpdateReferenceNum` is `Due` one reference for the document it removed, and `Credit` is
the removed documents less the workers that are due. A number, in the document or in the
hands of a worker that has read it, is never more than the credit below what it was at
first. `RemoveFile` adds a document and a due worker and leaves the credit alone;
`UpdateReferenceNum` writes one less than was read and is due no more; giving up, a
failure or a kill only make the credit bigger. It does not matter how old the number is
that is written back, because the credit never shrinks. The prover has to be told that
both sets are finite, which is why `Removed` is taken from an interval.

**Connections.** `ConnInv` is inductive: where the main reactor is and what exists then
(`MainInv`), the life of each object against its descriptor (`LifeInv`), the tables
against both (`TableInv`), and what each sub-reactor may hold (`PointerInv`). What makes
it work without locks is that every pointer to a live connection is held by the reactor
it is bound to (`home`), which is also the only one that erases it: erasing takes out
the entry of the descriptor, and `TableInv` says that this is the connection whose event
is being handled, because a live connection's descriptor is not anybody else's
(`LifeInv`). A batch has each channel once (`at[r] \notin batch[r]`), so what is erased
is not in it. All five safety properties follow, for any number of reactors,
descriptors and connections. `LoadCountsBound` needs a second invariant, `BalanceInv`:
while no deletion has overlapped an accept, the index of every live connection is its
home, a deletion has at hand the load it will decrease, no two deletions have the same
descriptor, and the loads are the cardinalities of `Counted`.

**The wire format.** `VarintRoundTrip`: every int32 is read back from its varint. The
proof writes a number below 2^31 as the sum of its five groups (`GroupsAddUp`) and goes
through the five sizes and the negative numbers, whose groups are those of the 64-bit
number they are extended to. `EncodeIsNulFree`: a field whose text has no NUL has none
on the wire, because a varint's last group is not 0 unless the number is, and a field
that is 0 is not written. `EncodeSize`: `FieldSize` counts what `Encode` writes.

From fields to messages: `SerializeNulFree` and `SerializeSize` say the same of whole
messages; `ParseTyped`, that the parser makes a message of any bytes whatever;
`RoundTrip`, that a message of clean text is parsed as it was serialized; and
`StreamMerges`, that any number of messages one behind the other are parsed as the merge
of them all. They are for every layout with distinct names and distinct field numbers
from 1 to 15 (`GoodLayout`), and all seventeen messages have one. The size of a `Text`
is bounded because the length of a field is written as an int32: of a longer one the
varint would not be read back.

These are facts about folds and about a recursive function, and they need induction. The
library's induction theorems take an operator, which the provers cannot instantiate, but
well-foundedness is stated about sets: `Induction` and `InductionTo` take the *set* of
the numbers of which the fact holds, and each use names such a set. A fold of the
community modules is a `CHOOSE` of a function that satisfies the recursion; that one
exists is an induction (`RightFoldExists`), and so is that two of them agree where they
are evaluated (`FoldsAgree`). `LeftFold` is the same for a sequence in a form the proofs
can use, the last value of a run (`Runs`) from the base; `FoldLeft` is shown equal to it
(`SetsFolded`), and `LeftFoldConcat` is what makes streams compose, with `FlattenAppend`
and `FlattenSplit` for their bytes. The parser's recursive function exists because every
turn of its loop ends behind where it began (`RestExists`), and `RestAt` is its
equation. `ReadsAs` then says of some bytes which assignments the parser makes of them,
whatever stands behind: a field reads as itself, a message as its fields, a stream as
its messages.

**Messages.** `ExchangeInv` is inductive, for all texts, numbers and pieces: the buffer
is what `Append` lets through of the request in some cut (`RequestReceived`), the stream
is what `SetBuf` lets through of each reply, flattened (`StreamIsReplies`), and a
slide whose last upload was plain and did not fail holds it (`SlideIsUpload`). None of the three is a
property itself: they tie the bytes to the messages they come from. `RequestIsSeen`
follows because clean text has no NUL on the wire, so every cut lets all of it
through, and `RoundTrip` does the rest; `RepliesMerge` from `StreamMerges`. For
`DownloadIsUpload` the three meet, for any set of slide files: the md5 and the data are
plain text, so the parsed request has them whole and the path leads to the slide that was
meant (`ReachedIs`); what else is uploaded meanwhile goes to another slide, or is noted as
`Unknown` (`NotedIs`), or has failed (`WriteKeeps`); `operator>>` reads one word and that is
all of it, and the reply is read back. No working disk is assumed: the property is about
slides whose last write did not fail.

**Framing.** `FramingInv` is inductive for any width of the header's ints, any base and
any set of messages. As long as nothing has gone wrong (`whole`) and the reactor runs, which
a negative command may end, what has been
dispatched, what is in the buffer, in the socket and under way, joined, is all that was
sent, and `receivedLength` counts the buffer (`Accounted`); what is asked for ends at
the header's end or at the message's (`InPart`, `InBody`). The second needs that the
header in the buffer is the header of the message that the client is at, which is where
`Accounted` comes in: the buffer is a prefix of what is left of the stream after whole
messages, so its first bytes are those of the next one (`SameHeader`). `TextInMemory`
and `NoNulUnderWay` close the gap between the text and the memory that `Business` copies
from. `NothingIsServed` is of all streams, NULs or not: an int is some bytes of a base, the last
of them signed (`Word`, a fold, unfolded by an induction over its positions). Without a zero
among its bytes what stands above the lowest one is not 0 (`SignOfTop`, `ValueFrom`), and a
number whose lowest digit has anything above it is not 1 (`LastDigit`, `WordValue`). So command 1 has a zero, at which
`Append` has cut the text. It is why `FramingAssumption` wants `WordSize > 1`; the program's
is 4. Of negative commands the property says nothing, as they name no handler.

**Accounts.** `AccountsInv` is inductive. `DocsKept` is what any step leaves of the
collection: at most one document more, behind the others, and of the old ones only a
password may change, or `live` from true to false. Its consequence is that "the first
document of the name", once found, stays the first while it is live, since later
insertions have bigger ids; so what `Login` checked and what `GetUserId` finds are the
same, or the first has been removed (`LoginOK`). `SearchedOK`: a thread that is about to
insert has seen no like document among the first `seen[t]`, and the dead do not come
back; an insertion at position `j` therefore clashes only with what came after the
search. `ClientOK` keeps the pointer of a login at the current client of its user unless
two threads have been at `MakeClient` for that user at once, which is what `overlapped`
records when the second gets there.

**Thread pool.** `PoolInv`: the tasks started and those queued are 1 to `added` in order
(`InOrder`), a worker ends only with the queue empty and `stop` set, after which nothing
is added (`EndedDrained`), nobody sleeps after `NotifyAll` (`StopWakesAll`), and
`NoTaskSleeps`. The last is inductive by itself: `Add` brings its own notification,
a notification that is spent brings a worker who checks, and a worker goes to sleep only
from an empty queue. `IsFiniteSet` of workers and callers is needed to count them.

Only model-checked: the leads-to properties, as liveness under fairness is out of the
prover's reach. They are `DeadFrontDropped` and `AwakeSenderDrains` of the reply path,
`AllReceivedFinishes` and `HandlerEnds` of the uploads, `HungUpReleased` of the
connections, `BodyIsDispatched` of the framing, `LoopsStart` and `DestructorReturns` of
the thread pool. That TLC refutes the four properties of section 4 is a matter of one
counterexample each and has no theorem either.

## 6. Not modelled

* Of the generated code: descriptors, arenas, reflection, the cached sizes and unknown
  fields; `SSync` and the two messages inside it, which nothing makes (`ProcessSync` is
  empty).
* The Mongo driver and the database handle, the socket wrapper, `main`, the build, the
  test that prints a string.
* Operations that no handler reaches: `UpdateName` of directories and the directory
  tree, `GetAll`, `RemoveAll`, `UpdateSyncDirectoryId`, `~TcpServer`, and calls of `Add`
  on a pool that is gone.
* Data races on the unlocked maps as memory corruption: `TableRace` ends the process
  or the accesses happen one after the other. Data races on the load counters are
  modelled as lost updates; the unlocked reads of `GetIndexOfAvailabelReactor` are one
  step.
* Failures of `accept`, `epoll_ctl` and `epoll_wait`, and read errors other than EAGAIN
  (they take the way of an EOF).
* Clients in `RemoveConnection` and `TryDelete` of the pool: `fd_clients_map` is never
  written, so no descriptor has one. `Accounts` has the clients that `ProcessLogin` makes.
* What a command below 1 does beyond returning to the loop or ending it: a member function
  is called that is not there.

## 7. Plan

Done: the reply path, the upload protocol, connections and reactors, the wire format, the
exchange of messages, their framing, the thread pool, accounts and directories, each with
its runs and its proofs. What is left:

1. Composition of `ReactorConnections` with `ReplySender` over the shared descriptors:
   whose descriptor a package names while its connection is deleted and accepted again.
2. Directories and uploads over one collection: what a directory's removal by an id that
   is a file's does to an upload under way.
