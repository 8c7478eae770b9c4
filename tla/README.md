# A TLA+ verification of song

song is a C++20 RPC framework: a service is a child process behind a pipe, or a
TCP server; a client calls it, streams from it, creates objects in it and
subscribes to their properties; a manager starts, stops, replaces and restarts
local services; a registry lets clients find remote ones; a compiler, songc,
writes the proxies and dispatchers of both ends from an interface file.  This directory holds
TLA+ models of its parts, the TLC configurations that check them, and theorems
about them that TLAPS checks.  Source paths are relative to the repository.

## 1. Inventory

| Component | Source | State | Operations | What is hard |
|---|---|---|---|---|
| ServiceManager, lifecycle | `src/manager.cpp` | entries (kind, executable, auto_restart, restart_count, max_restarts, process), mutex | register, configure, start, stop, restart, replace, connect, is_alive, check_and_restart | spawns run outside the mutex; several threads install into one entry; children crash at any time |
| ServiceManager, monitor thread | `src/manager.cpp` 371-390, 450-462 | running flag, thread handle, interval | start_monitor, stop_monitor, the loop | flag and handle are not one critical section; the callback runs on the monitor thread |
| ServiceProcess | `src/process.cpp` 17-267 | pid, pipe, capabilities | spawn, handshake, alive, terminate, send, receive | zombies, pid reuse, handshake timeout, versions |
| ServiceConnection | `src/process.cpp` 289-901 | next sequence id, callback, capabilities | call, streaming call, one-way call, subscribe, poll, objects, properties | replies and notifications share a channel; timeouts leave late replies |
| ServiceRuntime | `src/runtime.cpp` | dispatcher, extensions, tracked objects of a connection | message loop, dispatch, capabilities, multi-client accept | thread per client; clean-up when a client goes |
| ObjectRegistry | `src/object.cpp` | id to object, next id, reference counts | create, register, get, add_ref, release, notify | references of several clients, last release while another client calls |
| SubscriptionRegistry | `src/subscription.cpp` | (object, property) to transports | subscribe, unsubscribe, unsubscribe_all, notify | notify sends after unlocking; a transport may be gone by then |
| StreamWriter, StreamReader | `src/stream.cpp` | ended flag, sequence id | write, end, abort, read | one end marker, also on destruction and move |
| Pipe, transports | `src/pipe.cpp`, `src/transport.cpp` | descriptors, connected flag | send, receive with timeout, accept, connect | partial reads and writes, timeouts inside a frame |
| SecureTransport, TLS | `src/security.cpp`, `src/tls.cpp` | keys or TLS session over a transport | send, receive, handshake | a frame that fails to authenticate |
| MemoryRegistry, RegistryClient, registry server | `src/registry.cpp`, `examples/registry` | names to records; client socket and sequence id | register, unregister, discover, list, heartbeat | reconnects, replies after a timeout, client end of file |
| Discovery (mDNS) | `src/discovery.cpp` | platform daemon state | advertise, browse, resolve | callbacks of the platform library |
| Logging | `src/logging.cpp` | level, handlers, mutex | emit, init | handlers run under the mutex |
| Buffer, wire format | `src/buffer.cpp`, `include/song/wire.hpp` | bytes and a cursor, inline or in a block | write, read, move, grow, encode, decode, header | ownership through moves, bounds, widths |
| Python client | `python/song` | socket, sequence id | connect, call | the same bytes in two implementations |
| IDL compiler | `compiler/` | tokens, AST, generated text, files | lex, parse, resolve, generate, scaffold | two counts of the same ids, order of what is generated, outputs half written |
| Backup | `sing/network/backup` | files, an upload's offset | upload, verify, stream back, delete | chunks without a session, several clients on one file |
| Other demonstrations | `sing/`, `examples/` | their own | their own | generated code |

What makes them correct:

- **ServiceManager**: a `ServiceProcess` has one owner and no child is leaked; a
  stopped service stays stopped; a crashed one comes back while it has restarts
  left, and is not restarted more often than that; the destructor leaves nothing.
- **Connection**: a call gets its own answer or an error, never another call's;
  calls run at most once and in order; a stream is whole and in order; no property
  update is lost; every call ends.
- **ObjectRegistry, SubscriptionRegistry, runtime**: counts are exact; a pointer
  is not used after its object is deleted by clients that keep to their own, nor a transport after it is destroyed;
  ids are not reused; subscribers end with the last value; a client that goes
  away is cleaned up after.
- **Registry and its client**: an answer belongs to its question, also after a
  reconnect; a record names a live service.
- **Transports, secure channel, streams**: frames arrive whole and in order, or
  the connection ends; a descriptor has one owner; only authentic messages pass.
- **Buffer, wire format**: a buffer is a queue of bytes whatever block it is in; what
  one end encodes the other decodes, in C++ and in Python; a message that was
  cut is never taken for another one.
- **Compiler**: what is accepted is exactly what is well formed; every generated call
  reaches the member it names; the outputs belong to the input.
- **Backup**: every byte of a backup that is reported as verified was on the agent.

How the parts interact: a caller or the monitor thread enters the manager, whose
mutex every operation takes and which forks children.  Each child is the other
end of a pipe; a client talks to it, or to a TCP server, through a
`ServiceConnection`.  A TCP server runs one thread per client; the threads share
the two registries, each with its own mutex, and write to each other's transports
when a property changes.

## 2. The modules

| Module | Stands for |
|---|---|
| `ServiceManager` | `ServiceManager` and `ServiceProcess`, the kernel's process table, callers and monitor threads |
| `ServiceManagerProofs` | theorems about it |
| `MCServiceManager` | its instances: symmetry and the allocation order for TLC |
| `Connection` | one `ServiceConnection`, the service's message loop and `StreamWriter`, the messages between them |
| `RpcChannel` | the abstract specification of a connection's requests, which `Connection` implements |
| `ConnectionProofs` | theorems about it, the implementation of `RpcChannel` among them |
| `MCConnection` | its instances |
| `ObjectServer` | the TCP server with a thread per client, `ObjectRegistry` and `SubscriptionRegistry` |
| `ObjectServerProofs` | theorems about it |
| `MCObjectServer` | its instances |
| `ByteQueue` | the abstract specification of a buffer, which `Buffer` implements |
| `Buffer` | `song::Buffer`: inline bytes, blocks of the heap, moves, growth |
| `Wire` | codecs, the header and every message, in C++ and in Python |
| `Handshake` | the version that a service and its clients settle on |
| `Frames` | sending and receiving on pipe, TCP, TLS and in Python, and `SecureTransport` over them |
| `FramesProofs` | theorems about them |
| `Sockets` | the descriptors of pipes, transports and listeners |
| `ResourceProofs` | theorems about `Buffer`, the implementation of `ByteQueue` among them, and `Sockets` |
| `Registry` | `MemoryRegistry`, `RegistryClient` and the registry server |
| `RegistryProofs` | theorems about them |
| `Backup` | the backup agent and its clients |
| `BackupProofs` | theorems about them |
| `MCNetwork` | instances of these seven, in one run |
| `IdlAst` | the AST of songc |
| `IdlParser` | its lexer and parser |
| `IdlCompiler` | its resolver and its generators for C++ and Python |
| `Scaffold` | the comparison of an implementation with its interface, and the skeletons |
| `Songc` | `main`: a run of the compiler over its files, whatever parser it is given |
| `SongcProofs` | theorems about it |
| `MCSongc` | inputs for it, an independent account of them, and the properties |

Several modules hold, next to a definition, a variant whose comment begins with
*Mutant*: the definition with a plausible mistake in it.  No specification uses
it.  `PROJECT.json` says which property finds which mistake.

### ServiceManager

The fields of `ServiceEntry` are one function each (`kind`, `executable`,
`autoRestart`, `restartCount`, `maxRestarts`, `process`).  `process[s]` is the
`unique_ptr` of the entry.  `object` is the heap: what each `ServiceProcess`
remembers, a pid and the image it was spawned from.  `os` is the kernel's process
table: a pid is free, running or a zombie, and knows which object forked it.
`borrowed` are the raw pointers `start`, `restart` and `connect` gave out.

Every operation holds `mutex_` throughout and is one action, except the two that
let it go around `ServiceProcess::spawn`:

| Code | Actions |
|---|---|
| `start` | `StartRunning` (already alive), `StartCheck`, `StartSpawn` or `StartSpawnFails` without the mutex, `StartInstall` |
| `stop`, `restart`, `replace`, `connect`, `is_alive` | `Stop`, `Restart`, `Replace`, `Connect`, `IsAlive` |
| `check_and_restart` | `CheckCollect`, then for each service `CheckSpawn` without the mutex, and `CheckInstall` or `CheckRecover` (its catch block) |
| `register_*`, `set_*`, `reset_restart_count` | `RegisterService`, `RegisterRemoteService`, `RegisterDiscoverableService`, `SetAutoRestart`, `SetMaxRestarts`, `ResetRestartCount` |
| `~ServiceManager` | `Destructor` |
| a child dies, a user lets a pointer go | `Crash`, `GiveBack` |

`alive()` reaps (`Reaped`), `terminate()` ends and reaps (`Killed`), the
destructor of a `ServiceProcess` does so to the pid it remembers, whoever has that
pid by now (`Destroy`, with `PidReuse`).  `Checkers` run `check_and_restart`
again and again, as the monitor does; a caller of the public function behaves the
same.

### Connection and RpcChannel

One client thread drives one connection.  `call`, `create_object`,
`get_property`, `set_property` and `call_object` differ in their payload and are
one api.  A request is `Begin` (the health check), `Send` (or `SendToDead`), and
then `RecvReply` or `RecvStream` for each message that arrives, `Eof` or
`TimedOut`.  `SubscribeProperty`, `UnsubscribeProperty`, `StartPoll`, `Poll` and
`Move` are the rest of the client.  The service takes a message with `ServeUnary`,
`ServeStream` (followed by `StreamWrite`, `StreamEnd`, `StreamReturn`,
`StreamThrow`), `ServeSubscribe` or `ServeUnsubscribe`.  Each of `Setters` is another thread
of the service that sets a property in three steps: `SetProperty` assigns the value
(the generated setter), `CopyTargets` finds the subscriber under the mutex and
`SendNotify` sends without it (`SubscriptionRegistry::notify`), so that two of them may
pass each other; `raced` has the properties last set while another thread was at them.
`Crash` ends the service and cuts what it had written.

Messages are reliable and ordered, as on a pipe or a TCP connection.  A message
carries `n`, the number of the request it answers, for the properties; the code
sees only `Seq32(n)`, and the guards compare nothing else.

`RpcChannel` has two variables, `executed` and `outcome`, and says: requests are
executed at most once and in the order they were issued, and one that ends with
"ok" or "error" ends with what the service made of that request.  Everything
else (end of file, timeout, mismatch, ...) is "failed" to it, and so is a
one-way call from the start.  `Channel` in `Connection` is the refinement mapping.

### ObjectServer

A transport stands for a client's thread too, and for its address, which is the
subscriber id; the address is free again once the thread is done.  `pc` says where
the thread is in `client_loop`:

| Place | In the code |
|---|---|
| free, idle | no client; in `receive` |
| holding | has an `Object*` from `get()`, the registry's mutex no longer held |
| notifying, sending | in `notify_property`; in the loop of `SubscriptionRegistry::notify` |
| subscribed | between `subscribe` and telling the object |
| replying | about to send the reply |
| leaving, closing | cleaning up after the loop; about to destroy the transport |

Every critical section of a registry's mutex is an action, and so is every use of
an object and every message sent to another client.  Undefined behaviour is a
choice: the use of a deleted object goes on with what it finds or ends the server
(`UseFreed`), and so does a send on a destroyed transport (`SendToFreed`).

Two constants choose the mode.  With `CrossClient` clients use and release ids
they did not create, as `README.md:771` lets them, and the service may drop its last
reference.  With `Throws` a `receive`, a decode or a send in
`client_loop` may throw when the client is gone.

Two variables are history: `strayed` has the ids that a client released without
having them, `leaked` counts the references that went with a connection whose clean-up an
exception skipped.  The counts are exact up to these (`RefsCounted`), and
`OwnPointersLive` says of a pointer that dangles which client is to blame.

### The network: Buffer, Wire, Handshake, Frames, Sockets, Registry, Backup

`Buffer` has the fields of the class for each buffer (`inl`, `data`, `size`, `cap` and
`pos` for `inline_`, `data_`, `size_`, `capacity_` and `read_pos_`) and a heap whose blocks a step allocates and frees; a block that is not
allocated any more is gone, so that a stale pointer reads nothing.  Its actions are
`ConstructBuffer`, `DestroyBuffer`, `WriteBytes`, `ReadBytes`, `Reset`, `Rewind`,
`MoveConstruct` and `MoveAssign`.  `ByteQueue` knows of a
buffer only what was written, and how far it was read; `Implements` says that
`Buffer` is one, through `ensure_capacity`, moves, resets and exceptions.

`Wire` is pure: a number is its bytes, a codec appends to a buffer, and a decoder
returns what it read and the rest, or that it failed (`decode_init` for another magic
number too).  The functions that create a message let a payload of any size through; the
header decoder is what refuses one that is too long.  The limits of both languages
(`Cpp`, `Python`) are records.  `Handshake` has the offer of a service, any two
versions, and each client's choice (`Negotiate`, `PythonNegotiate`).

`Frames` is one direction of a connection.  The stream carries units; a header is
two of them, so that it can be cut.  `BeginFrame` is `send` up to the first `write`,
`WriteUnits` one call of `write`, `ReadUnits` one of `read` together with what the loop
does with it, `TimeoutInside` and `StreamEnd` the two ways a `receive` gives up.  A `link` says
which transport it is, which key signs and which one checks, and how many threads
send.  With a key `SecureTransport` is between the messages and the transport.

`Sockets` has an object for each `Pipe`, `Socket` holder and listener, and the kernel's
set of open descriptors; its actions are the constructors, `Connect`, `Listen`, `Accept`,
`Handshake`, `Move`, `Close` and the destructors, with what may fail on the way.

`Registry` composes the directory (`Dispatch`: what the server makes of a call),
its clients (a socket each, a sequence id, a reply to wait for) and the server, which
serves one connection at a time.  A connection keeps the requests and replies under way
after its client is gone.

`Backup` has the agent's files apart from their names, as a file that is streamed stays
open after it was deleted.  An action is one use of the files by the agent's thread for
a client (`Check`, `OpenFile`, `WriteChunk`, `VerifySize`, `OpenSum`, `ReadSum`, `OpenStream`,
`StreamBack`, `DeleteFile`), the client's own beginning (`BeginUpload`), or a comparison at the end
of what was read (`CompareSum`, `Compare`).  The checksum reads a piece at a time, as an
`ifstream` does, and nothing keeps other clients from the file between two.  What the
file held while it was read (`seen`, `was`, `calm`) is history.

### The compiler: IdlAst, IdlParser, IdlCompiler, Scaffold, Songc

`IdlParser` is the lexer on characters (`NextToken`) and the recursive descent on
tokens; a parse function takes the parser's state and returns the state after it and
what it has parsed.  The state says whether the parser or the lexer failed: `main` does not
catch what the lexer throws, a number too large for `std::stoll` included (`abort`).
`IdlCompiler` keeps of the generated text what its meaning depends on: for a proxy the ids and
the codec calls it makes, for a dispatcher the cases with theirs, for a header the
pieces in order with what each defines and needs: a type, the codec of a user type, or
a codec of the library, of which there is none for `void`, for an optional, and, as an array, for
`bool` and `bytes` (`EncodeArray`, `DecodeArray`).  `Compiles` is then that
everything needed was defined before.  The Python generator makes a C++-like call and replaces `req` and
`resp` in it by `buf`, wherever they stand: names are model values to which
`HasReq` and `HasResp` say whether that happens (`ToBuf`, `TypeToBuf`).  Recursion of the code over the bases of a type
is a function here (`Chain`), and over the dimensions of an array another (in `PyEncodeCall`).
`Scaffold` compares a header with an
implementation.  `Songc` runs `main`: `Run` with a mode, `ParseInput`, `ResolveInput`, one
`WriteFile` per output, which the disk may cut short, or `CannotOpen`, which ends the run,
and `Finish`; `Edit` and `Follow` are the developer, who changes the input or does what the
report says.  The parser is a constant of `Songc`, `Parsed`, of which it asks no more than
`ParserAssumption` does: a `Namespace` has its vectors, and in each the definitions of
its own kind, structs have nothing but fields, and a name is an identifier, not a keyword.
`MCSongc` gives it `IdlParser!Parse`.

## 3. What the runs check

| Run | Properties | What it shows |
|---|---|---|
| `manager_ownership` | TypeOK, OneOwner, NoOrphan, NothingOutlives, StopHolds, RespawnBudget | Two callers and two checkers race on a service with failing spawns, crashes, reused pids and a throwing callback: one owner, no leaked child, stop is final, no spawn that was not counted |
| `manager_recovery` | CrashRecovered | The dead process of an auto-restart service is replaced or its restarts are used up |
| `manager_gives_up` | GivesUpOnlyAtLimit, **violated** | One failed spawn makes the monitor forget the service |
| `connection_requests` | TypeOK, OwnReply, StaysInSync, UpToDate, ChannelSpec | Replies are never mixed up, whatever is late, lost or fails; two threads set properties meanwhile, and no update is lost but the one a stream fails on, or one that two setters raced on; the channel refines `RpcChannel` |
| `connection_returns` | StreamWhole, CallReturns | Streams are whole and in order; every call ends without a timeout |
| `objects_owned` | SubscribersOpen, LastValueSeen | With clients that keep to what they created and what the service keeps, no subscription outlives its transport and the last value of one writer is seen |
| `objects_shared` | TypeOK, RefsCounted, OwnPointersLive, CleanedUp, NoReuse | With clients that do not, and with exceptions, counts are exact but for what was released by others, pointers dangle only by them, a lost client's thread ends and its objects are released but for what an exception lost, and ids are not reused |
| `objects_leaked` | CreatorScoped, **violated** | An exception skips the clean-up of a connection |
| `objects_notify` | TargetsOpen, **violated** | A notification is sent on a transport that was destroyed |
| `network` | MessagesDecode, HandshakeAgrees, Implements, BlocksOwned, DeliveredInOrder, OnlyAuthentic, FdsOwned, AnswersOwn, PassedWasThere, LoneUploadPasses | Every kind of message is read back as it was sent, and one beyond the payload limit is refused; buffers are queues and own their memory; frames are whole and authentic; descriptors have one owner; a registry call gets its own answer; of a backup that passed every byte was there, and all of it at once if nobody wrote meanwhile |
| `registry_serves` | GoneClientLeft, **violated** | The registry server stays with a client that is gone |
| `compiler` | LexemesTile, ParserExact, ResolverExact, CallsReachOwn, HeaderCompiles, PythonAgrees, OkMeansCurrent, FollowedReport, KeepsImplementation | songc accepts the texts of its grammar and exactly the well-formed definitions; proxies and dispatchers agree in ids and bytes; the header compiles, Python agrees and a report that was followed is empty exactly when the stated conditions hold; its files belong to its input |

### Where code and documents disagree

Four runs show a disagreement:

1. `manager.cpp:445`: when a spawn of `check_and_restart` throws, the catch block
   drops the entry's process, and `manager.cpp:414` skips entries without one.
   After one failed attempt the service is never tried again, while
   `manager.hpp:36` promises "max restarts before giving up".
2. `runtime.cpp:850`: an exception in a client's thread skips its clean-up;
   the comment at `runtime.cpp:853` and `README.md:771` say otherwise.
3. `subscription.cpp:85`: the send of a notification races the end of a
   subscriber's thread; `README.md:64` calls the registry thread-safe.
4. `registry_service.cpp:127`: the server takes `false` from `receive` for a timeout;
   `transport.hpp:30` says it is the end of the connection.  The server stays with
   a client that is gone and accepts no other.

Others, some of them behaviour that no document speaks of, are in the models, as
conditions of the properties or as what an action does:

- `process.cpp:583`: `call_oneway` is an ordinary call to the service, which answers
  it; `process.hpp:175` says "no response expected".  The answer fails the next
  call (`StaysInSync` counts it among the causes).
- `process.cpp:542`: `call_streaming` fails on a notification; `README.md:770`
  says calls and subscriptions may share a connection (`UpToDate` excepts the update).
- `tls.cpp:291-294`: `TlsTransport` sets the `encrypted` flag in a header that
  `SecureTransport` has signed, so the two together refuse every message;
  `README.md:489` and `README.md:498` combine them (`SecureAccepts` excepts TLS).
- `README.md:771`: any client may use and release any id, of which the plain pointer of
  `runtime.cpp:536` knows nothing: released by another, the object is deleted under the
  thread that calls it.  `objects_shared` takes that step (`UseFreed`), and `OwnPointersLive`
  says exactly when: another client released what it did not have, or let go what this one
  only borrowed.
- `object.cpp:10-20`, `subscription.cpp:63-92`: the generated setter assigns, then copies the
  subscribers, then sends, and holds no lock over the three.  Of two setters the slower may
  tell the older value last, though `README.md:64` speaks of a thread-safe
  registry (`UpToDate` excepts properties whose last changes overlapped).
- `backup_service.cpp:262`: the checksum is of pieces read one after another, without a lock,
  while other clients may write.  A file that was never the local one can pass
  (`PassedWasThere` says what a verdict does show).
- `README.md:755` says that both languages serialize to the same bytes: Python takes
  payloads of up to 64 MB and C++ of up to 16 MB (`wire.py`, `wire.hpp`); the generated Python
  numbers services that follow one with streams otherwise; and `python_codegen.cpp:226` and `:243`
  replace `req` and `resp` by `buf` in all of a generated call, so that a field `request` is
  written as `val.bufuest` and a type `Correspondent` read as `Corbufondent`.
  `PythonAgrees` says that the two agree exactly when none of this applies.
- The compiler accepts what its header does not compile with, and `HeaderCompiles` says exactly
  what: a struct before one it holds by value, though definitions may stand "in
  any order" (`README.md:277`), optional types (`README.md:402`), arrays of `bool` or
  `bytes`, arrays of arrays of a user type, errors and classes as values, and `void` for anything
  but a unary result: `stream m() -> void` becomes `std::function<void(void&)>` and
  `void value = ;` (`codegen.cpp:424-436`).
- The ids of a derived class count from its own first member (`codegen.cpp`), so that its
  members hide those of the base with the same ids, while `README.md:371` says that it
  is chained to the base; `OwnMember` speaks of a class's own members only.
- A writable property of a user type has its modifiers after its name (`parser.cpp:283-307`),
  while `README.md:293` and `:355` write `T[] name`.  `ParserExact` says that every text in the
  documented form is refused.
- `sync` reports a documented struct field or enum item as changed in every run
  (`scaffold.cpp:217-236`, `269-291`), and the skeleton of a stream has a result and no writer
  (`scaffold.cpp:108`), so that it overrides nothing.  `FollowedReport` says both.
- `main.cpp:31` truncates the file before anything is written, and nobody looks whether the
  writing succeeded: a full disk loses an implementation file, and the exit status is 0
  (`KeepsImplementation` and `OkMeansCurrent` except a file that was cut).

### Bounds

- *ServiceManager*: one service, because no operation but the check's loop and the
  destructor touches two entries, and the proofs cover any number.  Two callers and two
  checkers are every pair that can race.  Three objects and pids let an entry and
  two threads own one each; when none is free a spawn waits.  `MaxCount` bounds
  `restart_count`, `MaxBorrowed` the pointers users keep, which only keep
  addresses from being used again.  `LeastFree` takes the least address that
  is free, since addresses are only compared; pids an object still remembers
  are kept apart.  Callers and checkers are symmetric.  `manager_recovery` uses neither
  symmetry nor `LeastFree`.
- *Connection*: `MaxRequests` 2 is a request and one after it that meets what the
  first left behind: a late reply, a late update, a chunk.  `SeqSpace` stands for 2^32 and
  exceeds `MaxRequests`, as no connection lives for 2^32 requests with a stale
  reply under way.  Two setters, which are symmetric, and `MaxChanges` 2: a change that another
  overtakes.  `FewChanges` lets the second change happen beside the first request only,
  where everything that a request does with an update already happens; the theorems have neither
  bound.  `MaxChunks` 2 in the run about streams, which has no setters: a chunk and one after it.
  `MaxQueue` bounds what the client may write before the service reads.
- *ObjectServer*: two clients, of which one writes.  One object: threads meet on the same
  object or not at all, and the theorems cover any number.  `objects_owned` has `MaxAccepts` 3
  connections, so that a transport is used again beside one that stays, and `MaxValue` 2, so that a
  notification arrives late.  In `objects_shared`, with everything that can go wrong, a
  transport is used again once and a value changes once.  `MaxRefs` 2 lets the service take and
  drop a second reference.

- *Network*: a behaviour is that of one part (`part`) while the others rest:
  they share nothing, and one run explores the sum of their states.  Three buffers'
  blocks are one more than a move between two needs; `MaxSize` 3 grows an inline byte
  to a block and that to another.  Two frames of up to `MaxPayload` + 1 units, a pipe that
  takes three at once and a stream that holds three cut a frame everywhere, let one be too
  long and one follow a failure.  `Links` are the transports, with equal,
  different and missing keys, and two senders on TCP.  Three objects and four descriptors
  let one be moved onto another that is in use.  Two registry clients with two
  calls and three connections: a call times out, its answer comes late, another
  is made on a new connection; one restart of the server in between.  The clients of the
  registry and of the backup agent are symmetric.  Two backup clients with
  up to three uploads, files of up to two chunks over an old one of three, read in pieces
  of one byte for the checksum (`SumPiece`): a piece before and one after what others do.  Messages:
  each kind with numbers at the ends of their range, strings and arrays at and one beyond
  their limits, and payloads of every size around `PayloadLimit`, some exactly that, some a byte
  more.
- *Compiler*: every text of up to four characters over eleven that begin or end every kind of
  lexeme; numbers of more digits than `std::stoll` has room for (`MaxDigits`, in
  hexadecimal `MaxHexDigits`); a file with every construct, inheritance, flags and trailing commas among
  them, and that file with a token removed, replaced by each of six others, or with a comma or
  doc comments put before it; the same in the documented form of a property; all inheritance
  among three types of three kinds; the numberings of three enum items; structs, services,
  streams and classes over sixteen types; names with `req` and `resp` in them; four histories of an interface,
  and two whose later text has a doc comment.  The families are definitions of `MCSongc`.

`CHECK_DEADLOCK FALSE` is set everywhere: the systems may stop, after the destructor,
with all requests used, with the server crashed, or when the compiler is done.

### Fairness

- `ServiceManager!FairSpec`: weak fairness of each checker's next step. The
  monitor's loop calls `check_and_restart` forever, and a spawn ends by the handshake
  or its timeout.  Nothing is assumed of callers.
- `Connection!FairSpec`: the client's thread goes on with what it is doing and the
  service's loop with what has arrived.  No message is forced to come, no timeout to
  expire, no call to be made; the service may crash.
- `ObjectServer!FairSpec`: a thread goes on with its request and its clean-up, and
  `receive` reports the end of file of a client that is gone (`Unblocked`).  Nothing is
  assumed of clients or of accepts, nor of a blocking `::send` to a client that is still
  there, which may never read: `CleanedUp` excepts a thread that waits for one.
- `Registry!FairSpec`: the server's loops go on, and its `receive` returns. Nothing
  is assumed of clients, and no restart.

## 4. What is proved

TLAPS checks the theorems of the eight modules `...Proofs`, for all values of the
constants that satisfy the assumptions below: any number of services, threads,
pids, clients, objects, properties, requests, restarts, descriptors, blocks, frames,
files and definitions, of any length.  TLC checks the same properties on the instances of
section 3: the `MC` modules extend the modules that the theorems are about, so that
what a run checks and what a theorem states is one definition.

| Theorem | Says | Inductive invariant |
|---|---|---|
| `ServiceManagerProofs!TypeCorrect` | `[](TypeOK /\ Phases)` | itself: `Phases` is what a thread's locals are at each point, without which the install steps would not be typed |
| `OwnershipHolds` | `[](OneOwner /\ NoOrphan)` | both together, with the types |
| `NoChildLeaks` | `[]NoOrphan` | a corollary |
| `StopIsFinal` | `[]StopHolds` | `Quiet`: a stopped service is also in nobody's hands, and the service a checker is at is still on its list |
| `NoChildOutlives` | `[]NothingOutlives` | `Ownership` and `Quiet`: a closed manager owns nothing, so by `NoOrphan` nothing is left |
| `RestartsAreCounted` | `[]RespawnBudget` | itself, with the types: the spawns queued for a service are counted before they are made, and they are a finite set because the checkers are |
| `ConnectionProofs!TypeCorrect` | `[]TypeOK` | `Base`: with `Shapes`, what a message under way may carry, and `Phase`, what the client's place says of its last request |
| `RepliesAreOwn` | `[]OwnReply` | `Answers`: `Order`, the requests under way come after the one being served and none is executed; `Replies`, what is under way tells what became of its request |
| `ImplementsChannel` | `ChannelSpec` | a step simulation under `Base` and `Answers` |
| `StreamsAreWhole` | `[]StreamWhole` | `Streams`: the chunks of a stream that is read follow each other under way without a gap, from the last one received to the last one written |
| `MismatchHasCause` | `EndIsLast` gives `[]StaysInSync` | `InSync`: whatever is under way for a request is awaited, or a request up to it was abandoned |
| `UpdatesArrive` | `[]UpToDate`, for any number of setters | `Updates`: the current value of a property that was not raced on has reached the callback, is the last update under way, or is in the hands of the one setter that is at it (`Alone`) |
| `VersionsAgree` | any offer gives `[]HandshakeAgrees` | none is needed: an offer does not change, and the choice is compared with the highest common version for all pairs of integers |
| `ObjectServerProofs!TypeCorrect` | `[]TypeOK` | with `Pointing`: a thread that follows a pointer has one |
| `SubscribersStayOpen` | `~Throws` gives `[]SubscribersOpen` | `NoGhosts`: a thread about to close has no subscription either |
| `RefsStayCounted` | `[]RefsCounted`, in every mode | `Counting`: a thread that is gone tracks nothing, and nobody has an id still to come, so a new object starts at zero |
| `OwnPointersStayLive` | `[]OwnPointersLive`, in every mode | a corollary of `RefsCounted` and the types: what is tracked or kept, and was released by nobody else, has a count |
| `LastValueIsSeen` | `~Throws`, `~CrossClient` and one writer give `[]LastValueSeen` | `Keeps`: what a thread works on is tracked by its connection or kept by the service; `Told` and `Setting`: a subscriber has seen the value or is among those the setter still has to write to, with that value |
| `IdsAreNotReused` | `NoReuse`, in every mode | the types |
| `ResourceProofs!DescriptorsOwned` | `[]FdsOwned` | with the types: itself |
| `RegistryProofs!TypeCorrect` | `[]TypeOK` | with `Exchanges` |
| `AnswersAreOwn` | `[]AnswersOwn` | `Exchanges`: on a client's connection there is its call or the answer to it or nothing, no two clients have one connection, and a call on a connection given up was told to have failed |
| `ResourceProofs!NoBlockLost` | `[]BlocksOwned` | with `Fits`: the capacity is that of the memory pointed at |
| `ImplementsQueue` | `Implements`, that is `ByteQueue!Spec` of the bytes in use | a step simulation under the same |
| `FramesProofs!FramesInOrder` | `[]DeliveredInOrder` | `Base` and `InOrder`, below |
| `KeysProtect` | `[]OnlyAuthentic` | `Base` |
| `OneKeyAccepts` | `[]SecureAccepts(kinds)` for kinds without TLS | `InOrder` |
| `BackupProofs!PassedIsRight` | `[]PassedWasThere` | `Files`: no two names denote one file; `Verdicts`: what was read of the checksum so far was right byte by byte when it was read, and if nobody wrote since, the file still begins with it |
| `LonePasses` | `[]LoneUploadPasses` | `OnTheWay`: how far an upload has come is a prefix of the local file, and nothing is left over behind it |
| `SongcProofs!CallsReachOwnHolds` | `[]CallsReachOwn` | `Inv`, of which it takes that the AST is a namespace: the ids of services grow by one or two (`ServiceIdsGrow`), so no two are alike |
| `HeaderCompilesHolds` | `[]HeaderCompiles` | `Inv`, for `Resolve(ast)` during the writing: the header is its parts (`HeaderParts`), a part finds what it needs exactly when each of its pieces does, and a type is found exactly when it is supported (`UsesExactly`), which `HeaderExactly` and `SplitExactly` put together |
| `OkMeansCurrentHolds` | `[]OkMeansCurrent` | `Running` and `Done`: the outputs that are no longer on the list are written from the AST, which is that of a saved text |
| `KeepsImplementationHolds` | `KeepsImplementation`, an action property that excepts a write the disk cut short | `Disk`: an implementation file has its methods and its vector of reports, to which a report is appended |
| `FollowedReportHolds` | `[]FollowedReport` | `Obeyed`, below |

### Assumptions

- `ManagerAssumption`, `ObjectServerAssumption` and `ConnectionAssumption` stand in the
  modules themselves, where TLC evaluates them: what the constants are, that checkers and
  transports are finitely many, and that a connection makes fewer requests than
  there are sequence ids (2^32; a connection that makes more reuses ids, which nothing
  in the code prevents).
- `EndIsLast`, for `MismatchHasCause` only: no handler throws after it has
  ended its stream.  One that does gets an error written behind the end, and the next
  request reads it.
- `~Throws`, for `SubscribersStayOpen` and `LastValueIsSeen` only: no exception leaves
  `client_loop`; `objects_leaked` shows what happens otherwise.  `~CrossClient` and one writer, for
  `LastValueIsSeen` only: a client uses the ids that it was given, and no two setters race between
  value and notification.
- `None \notin Descriptors`: the system numbers no file -1.
- `Bounded`: the bound on a client's calls is a number.
- `ProjectsAssumption` and `ParserAssumption`, in `Songc`: there is a text to compile, the
  modes are those of `main`, and the parser puts definitions into the vectors of their
  kind (`ast.hpp` gives it no other), gives structs nothing but fields (`ast.hpp:48-55`), and names
  them by identifiers (`lexer.cpp:225-241`).
- `Sane` of `ResourceProofs`: what is written is bytes, lengths are numbers, no block is
  at null.  `Sane` of `BackupProofs`: files hold bytes, the sizes of chunks and of what is
  read at once are numbers.
  `Sane` of `FramesProofs`: the limit on a payload is a number.

### How the arguments go

The ownership proof goes by what a step does to owners: leave them alone
(`OwnershipKept`), put one object in an entry for another (`OwnershipReplaced`),
empty an entry (`OwnershipCleared`), spawn for a thread or for an entry
(`OwnershipSpawnedLocal`, `OwnershipSpawnedEntry`).  The count of an object is compared with the
finite set of the connections that track it, plus what the service keeps and what was
lost (`Owned`): a release takes one from both sides, a connection that an exception ends
moves its share from one summand to another.  That clients keep to their own keeps objects
alive is split into where a step moves its thread (`Moves`) and what it takes away (`Spares`).
The descriptor proof has one lemma, `PutOwned`: a step that gives an object what it had or
a new descriptor, and opens or closes just that, keeps one owner to each.

The proofs about channels say of every message under way, by its position, what it
tells (`Reports`), what comes before it (`Follows`) and what behind it (`Later`, `Placed`);
a send adds at the end, a receive moves every position by one, a crash keeps a
beginning.  `Taken`, `Added` and `Kept` are the lemmas that say so.

`Frames` has two invariants.  `Base` holds whatever overlaps or tears: every unit on
the stream, in the reader or still to be written is a unit of a frame that was sent
(`Flows`), and only the last unit of a signed frame bears a tag (`SoundIs`).  So a tag
that verifies names its message, whatever the receiver took for the frame
before it (`VerifiedIs`), which is all that `KeysProtect` needs.  `InOrder` holds while one
sender writes at a time: what was read, what is on the stream and what is to be written,
put together (`Ways`), is a stretch of what was sent (`Straight`), it goes to the end of
it (`Complete`), it begins behind all that was accepted (`Ahead`), and right behind it
if no receive gave up (`Gapless`).  A write moves the boundary (`WriteOrder`), a
read takes from the front (`ReadWay`, `LaneEnd`), a frame is added at the end
(`StraightMore`); and what the receiver takes for a frame, if it begins with a header, is
one (`WholeFrame`).

The compiler's invariant says of each file what it is (`Disk`), of a running compiler
that what is off its list is written (`Running`), of one that ended well that everything
is (`Done`).  What `FollowedReport` needs is `Settled`, a part of `Written`: an implementation
has the declarations of its interface, or the last report in it is the comparison of the two.  It
is that after every `WriteFile`, also when the file was there from an older input, and
`Applied` shows that doing what such a report says gives the declarations wanted.  The
comparison of the methods finds nothing then because names are unique on both sides
(`TypesOnce`, `MembersOnce`, from what the resolver refuses), and that of the types exactly
what is documented (`StructsAgree`, `EnumItemsAgree`).  A file that the disk cut
short is the reason that `Written` has an alternative and that the developer waits for
one that is whole.

Some definitions are what they are so that they can be reasoned about: `Buffer!Doubled` is
the set of the capacities that doubling reaches and that are enough but less than twice
that, of which there is one, not a recursion;
`Frames!Accepted` is the set of the indices of what was accepted, not a subsequence;
and a service's id is its place plus the number of services with streams before it, where
the generator counts on.

### Only model-checked

- `MessagesDecode`: `Wire` is codecs over message tables, recursive in their fields, and
  what a recursive definition does to data of any size needs an induction that the
  prover cannot make.
- Of the compiler the lexer and the parser (`LexemesTile`, `ParserExact`), which recur over
  their input; `ResolverExact` and `PythonAgrees`, which compare folds over enum items
  and loops over dimensions; and that the parser does what `ParserAssumption` says, which TLC
  evaluates for every text of the run.
- The liveness properties `CrashRecovered`, `CallReturns` and `CleanedUp`: fairness and
  `ENABLED` are out of its reach too.

## 5. What is not modelled

- The manager's remote and discoverable services beyond their registration, and its
  registry methods, which wrap `RegistryClient`.
- The monitor's `start_monitor` and `stop_monitor`; the callback's own calls of the
  manager, which would wait for `mutex_` for ever.
- Between `Wire` and `Connection` the layers are not composed: `Connection` takes a message
  for a unit that comes whole and in order, which `Frames` shows of one direction of
  one sender.  Capabilities and extensions are only carried.
- Two threads that send on one TCP socket: their frames interleave.  `Frames` has them,
  and `DeliveredInOrder` excepts what they write at once; nothing in the code keeps it from
  happening (`subscription.cpp:85` and a reply).
- A message refused for its size stays in the stream (`transport.cpp:95`), a pipe's
  header may come in two pieces (`transport.cpp:83`), and TLS drops the part of a
  header that came before a timeout.  `Frames` has all three; what is accepted is
  nevertheless a message that was sent, which is what `DeliveredInOrder` says.
- A callback that uses its own connection.
- What a send on a destroyed transport does, beyond "nothing" or "crash" (`SendToFreed`).  Two
  setters on one object in `ObjectServer`: `Connection` has them.
- A service that is killed by the signal of a write to a connection that has ended is a
  `Crash`; `CallReturns` takes its end for an end of the call.
- A `stop` of the manager while a start or a check has the service in flight is excepted by `StopHolds`.
- HMAC, checksums and TLS sessions are ideal.  mDNS is the platform's daemon.
- The compiler's wording and layout; name clashes in what it generates; two properties of
  one name in a class, which neither the resolver nor `ResolverExact` refuses; ids beyond
  16 bits; a request to a derived class through a proxy of its base.  A full disk is a file
  that is `Cut`, at any one write.
- The backup agent's listing and path resolution; `~ObjectRegistry`; logging, whose
  only shared step is atomic; the other demonstrations.

## 6. What comes next, in order

1. The monitor's control: start and stop racing, a stop from the callback, a
   callback that calls the manager.
2. `Connection` over `Frames`: what a torn frame does to a call.
3. Properties for the hazards that have none yet: a stale executable installed
   by `start`, a running process dropped by `CheckRecover`, dangling borrowed
   pointers, a signal to a reused pid, a blocking poll.
