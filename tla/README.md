# Verification of TinyRpc

TinyRpc is a small RPC framework in C++: a caller's stub runs
`MprpcChannel::CallMethod`, which finds the provider's address in ZooKeeper, opens
a TCP connection, sends one protobuf request and reads one response; a provider
publishes its services in ZooKeeper and serves requests from a muduo event loop;
both sides read their configuration from a file and log through an asynchronous
logger. This directory holds TLA+ models of those parts, the TLC configurations
that check them, and TLAPS proofs.

Paths below are relative to the repository; `PROJECT.json` maps every definition
to the lines it models.

## The system

| Component | State | Operations | Talks to |
|---|---|---|---|
| RPC channel (`src/mprpc_channel.cc`) | a socket, the controller's failure, the response object | `CallMethod` | ZkClient (lookup), provider (TCP), controller, logger |
| RPC provider (`src/rpc_provider.cc`) | `m_serviceMap`, one `TcpConnection` and input buffer per caller | `NotifyService`, `Run`, `OnConnection`, `OnMessage`, `SendRpcRespond` | ZkClient (publication), services (closure `done`), callers, logger |
| ZkClient (`src/zookeeper_client.cc`) | a session handle, a semaphore | `Start`, `Create`, `GetData`, `global_watcher` | ZooKeeper server and client thread |
| Logger (`src/logger.cc`) | `m_running`, the log thread's bulk, the day's file | `Log`, `WriteLogTask`, `Shutdown`, `SetOutputCallback` | LockQueue, every thread that logs |
| Daily log file (`src/logger.cc:21-56`) | `m_currentDate`, `m_currentFile` | the default output callback, the closes of `Shutdown` and `~Logger` | log thread, `Shutdown`, the file system |
| LockQueue (`src/include/lockqueue.h`) | a queue, `m_exit` | `Push`, `Pop`, `PopBulk`, `Empty`, `SetExit` | Logger |
| MprpcController (`src/mprpc_controller.cc`) | failed, reason, cancelled, callback | `SetFailed`, `Failed`, `StartCancel`, `NotifyOnCancel`, `Reset` | channel, application |
| MprpcConfig (`src/mprpc_config.cc`) | a map of keys to values | `LoadConfigFile`, `Load`, `Trim` | application |
| MprpcApplication (`src/mprpc_application.cc`) | the configuration | `Init`, `GetInstance`, `GetConfig` | every component |
| RpcHeader (`src/rpc_header.pb.cc`) | generated message | clear, size, serialize, parse, merge | channel, provider |
| Sample messages and services (`example/*.pb.cc`) | generated messages, descriptors | as above; stubs, dispatch, default methods | channel, provider, sample services |
| Sample services and callers (`example/callee`, `example/caller`) | response objects | handlers; calls with and without a controller | generated classes, framework |

What is hard in it:

* **Calls.** Nothing delimits a message on the connection: the provider decodes
  whatever has arrived as a whole request, the caller takes one `recv` for the
  whole response. TCP may split either. `OnMessage` has four early returns that
  neither answer nor close, and an exception in it ends the process. `recv` has no
  time-out. A provider can die at any point of a call.
* **Publication.** `Create` is a check and a create, and processes race. Ephemeral
  nodes outlive their process until the session times out, and a session can time
  out under a running process. Nodes are created before the server listens.
* **Logging.** Three different consumers empty the queue in turn (the log thread's
  loop, its final loop, `Shutdown`), the callback can throw in each, and `Log`
  tests `m_running` before it pushes.
  Its file changes with the day of the *item*, and opens and writes can fail.
* **ZooKeeper start-up.** `Start` waits on a semaphore of its own stack that the
  ZooKeeper library's thread posts through the handle's context, which is set after
  the handle exists and never taken back.
* **Addresses.** The port goes through a text file, `atoi`, 16 bits, decimal text, an
  unterminated buffer and `atoi` again.
* **Cancellation.** `StartCancel` and `NotifyOnCancel` exchange an atomic flag and a
  plain pointer, each loaded more than once.
* **The codec.** Sizes are computed before bytes are written; a caller may hand an old
  response object to a new call; a cut reply may still parse.

What makes each correct:

* call: a service runs at most once; a caller is told of a failure or holds the
  answer; it does not wait for something that cannot come; it closes its socket;
  a failure that says "not sent" is true;
* publication: a provider that serves can be found; an address that is found is
  served or goes away; racing providers do not end each other; an address is not
  overwritten;
* logging: what was pushed is written once and in order, and into the file of its
  own day; `Shutdown` ends and leaves nothing behind;
* start-up and lookup: a file means what its lines say, `Start` returns in a session
  that is connected, and a caller connects to what the provider listens on;
* codec: what the service runs with is what the caller passed, what the caller holds
  is what the service answered, and byte offsets abstract both faithfully;
* controller: a callback is lost, repeated, late or null only where operations meet;
  a failure belongs to the call it is read for.

## Modules

| Module | Models |
|---|---|
| `RpcWire` | the message formats: what one read that is cut anywhere decodes to, on both ends |
| `RpcCall` | concurrent calls end to end: `CallMethod`, the connection, `OnConnection`, `OnMessage`, `SendRpcRespond`, the provider's process (EXTENDS `RpcWire`) |
| `RpcContract` | the abstract specification of a call: at-most-once service, one result |
| `RpcCallInv` | the inductive invariant of `RpcCall` |
| `RpcCallProofs` | the proofs about `RpcCall` |
| `ZkRegistry` | `Run`'s publication loops, `ZkClient::Create`, sessions and restarts of several providers |
| `ZkRegistryInv` | the inductive invariant of `ZkRegistry` |
| `ZkRegistryProofs` | the proofs about `ZkRegistry` |
| `LogPipeline` | `Logger::Log`, `WriteLogTask`, `Shutdown` and `LockQueue` |
| `LogPipelineInv` | the inductive invariant of `LogPipeline` |
| `LogPipelineProofs` | the proofs about `LogPipeline` |
| `LogFile` | the day's file in the default output callback, composed with `LogPipeline` |
| `LogFileProofs` | the proofs about `LogFile`, and that it implements `LogPipeline` |
| `ConfigFile` | `MprpcConfig`: the text of a file to a configuration, and what a file means |
| `ConfigFileProofs` | the proofs about `ConfigFile` |
| `Lookup` | `MprpcApplication::Init`, `ZkClient::Start` and its watcher, the address from the provider's file to the caller's `connect` (EXTENDS `ConfigFile`) |
| `LookupInv` | the inductive invariant of `Lookup` |
| `LookupProofs` | the proofs about `Lookup` |
| `PbSchema` | the classes that protoc generates: fields, kinds, defaults |
| `PbWire` | the codec of those classes: size, serialize, parse, merge (EXTENDS `PbSchema`) |
| `Messages` | the schemas, descriptors and handlers of the framework's and the samples' messages |
| `Marshal` | a call on its bytes, from the stub to the parsed response, with the codec as a parameter (EXTENDS `Messages`) |
| `MarshalCodec` | `Marshal` with the codec of `PbWire` |
| `MarshalInv` | the inductive invariant of `Marshal` |
| `MarshalProofs` | the proofs about `Marshal` |
| `Controller` | one `MprpcController` under two threads, with store buffers |
| `ControllerInv` | the inductive invariant of `Controller` |
| `ControllerProofs` | the proofs about `Controller` |
| `MCRpcCall`, `MCZkRegistry`, `MCLogPipeline`, `MCLogFile`, `MCLookup`, `MCMarshal`, `MCController` | instances for TLC |

How they fit together. `Lookup` ends at the caller's `connect` with an address;
`RpcCall` begins there with any result of the lookup and covers everything after it.
`ZkRegistry` has the many providers and restarts that `Lookup`, with one provider and
one node, leaves out. `RpcCall` treats messages as offsets (`RpcWire`); `Marshal` has
the bytes, and `WireIsOffsets` says that `RpcWire` says the same of them.
`LogFile` takes every step of `LogPipeline` and adds what the callback does.

### RpcCall

Every call has a caller thread and a connection of its own, as `CallMethod` opens
one per call. A caller's action is the code between two blocking operations (`pc`
names the next one); a provider's action is one event-loop callback. All calls
share `provider`, the process: its end closes every connection and every running
service call at once (`ProcessEnds`).

Bytes are offsets. `taken[c]` counts the request bytes `OnMessage` has retrieved,
`Arrivals(c)` is any larger offset at which TCP may have cut (`ReqCuts`) or the end.
A protobuf parse of a truncated message succeeds exactly when the cut is on a field
boundary, so the constants `HeaderFields`, `ArgsFields` and `RspFields` decide it.
`Throws`, `Drops` and `Dispatches` are the three outcomes of `OnMessage`. A read
that starts inside a request takes arbitrary bytes as a header size and is
nondeterministic between the first two; that such bytes form a complete registered
request is left out.

A null controller is `NullController`: `SetFailed` through it ends the caller's
process (undefined behaviour; the build crashes). The ZooKeeper lookup is one step
with any of its results; that a found address is stale shows as a failed connect.
`connect`, `send` and the lookup may fail at any time; `recv` fails on a reset
only: the framework installs no signal handler that would interrupt it. A service
runs its closure inside its method, which may take any time, or, because its process
ends, never; meanwhile the connection's event loop reads nothing (`CanRead`).

`conn` is muduo's connection state while the process lives and what the caller's
socket has received when it does not: an end (`fin`), or a reset when request bytes
were unread. A `send` that follows an end may still succeed, and `recv` may see the
end before the reset that the sent bytes bring about.

### ZkRegistry

A session is named `<<p, n>>`, the n-th start of provider p; a method's node holds
the session that created it, which stands for p's address (the same after a
restart, it comes from the configuration). `Plan[p]` is the order in which `Run`'s
two loops visit services and methods; the assumption on it is the shape of those
loops, a service before its methods. `exists` and `create` are separate steps with
every result of the two requests, including a create that is done but reported
lost. `Faults` names the faults that an instance has: failing requests, kills, and
sessions that time out although their process lives. A process that calls `exit` leaves its session to time out, because its
`ZkClient` is a local of `Run` that `exit` does not destroy. `NotifyService` keeps
the first of two services of one name; `Plan` is what results.

### LogPipeline

One action per critical section of `LockQueue` and per atomic access: `Log` is
`LogEnters` (the test) then `Push`; `WriteLogTask` is the test of `m_running`,
`PopBulk`, one action per callback, and the final `Empty`/`Pop` loop; `Shutdown` is
the compare-exchange, `SetExit`, the join, and its own `PopBulk` loop. A callback
writes its item or throws. After a `std::exception` in the first loop
(`WorkerCatches`) the log thread's bulk is kept, as in the code, and the next `PopBulk`
adds to it; any other exception there, and each one in the final loop, ends the
process (`WorkerTerminates`).

### LogFile

Each step of `LogPipeline` that appends to `written` is one call of the callback;
`LogFile` conjoins to it what happens to `m_currentDate` and `m_currentFile`
(`Output`): the same day's stream takes the line, another day closes it and opens the
new one, an open that fails records the day all the same, a write that fails leaves
the stream bad until it is opened again. `DateOf` is the day an item was logged on,
which need not grow along the queue: `Log` takes the time before it takes the lock.
`Shutdown` closes the file after its drain, `~Logger` (a closer in `Destructors`)
whatever its call of `Shutdown` did. A callback that throws in `LogPipeline` is one
that throws before it touches the file.

### ConfigFile and Lookup

`LoadConfigFile` works on characters: `fgets` cuts a text into pieces of `LineMax`
characters or up to a newline, `Trim` removes spaces only, `insert` keeps the first
value of a key. The pieces and the configuration are folds, over the text's characters
(`Read`) and over the pieces (`Takes`). No text holds a NUL byte. `Means` is the reference: what the lines of the
file say, with nothing of `fgets` in it.

`Lookup` has two processes. `AppInit` is `MprpcApplication::Init`; `StartBegins`,
`SetsContext`, `Waits` and `StartEnds` are the four points of `ZkClient::Start` between
which the library's thread can run the watcher (`Connects`, `LinkLost`,
`SessionExpires`). The handle's context is null, the semaphore, or the place where it
was; a post to the last is recorded (`stray`) and may crash the process, and what else
it may corrupt is not followed. `Publishes` formats the address and `LookupSucceeds`
reads it back: `garbage` is what stands behind the node's data in `GetData`'s buffer.
A caller makes a `ZkClient` for each call and closes it when the call returns; a lookup
may fail with a node and a connection too (`LookupFails`).

### PbSchema, PbWire, Messages, Marshal and MarshalCodec

Every generated class is the same code over another list of fields, so a class is a
schema (`PbSchema`, which also has its cleared state) and `PbWire`'s operators are the
other members of every class: size, serialize, parse, merge, with presence of
sub-messages and unknown fields. They are mapped to the members of `RpcHeader`; a
sample class's members from `Clear` to `MergeImpl` are those operators applied to its
schema, to which they are mapped. A default value is not
written; a negative `int32` takes ten bytes. `Messages` lists the nine classes, the two
services with their methods' indices, and the samples' handlers. `Marshal` runs
`NotifyService` in any order, then calls one after another: stub, framing (`Framed`),
`OnMessage` (`Decode`, with the exceptions of `memcpy`'s and `substr`'s ranges), the
dispatch with protoc's default for a method nobody overrides, and the parse of any
prefix of the reply into the response object of an earlier call.

What `Marshal` needs of the codec it takes as the constants `SerializeToString`,
`FieldEndsOf`, `InternalParse` and `MergeFrom`, so that the call can be proved about for
any codec; the run gives them the operators of `PbWire`. `ParseFromString` is the same
for all classes, a `Clear` and then the class's `_InternalParse`. `MarshalCodec` states
what is about the codec alone.

### Controller

An action is one load or store of the shared fields. `m_canceled` is atomic, the
callback pointer is not: it waits in the storing thread's buffer (`Drains`), a store to
the atomic needs an empty buffer, a load does not, and a thread sees its own stores
(`Sees`). `if (m_cancelCallback) m_cancelCallback->Run()` is two loads, as in a build
without optimization. `races` records which kinds of operation were under way at once,
so that a property can say where a fault needs them to meet.

## What is checked

All runs end within a minute. Deadlock checking is off in all of them: calls end, or
wait for ever as the code has it; loggers and providers stop.

| Run | Configuration | Properties |
|---|---|---|
| `call_whole` | three calls, one with a null controller and one of an unknown method; requests in one piece, no arguments, so that `args_size` is not written either; short response | `TypeOK`, `WholeRequests`, `RetrySafe` |
| `call_split` | two calls; requests cut at seven places inside and between fields; a 1100-byte response with a field ending at byte 1024; fair | `IInv`, `HandlerAtMostOnce`, `LeakOnlyOnLookup`, `AcceptedReply`, `StuckOnlyIfDropped`, refinement `AtMostOnceCalls`, `ReturnsOrDropped` |
| `zk_registry` | two providers with orders user/friend and friend/user, two starts each, kills, time-outs, failing requests; fair | `TypeOK`, `RegistryInv`, `MissingOnlyIfPassed`, `SomeoneSurvives`, `ExitMeansRace`, `AdvertsSettle`, `AddressStays` |
| `log_file` | two producers of two items of two days, bulks of two, `Shutdown` and `~Logger`, one exception, one day that fails; fair | `LogInv`, `Conserved`, `DuplicatesNeedThrows`, `SkippedOnlyAtExit`, `PopFindsItem`, `FlushedOnShutdown`, `FilesAreWritten`, `OnDiskAtShutdown`, `ShutdownReturns`, `EventuallyWritten` |
| `marshal` | two calls; two objects of one service, one of them without `Register`; a stub with a method no provider has; replies cut at every byte | `RequestArrives`, `ResponseIsPart`, `SizesAgree`, `WireIsOffsets`, `AbortsOnlyUnimplemented` |
| `lookup` | six command lines, some 300 files, two calls, one lost connection to ZooKeeper; fair | `ConfigAgrees`, `AddressArrives`, `StartMeansConnected`, `StartReturns` |
| `controller` | a user thread that may cancel and a canceling thread, four operations each, two callbacks | `LostNeedsRace`, `TwiceNeedsRace`, `ResetIsClean`, `FailedIsThisCall` |

`SomeoneSurvives` and `ExitMeansRace` speak of behaviours in which nothing has failed
(`calm`), which the failing instance contains. What the runs show, beyond that the
properties hold: the conditions in them are needed. A callback is lost, or runs
twice, when `StartCancel` and `NotifyOnCancel` meet; a null callback is called when
`StartCancel` meets `Reset`; a stray post needs a second connection; a line is missing
from a file when the day's open or a write failed, and a file may be closed under
`Shutdown` when `~Logger` runs meanwhile; a long comment becomes a setting.

Runs that show a disagreement between the code and what is said of it:

| Run | Property | What happens |
|---|---|---|
| `ok_means_answered` | a call without a failure was answered (`example/caller/callfriendservice.cc:22`) | the provider dies behind an accepted connection, `recv` returns 0, zero bytes parse, the caller reads an empty response as success |
| `failure_reported` | a failing call returns with its reason (`src/include/mprpc_controller.h:22`) | the sample caller passes a null controller and the call ends its process |
| `log_shutdown` | `Shutdown` makes sure all messages are written (`src/include/logger.h:43`) | a message whose `Log` tested `m_running` earlier is pushed after the last drain |
| `zk_published` | a served service is published (`src/include/rpc_provider.h:17`) | a provider restarted within its session time-out leaves its own stale nodes alone and vanishes with them |
| `get_data` | `GetData` gets the node's value (`src/include/zookeeper_client.h:17`) | the buffer is not initialized and `zoo_get` writes no zero byte: what stands behind the data is returned too |

### Bounds

* Calls interact through the provider's process only, so that two calls show a victim
  and a cause, and three add the unknown method and the null controller. The cuts put
  one in each part of a request and on each kind of boundary, and let one request be
  decoded several times.
* Two restarts (`MaxStarts`) give a stale node and a new one. Two providers race in
  both orders; for cycles of more, `SomeoneSurvives` is proved for any number.
* `BulkMax` = 2 with up to four items fills bulks, leaves a rest, and lets a kept bulk
  meet new items; two closers cover the early return of the second `Shutdown`. Days
  come in the orders 1 2, 1 2 1 and 1 2 1 1, the last two of which go back.
* The run `ok_means_answered` has a response that fits in one `recv` and is not split, so
  that an answered call satisfies its property; `zk_published` has kills and no other
  fault (failed checks and sessions that time out under a running provider violate
  `ServingIsPublished` too).
* `LineMax` is 8 for 511 and keys are one letter for `rpcserverip` and
  `rpcserverport`, so that one of the lines is longer than `fgets` takes; the lines
  hold spaces around and inside a value, a carriage return, a comment, no `=`, no newline, an empty value, ports
  above 65535 and below 0. Files have up to two of them, three with an address in front.
* Service and method names are one byte; texts are empty, one byte, or 130 bytes, which
  makes a length, and the length around it, take two bytes.
* `MaxOps` = 4 lets a thread register, be canceled, reset and register again.
* `MaxLogs`, `MaxThrows`, `MaxErrors` (days on which opens or writes fail), `MaxStarts`,
  `MaxCalls`, `MaxLosses` and `MaxOps` appear in guards only, as caps on events that the
  code does not limit.

### Fairness

`RpcCall`: weak fairness of a caller that has an address, of `OnMessage` (the event
loop delivers what has arrived) and of the closure (services run it: both samples do
so before they return). The lookup is not fair, as `ZkClient::Start` waits without
a time-out, and no provider is forced to start. `ZkRegistry`: the ZooKeeper server
answers a registering process, or its client library reports the expired session
(`Answers`), and the server times out the sessions of dead processes; no other failure
is forced, so that nothing progresses because of a fault. `LogFile`
(`FileFairSpec`, that of `LogPipeline` while the process runs): each thread runs, and
nothing makes a producer log or a closer close; a mutex and a stream do not block for
ever. `Lookup`: each thread inside `Start` runs and the ZooKeeper server can be reached;
no call need be made and no connection need be lost. `Marshal` and `Controller` have
safety properties only.

## What is proved

### The calls

`RpcCallProofs` proves, for every set of calls, null controllers and services, every
message size and field layout, and every set of places at which TCP may cut:

* `TypeCorrect`: `Spec => []TypeOK`.
* `Invariance`: `Spec => []IInv`.
* `AtMostOnce`, `LeaksOnlyOnLookup`, `StuckOnlyAfterDrop`, `WholeRequestsSafe`,
  `AcceptedReplies`, `RetryIsSafe`: the safety properties of the runs.
* `ImplementsContract`: `Spec => AtMostOnceCalls`, the refinement of `RpcContract`.

The only assumptions are `WireAssumption` (sizes are numbers, the ends of a message
are field boundaries, cuts are inside messages) and `CallAssumption`.

The argument. None of the properties is inductive. `HandlerAtMostOnce` needs that a
request is decoded from its first byte once, that is, that something retrieved
(`taken` # 0) and a connected socket rule out an undecoded request; `AcceptedReply`
and `RetrySafe` need that what a caller was told stays true after it left, so that
nothing can run for a call that is over. `IInv` (`RpcCallInv`) says this of one call
in five parts: caller, connection, request, requests in one piece, outcome. A step
of one call leaves the invariant of the others alone (`Bystander`), keeps its own
(`CallerKeeps`, `ConnectionKeeps`), and the end of the process keeps it for all
(`ProcessEndKeeps`), because connections and service calls end together; with
requests in one piece no exception ends it (`ThrowsOnlySplit`). For the refinement,
the step in which `CallMethod` ends is `Return`, `OnMessageDispatches` is `Serve`,
and every other step stutters.

### Publication

`ZkRegistryProofs` proves, for every set of providers, services and methods, every
plan that `RegistryAssumption` allows (a service comes before its methods), any bound
on restarts, with and without failures:

* `RegistryTypes`, `RegistryInvariance`: `Spec => []TypeOK`, `Spec => []RegistryInv`.
* `NothingMissed`, `OneSurvives`: the invariants of the runs, where TLC has two
  providers and two starts.
* `ExitsAreRaces`, `AddressesStay`: their action properties.

The argument. `RegistryInv` (`ZkRegistryInv`) says what holds of the paths *behind* a
provider: each method there is its own node, was passed over, or went with its session
(`VisitedInv`); without failures each service node is there (`CalmInv`), which is why
a refused create means a race. That everybody might lose a race is ruled out by
`SurvivorInv`: a process is *threatened* when another has made the node it is about to
create; whoever made it has just finished a create and is not threatened itself, so as
long as somebody is threatened or has exited, somebody runs who is not. Other
processes disturb none of this because they make absent nodes only (`RegistersFrame`,
`RegistersBystander`), and the server removes the nodes of one session only
(`ExpiresKeeps`).

### Logging

`LogPipelineProofs` proves, for any producers, any threads that shut the logger down,
any size of a bulk, any number of messages and of exceptions:

* `TypeCorrect`, `LogInvariance`: `Spec => []TypeOK`, `Spec => []LogInv`.
* `NothingLost`, `RepeatsNeedThrows`, `SkippedAtExit`, `NeverPopsEmpty`,
  `ShutdownFlushes`: every invariant of the run, `Conserved`, `DuplicatesNeedThrows`,
  `SkippedOnlyAtExit`, `PopFindsItem` and `FlushedOnShutdown`.

The argument. At any time one consumer takes from the queue: the log thread until it
has ended, then the thread that won `Shutdown` (`WinnerInv`, `OneConsumer`). So what is
not yet taken over for good is one piece at the end of `pushed`: `Pop`'s item,
`Shutdown`'s bulk, the queue (`BacklogInv`). The log thread's bulk is a segment of the
older items. In the loop it ends where that piece begins; an exception leaves it
standing, and when the loop then ends it stays behind (`BulkInv`). `TimesInv` counts
how often an item has been written, which needs that no two items are equal
(`PushedInv`); `NoSkipInv` says that nothing is passed over before `Shutdown` ends the loop;
`CalmInv` that without exceptions `written` is the beginning of `pushed`.

`LogFileProofs` proves for any days, any assignment of days to items, any
failures and any destructors:

* `FileImplementsPipeline`: `FileSpec => Spec`. The logger with its file is the
  pipeline, so `LogInv` holds of it too (`FileKeepsLogInv`).
* `FilesInOrder`, `OnDisk`: `FilesAreWritten` and `OnDiskAtShutdown`, from `FileInvariance`.

A step of the pipeline writes one item or none (`StepWrites`). An item goes to the end of
its own day's file, or its day is one of those that failed (`OutputKeeps`). What
`OnDiskAtShutdown` adds comes from the pipeline: at the close `written` is
the beginning of `pushed` and longer than the cutoff.

### The controller

`ControllerProofs` proves, for any number of canceling threads, any callbacks and any
number of operations:

* `ControllerInvariance`: `Spec => []ControllerInvariant`.
* `CancelIsNoticed`, `RunsArePaidFor`, `ResetForgets`, `FailedTellsOfTheCall`: all four
  invariants of the run, `LostNeedsRace`, `TwiceNeedsRace`, `ResetIsClean` and
  `FailedIsThisCall`.

The assumption is that one thread uses the controller, as `SetFailed` and
`Reset` write a `std::string` without a lock.

The argument. Only the user stores to the pointer, so what another thread sees
is what the user saw some stores ago: behind each retired callback in memory or in
the user's buffer comes a null (`StoresInv`). While no `StartCancel` has met a `Reset`,
no canceling thread finds a pointer that is being cleared (`ResetInv`). `CountInv`
makes cancels pay for runs: the runs of a callback, and the threads that are about to
run one, are no more than the cancels, but for the one run its own `NotifyOnCancel`
makes; while the two have not met there is no such exception, and the callback of a
canceled controller has run or somebody is about to run it (`MeetInv`).

### Start-up and lookup

`ConfigFileProofs` proves, for any characters and any `LineMax`:

* `LoadsWhatItMeans`: a text none of whose lines is longer than `LineMax` is loaded as
  what its lines mean.

`LookupProofs` proves, for any files, command lines, rest of `GetData`'s buffer, number
of calls and of lost connections:

* `LookupInvariance`: `Spec => []LookupInvariant`.
* `ConfigIsItsFile`: `ConfigAgrees`.
* `StartReturnsConnected`: `StartMeansConnected`.
* `CallerFindsProvider`: `AddressArrives`.

The only assumptions are `LineAssumption` (`fgets` takes at least one character) and
`LookupAssumption` (sets of texts, over characters among which are the digits and `:`).

The argument for the configuration. Both folds run through their sequences one element
at a time (`FoldRuns`, from `FoldExists`); the induction is over a set of numbers
(`Upward`), as the library's theorems on induction take an operator. So the pieces cut
the text where a piece is complete (`PiecesAreCut`). In a text without a long line, a
piece begins where a line does, or is the lone newline behind a line of just `LineMax`
characters, which says nothing (`PieceIsLine`). A piece says what its line says, although
`Trim` works on the whole piece and leaves blanks alone (`PieceSays`); each setting begins
a piece (`SettingStartsPiece`), and inserting piece after piece keeps the first of
each key (`ConfigIsFirsts`).

The argument for the address. A handle's context is null until its semaphore is there and
empty, so the posts `Start` finds come from this handle's own connections
(`SemaphoreInv`). A process that runs has loaded one of its files (`ConfigInv`). The node
holds the text of the address that `Run` read, which no later step changes (`NodeInv`),
and the caller splits that text with something behind it (`DestInv`). What is left
concerns texts only: a text without a colon, a colon, digits and something that does not
begin with a digit are cut apart where they were joined (`CutsApart`), and the digits of
a port are read as that port (`PortIsReadBack`), because `atoi` runs through the digits
as `sprintf` made them, the last one last (`NumberOfDecimal`).

### What a call carries

`MarshalProofs` proves, for any service objects in any order of `NotifyService`, any
stubs, any messages and any number of calls:

* `MarshalInvariance`: `Spec => []MarshalInvariant`.
* `RequestsArrive`: `RequestArrives`.
* `AbortsAreUnimplemented`: `AbortsOnlyUnimplemented`.
* `ResponsesAreParts`: `ResponseIsPart`.
* `OffsetsAreBytes`: `WireIsOffsets`. The offsets of `RpcWire` are an abstraction of the
  bytes, for reads that stop anywhere.
* `BytesFitOffsets`: the sizes and field ends of the bytes of an answered call satisfy
  `WireAssumption`, on which the proofs about `RpcCall` rest.

Two assumptions are needed beside the sets and numbers of `MarshalAssumption`.
`DescriptorAssumption`: a stub and the services of its name come from one `.proto`, so a
method of one name has one index, one input and one output type; a stub may still have
methods that a service does not, and the other way round. `CodecAssumption`: each request,
each header in front of one and each response is parsed back from the bytes that it was
serialized to; a part of those bytes parses just where it ends with a field; the two
parts of a response cut there merge into it; and a header is not empty. TLC evaluates both
in the run, the second on the real codec, for every message there and every place
to cut it: it is the round trip of a recursive codec, an induction over data.

The argument. The map knows each name by the first object that was notified under it
(`MapInv`), and while a call is under way its frame is what is on the wire (`CallInv`).
The four bytes of the size are read back as that size (`FixedIsReadBack`), so the two
substrings cut the frame where it was joined (`CutsApart`), and neither of them
throws; the header's `args_size` is the length of what follows. So `Decode` finds the
method of the stub's name on the first object, or drops (`CallIsDecoded`), and an abort
is left to protoc's default method. Of a part of the frame the substrings are parts of
the header and of the arguments (`CutsApartWhenCut`): the read is thrown on, dropped or
dispatched as its end lies before the size, in the header, at its end, or in the arguments,
and there on a field's end or not (`CutIsDecoded`), which are the cases of `RpcWire`. The
reply is the whole of the service's answer (`ReplyInv`), and what the caller holds after
a parse is what the first `got` bytes of it parse to, because `ParseFromString` clears the
object of an earlier call first (`ReturnedInv`).

### Model-checked only

* The liveness properties (`ReturnsOrDropped`, `AdvertsSettle`, `ShutdownReturns`,
  `EventuallyWritten`, `StartReturns`), which are out of the prover's reach.
* `SizesAgree`, which is about the codec alone: it is recursive over messages and bytes,
  and the prover can neither expand it nor do the induction.

## What is not modelled

* `SetOutputCallback` while the log thread runs: a data race on a `std::function`
  (`src/logger.cc:77`), whose outcomes are not those of any order of steps. The level
  filter, the format of a line and the cut of a message at 2048 bytes leave no trace in
  the pipeline. Use of the logger after `~Logger` has destroyed its members.
* Contents of fields, formatting and log texts; the muduo, protobuf, ZooKeeper and
  TCP implementations, which are modelled by what this code sees of them.
* Of the generated classes: arenas, reflection, swaps, and the wire types that no field
  here uses. A `uint32` of 2^31 or more is not enumerated (TLC's integers end there).
* Fixed buffers (`sprintf` into 128 bytes for an address, 64 bytes for a node's
  data) are taken to be long enough.
* A closure that a service keeps and runs after its method returned: it holds a reference
  to a `TcpConnectionPtr` of `OnMessage` that is gone by then (`src/rpc_provider.cc:216`).
* A NUL byte in a configuration file, which ends the string made of `fgets`' buffer, and
  numbers of 2^63 and more in `atoi`.
* What a post to a semaphore that no longer exists does to the stack, beyond the crash it
  may cause.
* Memory: requests and responses that the provider never frees.
* Weak memory outside `Controller`. The logger's flags are sequentially consistent
  atomics and its queue is locked.
* The copies of headers under `lib/`, which `autobuild.sh` overwrites from
  `src/include` and some of which are older; and the tests, manual drivers one of which
  (`test/testlog.cpp`) registers a callback of the older signature.
* The samples' `main` functions and what they print.

## Plan

The calls with their contract, publication, the log pipeline with its file, start-up
and lookup, a call on its bytes and the controller are modelled, checked and proved.
Every invariant of a passing run is proved but `SizesAgree`. What no property covers:

* outcomes that no order of steps explains: `SetOutputCallback` on a running logger, a
  closure run late, and what a stray post does to the stack. The watcher posts a null
  semaphore when the session is connected before `zoo_set_context`
  (`src/zookeeper_client.cc:57-68`), and a stray one when it is connected again later;
* an exception in the logger's final loop, a second `Shutdown` that returns while the
  first still drains (`src/logger.cc:166`, where `~Logger` says that it makes sure the
  thread has stopped), and lines longer than 511 characters (`src/mprpc_config.cc:23`,
  although comments are said to be ignored). The models have these steps, and the
  properties name them as their conditions.
