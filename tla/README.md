# rmongo in TLA+

rmongo is a MongoDB driver for R. Its own code is small: `src/mongoR.cc` (C entry points
called by `.Call`) and `bin/mongo.R`. All it does, it does through the MongoDB C++ client
library that the repository carries under `src/mongo-cxx-driver/mongo`, and what R sees when
a socket breaks is decided there. This project models the binding together with the part of
the client library it runs on (the connection, its message port and the cursor) and the
library's other concurrent parts: connection pool, replica-set monitor, distributed lock,
thread pool, task server and file allocator.

Paths below are relative to the repository; `client/`, `util/` and `db/` are directories of
`src/mongo-cxx-driver/mongo`.

## Inventory

| Part | State | Operations | Hard behaviour |
|---|---|---|---|
| R binding (`src/mongoR.cc`, `bin/mongo.R`) | the handle, `std::cout`'s buffer, the strings of a result | `mongo.open`, `close`, `query`, `insert`; an `authenticate` stub | exceptions outside a `try`, `error()` as a longjmp, R's collector, `exit()` |
| `DBClientConnection` (`client/dbclient.*`) | `failed`, `lastReconnectTry`, `authCache`, the port | `query`, exhaust `query`, `insert`/`update`/`remove`, `call`, `say`, `sayPiggyBack`, `checkConnection` | reconnect and re-authentication, replies that arrive late |
| `MessagingPort` (`util/message.*`) | the socket, the piggy-back buffer, `NextMsgId` | `send`, `say`, `recv`, `call`, `piggyBack`, destructor | partial sends, interrupted receives, a buffer that survives a failed flush |
| `DBClientCursor` (`client/dbclientcursor.*`) | the batch (`nReturned`, `pos`, `data`), what is left of the limit, `cursorId`, `_putBack`, `_client` | `init`, `more`, `requestMore`, `dataReceived`, `next`, `putBack`, `attach`, `decouple`, destructor | exceptions between two assignments, cursors the server forgot, a dangling `_client` |
| `LastError` (`db/lasterror.cpp`) | the error of the last write | `appendSelf` | an error without a code |
| Connection pool (`client/connpool.*`) | a stack of idle connections per host, `_mutex` | `get`, `release`, `flush`; `ScopedDbConnection` `done`, `kill` | threads, stale connections, network calls under the mutex |
| `BackgroundJob`, `ConnectBG` (`util/background.*`, `util/message.cpp`) | the job's state, a descriptor number | `go`, `wait` with a time-out, `MessagingPort::connect` | a late background thread, reused descriptors |
| `DistributedLock` (`client/distlock.*`) | a lock document, pings | `lock_try`, `unlock`, pinger | takeover races, partial writes, clock skew, crashes |
| `SyncClusterConnection` | three connections, `_lastErrors` | `prepare`, writes to all, `_checkLast` | one write of several failing |
| `ReplicaSetMonitor`, `DBClientReplicaSet` (`client/dbclient_rs.*`) | the node list, `_master` | `getMaster`, `getSlave`, `check`, `notifyFailure` | unlocked reads, failover |
| `ThreadPool`, `MVar` (`util/concurrency/thread_pool.*`, `mvar.h`) | free workers, the queue, `_tasksRemaining` | `schedule`, `join`, `task_done`, destructor | wake-ups, blocking under the mutex |
| `task::Server` (`util/concurrency/task.*`, `msg.h`) | the deque, `rq`, a `Ret` per call | `send`, `call`, `doWork`, `requeue` | signals without the mutex, a `Ret` that is gone |
| `FileAllocator` (`util/file_allocator.*`) | `_pending`, `_pendingSize`, `_failed` | `requestAllocation`, `allocateAsap`, `waitUntilFinished`, `run` | a list reordered under the thread that works on its front |
| Codecs (`db/json.cpp`, `bson/`), GridFS, `Model`, `Listener`, shard connections | | | not concurrent, server side, or pure formatting |

The binding calls the connection and the cursor directly, on R's only thread. The connection
owns one port at a time and replaces it on a reconnect. The cursor uses the connection through
`call` and `sayPiggyBack`, and so bypasses `checkConnection`. The pool makes connections and
hands them to threads; the lock takes its `SyncClusterConnection` from the pool, the monitor
has connections of its own. Thread pool, task server and file allocator stand by themselves.
Server, network and kernel are outside.

What makes each part correct: a request reads its own reply or an exception, never another
request's reply; a write happens at most once and in order; a failed connection is repaired by
a reconnect and nothing else; a query hands out each document once, all of them up to the
limit; R is told about an insert what really happened; a pooled connection and a descriptor
have one owner; a lock has one holder; the monitor ends up with the primary; every task and
message runs once, and every wait ends.

`PROJECT.json` lists the hazards, line by line, with the properties that would catch them.

## Modules

**DBClientConnection** — one client thread, one connection with its ports, the server and the
network. Ports are numbered; `gen` is the current one. `up[g]` and `down[g]` are the two
directions of port g's socket, `sock[g]` its state (`reset`: the peer is gone; `closed`:
`sock == -1`). A message is its kind and its id, a reply the id it answers.

- `send` is `MessagingPort::send`: all of the data or an exception, possibly with part of it
  out. `say` is `MessagingPort::say` with its two ways of treating the piggy-back buffer,
  `flush` and `SayPiggyBack` are `PiggyBackData`. Whether a message fits the 1300-byte buffer
  is a count (`PiggyMax`) and, since sizes differ, a choice.
- `CallSend` with `RecvReply`, `RecvWrongId` or `RecvFails` is `DBClientConnection::call`, cut
  where it waits. `Insert` stands for `insert`, `update` and `remove`, `Query` for `query`,
  with the op `"exhaust"` for the callback version, `GetMore` for `requestMore`, `Kill` for the
  cursor's destructor, `Delete` for `delete conn`.
- `ExhaustRecv`, `ExhaustThrows` and `ExhaustLastThrows` are the loop of the exhaust query and its
  handler. After the handler has shut the socket down, the cursor's destructor still puts its
  killCursors message into the closed port's buffer.
- `CheckThrows`, `ReconnectFails`, `ReconnectWorks`, `AuthSend`, `AuthDone`, `AuthThrows` are
  `_checkConnection`; a user's `auth` call is not modelled, only the cached credentials
  (`AuthEntries`) it leaves.
- `Serve`, `BlastReply`, `Reset` and `Tick` are the server, the network and the clock.

**ResultStream** — the abstract specification of a query: documents once, in order, without a
gap; the end announced only when the caller has all it asked for; after a failure only the
order is promised.

**DBClientCursor** — one cursor and its counterpart on the server. Variables have the names of
the members; `data` is the number of documents before the data pointer, `srvAt` how far the
server is. `more()` is four actions: `MoreLocal` (answered from the batch), and `RequestMore`
with `MoreReceived`, `MoreFails` (the call threw, before or after the server saw it) or
`MoreNotFound`. From the connection it uses only what DBClientConnection shows: own reply or
exception. `Stream` is the refinement mapping to ResultStream.

**MongoR** — the binding, composed with DBClientConnection: every C++ call of `mongoR.cc` takes
the connection's own action (`QueryCall` takes `Query`, `InsertCall` takes `Insert`, `Unwind`
takes `Kill`, `mongoRdisconnect` takes `Delete`) and adds what happens to R: the handle,
`std::cout`, the result. An exception inside the `try` of `mongoRquery` comes from the connection
(`QueryLost`, `QueryNotFound`) or from a document that cannot be printed (`DocumentThrows`), and
then the connection is healthy and the cursor may be open; `rpc = "end"` is the end of the loop
after an empty batch, with the cursor possibly open as well. In both cases the killCursors message
is buffered, and the history variable `joined` has the inserts that were sent together with
buffered messages. The connection is made with the constructor's defaults, so it has no
auto-reconnect and one port. `silent` are the inserts the server refused with an error that has
no code.

**ConnectBG** — `MessagingPort::connect` of several threads. The kernel's table of descriptors
(`fdTable`: the lowest free number is given out) stands between the calling thread, which closes
its socket when it gives up, and the background thread, which knows the socket by its number.
`ConnectWorks`, `ConnectRefused`, `ConnectTimesOut` and `LateEnds` are the returns of the two
`wait` calls; `JobStarts` to `JobEnds` are `jobBody` around `ConnectBG::run`.

**ConnPool** — extends ConnectBG with the pool: `Get` is `_get` under `_mutex`, `Connect`,
`Connected`, `GiveUp`, `NotConnected` and `FinishCreate` make a new connection, `UseFails` and
`Reconnect` happen to one that is in use, `Done` and `Kill` give it back, and the `Flush…`
actions are `flush`, which holds `_mutex` (the variable `mutex`) while it talks to the network.

**SyncCluster** — writes to every config server in turn, cut at each server; `count` is what
`getlasterror` reports as `n`. `WriteBreaks` is a send that throws, `WriteLost` one that is lost
without notice: the later servers are written to, and only `_checkLast` finds out. **DistLock** extends it with the lock: `TryRead`, `LookAtPing`,
`Acquire` are `lock_try` up to its update, `Compare` and `Decide` its catch block for
`UpdateNotTheSame`, `Unlock` with `Thrown` the attempts of `unlock`, `Ping` the pinger, and
`Crash` the death of a process. `robbed` remembers that a write by another process, without a
condition, changed a lock somebody held or was about to hold.

**ReplicaSet** — the monitor shared by client threads and the watcher, and each client's
`DBClientReplicaSet`. `_lock` covers single steps; `_checkConnectionLock` is `checkLock`.
`CheckConnection`, `CheckHosts`, `Checked` are `_checkConnection`, `Scan`, `NextNode`,
`SetMaster` the loops of `_check`, `Check` and `CheckMaster` the two reads of `check()`,
`GetMaster`, `AssertMaster`, `ReadMaster` the three of `getMaster`. Indices are one higher than
in the code. The quick check of `_check` (lines 353-368) is dead code, because the `maybePrimary`
that `_checkConnection` fills is a local variable that shadows its parameter (line 310), and has
no action.

**ThreadPool** — callers, workers with their MVars, and the destructor. `blocked` records a
failed assert or a `put` on a full MVar.

**TaskServer** — callers and the server's thread; `frames` are the calls whose `Ret` still
exists, `touched` that one was used when it did not. `CallChecks` and `CallWaits` are the test
of `done` and the wait, between which `SetDone` and `NotifyCaller` may happen, because `Ret::f`
does not take the mutex.

**FileAllocator** — a caller and the allocating thread, one step for each hold of
`_pendingMutex`; `disk` has the files.

**CursorProofs, ConnectionProofs, PoolProofs, DistLockProofs, ReplicaSetProofs, ThreadPoolProofs,
TaskServerProofs, FileAllocatorProofs** — the proofs about DBClientCursor, DBClientConnection
(and MongoR, which runs on it), ConnPool (with ConnectBG), DistLock (with SyncCluster), ReplicaSet,
ThreadPool, TaskServer and FileAllocator.

**MCConnection, MCCursor, MCMongoR, MCPool, MCLock, MCReplicaSet, MCThreadPool, MCTaskServer,
MCFileAllocator** — the modules TLC runs; the `.cfg` files give the constants. MCCursor adds one
variable: the caller is any caller, or the loop `while (more()) next()`.

Definitions whose comment begins with "Mutant of" are not part of a specification: each is a
plausible bug in the definition it names and must break the property `PROJECT.json` pairs it with.

## Runs

| Run | Checks | Bounds |
|---|---|---|
| `connection` | `TypeOK`, `NoStrayReply`, `OnceInOrder`, `AuthPresented`, `HealedByReconnect`, `CallReturns` | 3 ports, 4 messages, 1 credential, 2 messages in the buffer, 1 extra exhaust reply, 3 seconds (967,000 states) |
| `cursor` | `TypeOK`, `LimitHeld`, `DanglingUnused`, `NoLeakedCursor`, `KeepsPromise`, `LoopEnds` | 4 documents, limits 0–3, batch sizes 0, 1, 3, default batch 2 (349,000 states) |
| `binding` | `SessionInv`, `OneMeansStored`, `ZeroUntilClose`, `RCallReturns` | 5 messages, 2 documents in a batch (23,000 states) |
| `conn_pool` | `PoolInv`, `PooledUsable`, `DescriptorInv`, `InScope`, `ConnectReturns` | 2 threads, 2 hosts, 2 descriptors, 3 sockets, 2 connections, 1 hour (668,000 states) |
| `dist_lock` | `LockInv`, `OneHolder`, `Released` | 2 processes, 2 servers, 2 faults, 2 OIDs, 1 minute, one clock a minute ahead of the other, 2 attempts to unlock (2,034,308 states) |
| `replica_set` | `NodesInv`, `FindsPrimary`, `SlavesRecover` | 2 members, 1 seed, 1 client and the watcher, 2 changes of the set (371,000 states) |
| `thread_pool` | `Accounted`, `NoIdleWorker`, `NeverBlocks`, `JoinMeansDone`, `JoinReturns` | 3 workers, 2 callers, 5 tasks (147,594 states) |
| `task_server` | `QueueInv`, `CallMeansRun`, `SentRuns`, `CallComesBack` | 2 callers, 3 messages, 2 requeues (1,440,000 states) |
| `file_allocator` | `ListInv`, `AsapMeansAllocated`, `FirstSizeUsed`, `CallsReturn` | 3 names, 2 sizes (10,000 states) |

Three more runs, `wrong_id`, `get_master` and `first_node`, show disagreements (below).

What they show:

- *NoStrayReply*: a connection that is not failed owes the thread nothing but the reply it is
  waiting for. Every path that leaves a reply behind — an interrupted `recv`, a throwing
  exhaust callback — marks the connection failed.
- *OnceInOrder*: although `flush` keeps its buffer when it fails, and the destructor flushes it
  again, the server handles a write or a request at most once and in the order of its ids. (A
  kill may be handled twice, which is harmless; it is excluded.) The exception was found by the
  proof: two requests that both *threw* on one port (the history variable `thrown`) may stay in the
  buffer together, go out in part with a cursor's `getMore`, and go out again, in full, with
  `~MessagingPort`. It takes three messages in the buffer, more than the run has.
- *AuthPresented*: after a reconnect, an insert, a query or an exhaust query is sent only when the
  cached credentials have been presented on the new port. There are two holes, both visible in the
  model: an `auth` that throws on the contents of a reply leaves with `failed` already false
  (`client/dbclient.cpp:595-600`), and `requestMore` does not come through `checkConnection`.
- *HealedByReconnect*: `failed` is cleared only together with a new, open port, and two attempts
  to reconnect are at least two seconds apart.
- *KeepsPromise*: DBClientCursor implements ResultStream.
- *LimitHeld*, *DanglingUnused*, *NoLeakedCursor*: the limit holds after exceptions too; the
  pointer that a failed `getMore` leaves in an attached cursor is not followed; a server cursor
  that is still owned is asked to close.
- *OneMeansStored*, *ZeroUntilClose*: 1 from `mongo.insert` means the server stored the document,
  or refused it with an error that has no code (`mongoR.cc:137` reads only the code); 0 means that
  it does not store it as long as the handle is open, and after `mongo.close` only if the insert
  had joined buffered killCursors messages. That does happen (see *What the exceptions hide*).
- *SessionInv*: `std::cout` has its own buffer whenever R runs, unless `error()` jumped.
- *PoolInv*: a connection is in one stack, with one thread or in the vector of a flush, except
  those a flush dropped because `isMaster` threw: nobody deletes them (`client/connpool.cpp:58-66`).
- *DescriptorInv*: an open descriptor has one owner, and a healthy connection talks to its own
  host. The hole: a background thread that only gets to run after its caller gave up calls
  `::connect` on a number that may be somebody else's socket by then (`stray`).
- *InScope*, *ConnectReturns*: the job outlives its thread, and the connect returns whenever
  `::connect` does; the five seconds do not bound it.
- *OneHolder*, *LockInv*: the conditional update and the comparison of the ts let one process
  through, and every server names it, as long as no unconditional write — takeover, unlock, or
  the completion of a propagation — has hit a lock of another process.
- *Released*: a successful unlock leaves the lock free on all servers; a partial one is retried.
- *NodesInv*, *FindsPrimary*, *SlavesRecover*: one entry for a host, whoever finds it first; when
  the set settles the monitor has its primary for good, whatever stale answers were on their way;
  every node but the first is used again after a failure, by way of its first entry. The first is
  not: that is the run `first_node`.
- *Accounted*, *NoIdleWorker*, *NeverBlocks*, *JoinMeansDone*, *JoinReturns*: the thread pool runs
  every task once; no worker idles while one is queued; `put` under the mutex never waits; `join`
  returns, and only when everything scheduled has run.
- *QueueInv*, *CallMeansRun*, *SentRuns*, *CallComesBack*: messages start in the order they came,
  run again only when they asked to, all run, and a call returns after its message has. The holes:
  a message that asked and then threw leaves `rq` to the next; a call whose message threw
  never returns, nor does one whose signal came between the test and the wait; a requeued call, or a
  `notify_one` after the caller left, uses a `Ret` that is gone (`touched`, which ends a behaviour).
- *ListInv*, *AsapMeansAllocated*, *FirstSizeUsed*, *CallsReturn*: `allocateAsap` never moves the
  front, so the thread pops what it made; the first size asked for wins; every wait ends, but a
  `waitUntilFinished` during which an allocation fails does not.

Why the bounds are enough. The interesting cases of the connection need one interrupted
request, one request after it, and a kill in the buffer next to a message that joins it and one
that does not: four messages and a buffer of two. (An exhaust query is begun only when a number is
left for the killCursors message of its cursor.) A second port shows what a reconnect leaves
behind, a third the back-off between two reconnects. A cursor over four documents with a default
batch of two has a first, a middle and a last batch, limits that fall inside, at the end of and
beyond a batch, and the batch size 1 that the constructor replaces. A descriptor is reused when
one thread gives up and another connects: two threads, two numbers, three sockets. Two servers
are enough for a write to be split, for two processes to disagree and for a read to skip the
first. Two changes of the replica set make
a master stale and its successor stale again. Three workers and five tasks have a queue, a free
worker and a busy one at once, with a task that schedules. Three names on the allocator's list
have a front, a place behind it, and a rest.

Deadlock is not checked: a run stops when the caller deletes its connection, cursor or pool, when
R is dead, when everybody has what he wants, or when a bound is reached; that waits end is stated
as liveness instead.

Fairness. It is assumed that threads run, that the server handles what it has received, that a
read on a socket whose peer is gone returns, that `::connect` returns (the kernel gives up in the
end), and that tasks and messages end. It is not assumed that an interrupted read or a time-out
happens, nor that anybody makes a call. The lock's run checks safety only: `lock_try` may fail
for ever.

### Disagreements with the code

Three runs expect a violation; each finding in `PROJECT.json` quotes the line it contradicts.

- `wrong_id`: `requestMore` uses a connection marked failed, and `assert(false)` on a reply with
  the wrong id (`util/message.cpp:512`) fires.
- `get_master`: `_master` is tested without the lock and used with it; a failure reported in
  between makes `getMaster` read `_nodes[-1]` (`client/dbclient_rs.cpp:195-198`). `check()` has the
  same window (lines 378-380).
- `first_node`: `_checkStatus` takes index 0 for "not found" (`client/dbclient_rs.cpp:260`), so the
  first node, once it was marked as failed, is never marked as ok again, although the hosts of the
  list are to be checked and `Node::ok` set (`client/dbclient_rs.h:104`).

### What the exceptions hide

Where a property names an exception, the models have behaviours that need it; dropping the
exception from the property and running TLC shows a trace. Three of them a user of the code should
know.

- *ZeroUntilClose* without "after `mongo.close`": a query is left by an exception with its cursor
  open (a document that `toString()` cannot print, `mongoR.cc:83`); its killCursors message stays in
  the buffer, the next `mongo.insert` joins it, the flush throws and R is told 0; `flush` keeps the
  buffer (`util/message.cpp:287`), and `mongo.close` sends it, insert included.
- *OneHolder* without `robbed`: with three config servers, no failure and no old ping, two processes
  hold the lock. Its first use is needed: the insert of its document (`client/distlock.cpp:186-189`)
  has not reached the last server, so an update is split; the comparison of the ts and the write
  that completes the winner's update (lines 283-297) are separate steps, and another process's
  greater ts arrives between them.
- *CallComesBack* without `missed`: `Ret::f` sets `done` and signals without the mutex
  (`util/concurrency/task.cpp:96`), between the caller's test and its wait; the message has run, and
  the call, which is to block "until function completes" (`msg.h:39`), blocks for ever.

Other things the models show, which contradict no comment or test we know of: the other holes named
with the properties above; a seed that another seed has named is listed twice (`dbclient_rs.cpp:91`); a
monitor none of whose seeds connects has an empty list for ever, and `getSlave` then divides by
zero (line 219); `unlock` gives up after three attempts and logs that the lock will be taken over,
which never happens while its process pings (`distlock.cpp:335`); when the `findOne` after the
update throws, the lock stays taken by nobody (line 266). In the binding, `error()` in
`mongoRquery` jumps past the line that restores `std::cout`, a query whose reply is lost calls
`more()` through a null pointer and ends R, and the strings of a result are not protected from
R's collector until they are stored (`mongoR.cc:80-104`). In the allocator the assertion on a
failed `open` is the wrong way round (`file_allocator.cpp:225`), so the failure is found by
`ensureLength`.

## Proofs

TLC checks the instances of the table above; the theorems hold for every value of the constants.
Their only assumptions are the named `ASSUME`s of the models, which say that bounds and sizes are
natural numbers, that a descriptor is not 0, that there is a host and a config server, that
`unlock` tries at least once, that a seed is a member of its replica set, and that model values
differ (the watcher is no client, "nobody" is no thread and no host). That R's connection is made
without auto-reconnect is not assumed but part of `RInit`, so the connection's theorems hold for
every setting.
Each proof module has the same form: an inductive invariant `IInv`, a conjunction of named parts;
lemmas that say which variables a part reads, so that most steps preserve it at once; one lemma per
action; their combination in one invariance lemma; and the theorems, each a consequence of `IInv`.

| Module | Theorems | of the properties |
|---|---|---|
| CursorProofs | `TypeCorrect`, `LimitIsHeld`, `DanglingNeverUsed`, `NoCursorLeaks`, `ImplementsStream` | `TypeOK`, `LimitHeld`, `DanglingUnused`, `NoLeakedCursor`, `KeepsPromise` |
| ConnectionProofs | `ConnectionTypes`, `NoForeignReply`, `HandledOnceInOrder`, `CredentialsFirst`, `OnlyReconnectHeals` | `TypeOK`, `NoStrayReply`, `OnceInOrder`, `AuthPresented`, `HealedByReconnect` |
| ConnectionProofs, second part | `BindingUsesConnection`, `SessionKept`, `OneIsStored`, `ZeroHoldsUntilClose` | (`RSpec => Spec`), `SessionInv`, `OneMeansStored`, `ZeroUntilClose` |
| PoolProofs | `OneOwnerEach`, `PoolHoldsUsable`, `DescriptorsKept`, `JobInScope` | `PoolInv`, `PooledUsable`, `DescriptorInv`, `InScope` |
| DistLockProofs | `HolderIsNamed`, `LockHasOneHolder`, `UnlockIsForGood` | `LockInv`, `OneHolder`, `Released` |
| ReplicaSetProofs | `HostsListedOnce` | `NodesInv` |
| ThreadPoolProofs | `TasksAccounted`, `NoWorkerIdles`, `PutNeverBlocks`, `JoinWaitsForAll` | `Accounted`, `NoIdleWorker`, `NeverBlocks`, `JoinMeansDone` |
| TaskServerProofs | `MessagesInOrder`, `CallAfterRun` | `QueueInv`, `CallMeansRun` |
| FileAllocatorProofs | `FrontStays`, `AsapAllocates`, `FirstSizeWins` | `ListInv`, `AsapMeansAllocated`, `FirstSizeUsed` |

**The cursor.** `LimitHeld` needs to know how many of the documents handed out are in the current
batch, which needs the batch's place in the server's data; that the end is announced truthfully
needs to know why the server closed its cursor. `IInv` is

- `BatchInv`: where the batch stands in the data (and `batchSize # 1`, what the constructor is for);
- `OrderInv`: documents held increase, documents given back come next, all precede the data pointer;
- `NoGapInv`: without a failure they are exactly the documents up to the data pointer;
- `LimitInv`: handed out − in this batch + left of the limit = limit (≤ after a failure);
- `EndInv`: a closed cursor is at the end of the data or the limit, and `more()` said no for a reason;
- `KnownInv`: the client knows the id of every cursor the server keeps for it.

The refinement has one lemma per step of ResultStream (`MapRead`, `MapEnd`, …), which says when a
step of the cursor is mapped to it, and one per action (`MoreLocalSim`, …); `NoMeansAll` is the
heart: when `more()` says no, the caller has `min(limit, documents)` of them.

**The connection.** What is under way on a port is spread over the buffer, the two directions of
the socket, what the server has handled and the call of the thread. `FreshInv` says that ports and
numbers not yet used are nowhere, `CallInv` what a thread that waits has sent, `BufferInv` what the
piggy-back buffer may hold, `ReplyInv` that every reply under way answers a request that was sent
on that port and that on a healthy connection it is the waiting thread's, `NumberInv` and
`OrderInv` how the numbers of the messages handled, under way and buffered follow one another, and
`AuthInv` when a reconnected port may carry a write. `OrderInv` is where the proof failed first: a
request that threw may be in the buffer and, in part, on the socket. That is the exception
described under `OnceInOrder` above; the theorem holds for every size of the buffer.

**The binding.** `BindingUsesConnection` shows that a session of R uses the connection through the
connection's operations only, so all five theorems above hold of it. `RInv` adds what the binding
knows: who has `std::cout` (`CoutInv`), that an insert whose `getlasterror` is under way was sent
before it on the same socket (`GleInv`), that inside a call that goes on the buffer is empty and the
connection healthy (`PlaceInv`), and where an insert answered with 0 can be (`RefusedInv`): its
failure ended the use of the connection, it stays in the buffer only if it joined others there, and
gets on its way, or to the server, only when the handle is closed. That last part is what makes
`ZeroUntilClose` inductive: no later call sends, because none finds the connection usable, and only
the destructor flushes.

**The pool.** `JobInv` and `PcInv` say what a thread has in its hands where it stands. `OwnInv`
describes stacks and vectors as sets (`OneHas`), so that each step is one of eight moves of a
connection between owners (`PopMove`, `PushBack`, `TakeOff`, …), proved without sequences; the
lemmas about sequences (`DropElems`, `ReverseElems`, …) connect the two. `FdInv` says that a number
is open exactly when somebody owns it, `SockInv` that sockets are made in order and have one number,
and `PeerInv`, as long as no job has strayed, that a job works on its caller's socket or on one
that no number names any more. The count of one owner follows at the end, from sets with one
element.

**The lock.** That one process holds it is a consequence of three facts: each ts belongs to one
process (`TsInv`); the servers already written by a process whose writes have all found what they
wanted name it, and all servers name the holder (`NamedInv`); and a document that a process has
seen is there for good (`MadeInv`), without which the completion of a propagation could find no
document anywhere and take agreement on nothing for the lock. The step that matters is the write of
another process (`NameKept`): a conditional update cannot match a document that is taken, and any
other write is what `robbed` records. `UnlockInv` — the servers an unlock has reached, and not lost its write to, do not name its
process — gives `Released`, which holds after a robbery too. Every step is a change of one
process's call with at most one document (`StepInv`), so the other processes are argued about once
(`OtherInv`).

**The monitor.** `ListedOnce` is kept by a check and an append that are separate steps: a thread
compares what a node names with the list, and adds the difference later, one host at a time, with
`_lock` free in between. What makes it sound is `_checkConnectionLock`. `PlaceInv` says that a thread
is between the two exactly when it holds that lock, where its index points, and which places only
the watcher can be in; `AddInv` that what the holder still has to add is not in the list and that
nobody else has anything to add; and `BuiltInv` that no client has the monitor while the constructor,
which pushes the seeds without a lock and without looking for duplicates, fills the list. Steps are
argued about in one form (`StepInv`): one thread moves, the list at most grows at its end, and the
others' indices and pending hosts are unharmed. That the index kept over an unlock (`_master`, the
`i` of `_check`) stays inside the list follows because nothing ever removes a node.

**Thread pool, task server, file allocator.** For the thread pool the invariant says what each
worker has in its MVar where it stands, and whether it is among the free ones; counting uses the
library's theorems on cardinality. For the server it relates the queue, the messages that have run
and the requests to run again. For the allocator it says which name the thread works on, that no
name is listed twice, and where the size of each name was decided.

Only model-checked are the liveness properties (`CallReturns`, `LoopEnds`, `RCallReturns`,
`ConnectReturns`, `FindsPrimary`, `SlavesRecover`, `JoinReturns`, `SentRuns`, `CallComesBack`,
`CallsReturn`): the prover does not do fairness or ENABLED. Every invariant, action property and
refinement that a run checks is also proved.

## Not modelled

Most of the repository's lines are Boost and PCRE, vendored with the driver, and the share of them
that the models cover is therefore tiny; no module is meant for them. Of the MongoDB client library
the parts marked `not_modelled` in `PROJECT.json` are codecs and helpers that only format, server
code that the library links, and the listener.

Of the modelled parts: `$err` documents in a batch, negative limits (one batch only), the cursor
made from an existing id, wrap-around of message ids, several handles in one R session (they share
only `std::cout`, which a call gives back before another can begin), a handle that R collects
without `mongo.close` (it leaks; there is no finalizer), and R's collector. The pool's hooks and
counters; the removal of pings older than four days, and a config-server write that arrives after
its sender has given up; several replica sets in one process and re-authentication of their
clients; jobs that delete themselves; more than one thread that requests files. An empty `Task` given to
`schedule`: `assert(!func.empty())` in `set_task` (`thread_pool.cpp:43`) throws after
`_tasksRemaining` was raised, and no `join` returns any more; that a caller schedules a function is
taken as his side of the bargain.
`BlockingQueue` and `Notification` are one mutex and one condition each, and only server code uses
them.

## Plan

1. Done: connection and port, cursor with its abstract specification, binding; proofs of the cursor.
2. Done: connection pool with connect time-outs, distributed lock on a config-server cluster,
   replica-set monitor, thread pool, task server, file allocator.
3. Done: proofs of the thread pool, the file allocator, the task server, the connection, the
   binding, the connection pool, the distributed lock and the replica-set monitor.
