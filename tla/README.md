# LuaRobot in TLA+

LuaRobot is a C++ host for Lua services: a `Server` owns a fixed number of
`Worker` threads, each with an asio `io_context`; a service is a `lua_State`
that a handler creates on one worker and whose script runs there. This
directory holds TLA+ models of the host and of the Lua library its scripts
use, the configurations that model-check them with TLC, and proofs that TLAPS
checks.

Contents: 1 the system, 2 the modules and the code, 3 the runs, 4 fairness,
5 the proofs, 6 disagreements found, 7 what is not modelled, 8 the plan.

## 1. The system

### Components, state and operations

| component | state | operations |
|---|---|---|
| `Server` (`src_cpp/server.cpp`, `.h`) | `workerVec`; the static `luaDirs`, `envPath` | constructor (makes and starts the workers), `newService`, `getWorkerByWorkerID`, `nextMinWorker`, `run`, `wait`, destructor. `getWorkerByServiceID`, `onTimer`, `forwardToActor` are stubs |
| `Worker` (`src_cpp/worker.cpp`, `.h`) | `th`, `ioCtx` with its work guard, `genID`, `serviceMap`, the atomics `serviceNum` and `shareThread` | `run`, `wait`, `newService` and the handler it posts. `stop` is empty |
| `LuaService` (`src_cpp/service.cpp`, `.h`) | a `lua_State`, pointers to server and worker, the pointer `callback` | construction, `setContext`, `init` with `loadLuaFile`, destruction; `dispatch` is commented out |
| core library (`lua_cpp/lua_register_libs.cpp`) | `registry["callback_context"]` | `core.callback`, `core.new_service` |
| Lua utilities (`src_cpp/lua_utility.h`) | none: they work on a Lua stack | `getLuaField`, `getLuaValue`, `LuaScopePop`, `traceback` |
| `main.cpp` | the configuration state, `threads`, `pathTable` | reads the configuration, builds the server, asks for `server.lua`, runs |
| `lua_scripts/service.lua` | `co_pool` (weak), `uid`, `sessionid_coroutine` | `async` with `routine` and `invoke`, `make_session`, `new_service`, `quit` |
| `lua_scripts/message.lua`, `server.lua` | `protocol` | `register`, `send`, `_default_dispatch`, which nothing calls yet |
| `lua_test/*` | | drafts: `wakeup` and `wait` (`test_co.lua`), the response dispatch (`dispatch.lua`), the configuration (`example.lua`) |
| `third/` | | vendored Lua 5.4 and sol2 |

### How they interact

```
 main ------ newService ---> Server ----- asio::post ----> io_context of a Worker
  |                            ^                                 |  handler
  |  run: Sleep, wait          | core.new_service                v
  +---- stop, join ------> Workers                   LuaService::init -> script
                               |                                 |
                               +------------ serviceMap <--------+  (on return)
```

`Server::newService` runs on its *caller's* thread: main's, once, or that of a
worker whose handler is loading a script that calls `core.new_service`. So the
counts it scans, the `fetch_add` on the chosen worker and the post interleave
with those of every other thread. The handler, the map and `genID` belong to
the worker's own thread. `main` stops the workers and joins them one by one
while those it has not reached go on loading and posting.

Inside one service everything is sequential, but the script is a set of
coroutines that resume, yield, fail and close each other in an order that no
code fixes, around a pool that the garbage collector may change.

### What is hard

* Threads: stale counts in `nextMinWorker`; a count raised on one thread for a
  service that another makes; ids computed per worker without a lock; raw
  `Server` pointers in handlers while the server shuts down.
* Limits: the 24-bit local id next to the worker's bits; `serviceNum` at the
  top of its word; a 64-bit Lua integer cast to `uint32_t`; the length of a
  chain of nested resumes.
* Errors: `lua_pcall` that succeeds with an error message; Lua errors raised
  outside any `pcall`; a `coroutine.close` that raises half-way through `quit`;
  results that are ignored (`init` in the handler, `resume` in `async`).
* Stale references: `LuaService::callback` into memory the collector owns;
  handles of coroutines that have gone back to the pool, or died.

`PROJECT.json` lists each of these hazards at its line, with the properties
that would catch it.

### What makes each component correct

* Server and workers: every request goes to one worker, to the one asked for
  if it exists, and is loaded there once; counts agree with what exists; ids
  are unique; the balancer's error is bounded, and with it how far the counts
  drift apart; what is posted gets run; the thread main joins is never stuck;
  the shutdown ends and leaves nobody running.
* Service: `init` tells success from failure, leaves stack and collector as its
  assertion says, the callback pointer never dangles, and the server is asked
  for the worker that the script named, not for what a cast makes of it.
* Startup: what the configuration says is what the server is built with, or
  no server is built; the directories are known before the first service.
* `service.lua`: the pool holds idle coroutines, once each, and gives a function
  only to a coroutine that has returned from its last one; the resume chain
  is sound; sessions are stable; `async` runs its function; `quit` closes the
  rest.

## 2. The modules and the code

| module | models |
|---|---|
| `ServerWorkers` | server.cpp, worker.cpp and main from the first service on |
| `ServicePromise` | abstract: what `newService` promises |
| `ServerRefinement` | ServerWorkers implements ServicePromise |
| `LuaFields` | the conversions of lua_utility.h |
| `Startup` | main.cpp up to `Server::run`, on the Lua stack (EXTENDS LuaFields) |
| `ServiceInit` | the handler in detail for one service: service.cpp, the core library (EXTENDS LuaFields) |
| `ServiceLua` | service.lua, `wakeup` of test_co.lua |
| `CoroutinePool` | abstract: what the pool behind `async` promises; ServiceLua implements it |
| `Message` | message.lua: the protocol table and `send`, on the module table it shares with the library |
| `MC...` | the same with values for TLC |
| `ServerWorkersProofs`, `BalancerProofs`, `IdsProofs` (ids and counts), `PlacementProofs` | theorems about ServerWorkers |
| `RefinementProofs` | the theorem that ServerWorkers implements ServicePromise |
| `ServiceLuaProofs`, `ServiceInitProofs`, `StartupProofs` | theorems about the modules they are named after |

**ServerWorkers.** A *request* is one call of `Server::newService`, numbered in
order; of its option only `workerID` is kept. `call[c]` is the program counter
and the locals of caller `c` inside `newService`: `AskService` is the lookup by
`workerID`, `ReadCount` one iteration of `nextMinWorker` (one atomic load),
`Refuse` its `nullptr` return, `CountService` the `fetch_add`, `Post` the
`asio::post`. So each shared access is a step of its own. `StartHandler` and
`FinishHandler` are the two halves of the handler; between them the script
runs, and may ask again. `LeaveLoop` is the return of `ioCtx.run()`, and
`MayLeave` the condition for it: the context is stopped and no handler runs.
`Launch`, `Launched`, `Wake`, `StopWorker`, `JoinWorker`, `WaitAgain` and
`Destroy` are main: the constructor's loop, the sleep, the two calls of `wait`
(by `run` and by the destructor) and the destruction of `workerVec`. The atomics
are modelled as single shared variables: a load is assumed to return the
latest value, which the C++ memory model recommends and common hardware does,
but its acquire loads do not promise (`BalancerBound` depends on it; the other
properties rest on the read-modify-writes, which are exact). `placed` is a history variable: how many of a
worker's services the balancer put there. Unsigned words wrap (`Wrap`), and
the bitwise or of the ids is the constant `BitOr`, so that the proofs need
only what `BitOrOK` says of it; TLC uses the real one.

**ServicePromise** has neither threads, counters, queues nor ids: a request is
asked, queued at a home, loading, live or lost. `ServerRefinement` maps where
a request is (a call, a queue, `loading`, a map) to its stage.

**ServiceInit** follows one handler statement by statement, with the stack of
the service's main thread, the collector's switch, and the callback contexts
as objects that the collector frees unless the registry holds them. The script
is any sequence of `core.callback`, `core.new_service`, `collectgarbage`, and
an end or an error. `asked` holds the options passed on to `Server::newService`,
each with `given`, the field `workerid` of that call's argument: a history, against
which `WorkerIdExact` compares the id that was passed on.

**Startup** keeps the Lua stack as a sequence of kinds, because
`getLuaValue<LuaVector>` and `getLuaField` work with negative indices on it;
`lua_next` may meet the entries in any order. An error outside `pcall`
(there is none in main) is `abort`. The first lookup of the configuration
file cannot reach the branch "load lua fail": sol's `script_file` throws first.

**ServiceLua**. `chain` is the sequence of Lua threads that resumed one
another. `Async` takes what `table.remove` finds at *any* border of the weak
pool, else a fresh coroutine, and resumes it: only a coroutine that is new or
waits in `routine`'s own yield starts the function. `FinishTask` is the end of
`invoke`, `Yield` and `FailTask` what a task may do, `WakeUp` is `wakeup` of
test_co.lua, `NewService` makes the session before the core call may fail,
`Quit` closes in any order (`pairs`) until a close raises. `Collect` empties
slots of the pool. The coroutine library itself is external and modelled by
what Lua 5.4 does.

**CoroutinePool** has neither slots nor borders, neither a resume chain, a session
table nor a collector: coroutines are made or not, wait or not, and are in a
function or not. A function goes to one that is new or waits (`Take`), and only
`Return` makes a coroutine wait; `End` stands for failures and closes, `Forget`
for what the weak table drops. In ServiceLua `Born`, `PoolMembers` and `work` are
its state. That `Take` may leave the function unstarted is the program's own
weakness (section 6); `AsyncStarts` is about that.

**Message**. `core` says who provides a field of the module table: the library's
`luaL_Reg` fills it, and the scripts, for which `server` is `core`, write into
it. `nested` is the stack of calls of `server.send`. What a message is, and
which receiver or packed value a call is given, is left open.

## 3. The runs

| run | constants | distinct states | shows |
|---|---|---|---|
| `server_threads` | 2 workers, 5 requests, workerIDs 0, 1, 3 | 186,523 | `TypeOK`, `CountsExact`, `IdsUnique`, `ExplicitHonoured`, `TeardownSafe`, `BalancerBound`, `LoadBound` |
| `server_narrow` | 2 workers, 7 requests, 2-bit words, 1-bit local id | 1,188,306 | `ServiceKept` while ids and counts wrap, `RefusesOnlyFull` |
| `server_ids` | 2 workers, 6 requests, 2-bit local id, 4-bit words | 170,797 | `LostOnlyWhenSpent` |
| `server_life` | 2 workers, 4 requests, fair threads | 16,690 | `PromiseSafe` and `PromiseSettled` (refinement), `PostedGoesLive`, `NeverStuck`, `ShutdownEnds` |
| `startup` | every kind of `threads` and of `path_table` up to 3 entries, 3-bit words | 2,454 | `StackKept`, `WorkersAsConfigured`, `DirsBeforeService` |
| `service_init` | 3 names, 2 directories, 3 contexts, 2 requests | 8,280 | `CallbackAlive`, `VerdictExact`, `InitLeaves`, `WorkerIdExact` |
| `lua_script` | 3 coroutines, 4 tasks, 2 sessions, nesting 3 | 303,739 | `PoolIdle`, `ChainSound`, `SessionStable`, `QuitClosesUnlessNested`, `LossExplained`, `PoolPromise` (refinement) |
| `lua_pool` | the same without quit and wake-ups, nesting 4 | 79,044 | `AsyncStarts`, `PoolKeepsIdle` |
| `async_after_quit`, `async_after_wakeup`, `quit_in_task` | 2 coroutines, 3 tasks | | section 6 |
| `send_calls_itself` | 2 types, 3 nested calls | | section 6 |

Why the bounds are enough:

* *Two workers and main* give three callers. Main calls only before the workers
  have anything to do, so two callers are in `newService` at once at most; 5
  requests are what it takes for both workers to scan before either counts and
  so to overload one worker by the full bound (with `BalancerBound` stated for
  `Threads - 1` TLC finds a violation). WorkerID 3 names no worker: the silent
  fallback.
* *server_narrow* is where words end: 2-bit counters bring both workers' counts to
  the value that `num < min` never accepts, with the seventh request to spare,
  so `Refuse` happens; with a 1-bit local id the second service of a worker runs
  into the worker's bits, and `emplace` meets an id it has.
* *server_ids* lets all six requests go to one worker, which has three local ids
  other than 0, so that `emplace` does drop services there (`CountsExact` is violated
  in this run's state space, as it should be), while the counters stay small.
  The property says when that may happen: to a worker whose ids are spent, never
  because its ids met another worker's or a handler ran at the wrong moment.
  *server_threads* and *server_life* stay below both limits, where `IdsUnique` and `PromiseSafe` hold: the
  first needs fewer than 2^24 services per worker, the second that besides no
  service is lost to `emplace`.
* *lua_script* has a limit of 3 on the resume chain (Lua's is about 200) so that
  nested `async` calls reach it with 2 of the 3 coroutines. *lua_pool* has
  more than its coroutines can reach, because at the limit `async` does lose
  functions.
* *startup* and *service_init* bound only lengths of loops that do the same at
  every turn.

`CHECK_DEADLOCK FALSE` stands in every configuration but that of Message because
each of these programs ends: the process after `Destroy`, the chunk, the service, startup.
That threads do not wait for each other for ever is `NeverStuck`, whatever is
scheduled, and `ShutdownEnds` under the fairness of section 4.

`ServiceKept` says what emplace never does, `LostOnlyWhenSpent` what it may do to the
new service, `CountsExact` (below the limits) that the count does not tell
otherwise. `LossExplained` is the same question asked of `async`: since it ignores
that a resume is refused, the property lists the only two reasons there may be.

## 4. Fairness

`WorkerFairness`: a worker's thread that can take a step takes one. The step may
be the end of a script, so scripts are assumed to return; the C++ code assumes
it too, for it never interrupts one. One weak fairness per thread is what an
operating system's scheduler gives; there is no lock to be unfair about, and a
step once enabled on a thread stays enabled until that thread moves.
`BootFairness` brings main to its sleep. `FairSpec` is these two: the sleep may last
for ever, as it does when the program serves. So `PostedGoesLive` and
`PromiseSettled` (a request asked goes live unless main has left its sleep) do
not profit from the server's end, where every request is settled by being lost.
`ShutdownFairness` takes main out of its sleep and through the shutdown;
`ShutdownEnds` has it as its hypothesis. In ServiceLua, Startup and ServiceInit only
safety is checked, without fairness; and so in Message.

## 5. The proofs

### The server

These are for any number of threads and requests, any word sizes and any
`BitOr` with `BitOrOK`; the constants' assumptions are `ConstantsOK` and
`BitOrOK` in ServerWorkers.

* `TypeCorrect`: `Spec => []TypeOK`. `TypeOK` alone is not inductive: that
  `Post` appends a request to a worker's queue needs `CallsSound` (an open call
  has a request; one about to post has a target), and `JoinWorker` needs
  `CursorSound`. `TypeInv` is the three together.
* `TeardownIsSafe`: `Spec => []TeardownSafe`. The strengthening is `CallersSound`
  (a worker is inside `newService` only while it loads, and loads only while its
  thread runs; main only at its call) and `JoinedSound` (the workers behind the
  shutdown's cursor are joined, and all are by the second pass). A joined
  thread cannot be restarted, so at the end nobody runs, and by `CallersSound`
  nobody calls.
* `NobodyIsStuck`: `Spec => []NeverStuck`. The worker that `thread::join` waits for
  has exited or has a step to take: it is inside `newService`, in a handler, or
  may leave its loop. Besides `TypeInv` and `TeardownInv` it takes `JoinInv`: main joins a context that it
  has stopped (`StopBeforeJoin`: otherwise an idle loop would wait for work for
  ever), and every thread was started before the constructor's loop ended
  (`StartedSound`). That each alternative of `CanMove` is enabled in Next is not
  proved (`ENABLED`); `ShutdownEnds` has TLC go through it.
* `BalancerIsBounded`: `NoOverflow => (Spec => []BalancerBound)`, where
  `NoOverflow` says that a counter can hold the number of requests. The
  argument: fix workers `w`, `v` and a count `m` that `v` has not passed. Once
  `placed[w] > m`, the count of `w` is above `m` (`Counted`), and it only grows
  because it does not wrap (`CountsFit`); so a scan that reads it now cannot
  choose `w` with a minimum of `m` or less, and a scan that chooses it with a
  greater one cannot complete, because it also passes `v`, whose count is at
  most `m` (`ScanSound`). Only the calls already *aiming* at `w` may still
  count there, so `placed[w]` plus their number does not grow beyond
  `m + Threads`: when `placed[w]` first exceeds `m` the caller that did it is no
  longer aiming, and at most `Threads` calls are open at once
  (`OneCallPerThread`, which needs `QuietBoot`). That is `AimBound`; the
  invariant is `BalancerInv`.
* `LoadIsBounded`: `NoOverflow => (Spec => []LoadBound)`, the same for the counts
  themselves: at most `Threads` apart, besides the services that scripts asked for by
  `workerID`. The invariant `LoadInv` says that a worker's count
  is accounted for (`Attributed`): with the calls that are about to count on it
  because they name it (`About`), it is at most what the balancer placed there
  and the requests that name it (`Named`). `NamedSkipsScan` keeps such a call out of
  `nextMinWorker`, and `CountsFit` keeps the count from wrapping. `BalancerBound`, which
  holds `placed` against the count of any other worker, gives the rest.

* `ServicesAreKept`: `Spec => ServiceKept`, without any assumption on the widths.
  The invariant is `OneEach`, one service per id in a map; `FinishHandler` is the
  only step that adds to a map and `Destroy` the only one that takes from it.
* `IdsAreUnique`: `IdsFit => (Spec => []IdsUnique)`. `IdsFit` says that a run asks
  for fewer services than a worker has local ids (2^24 in the code) and that the
  last worker's ids fit the word (255 workers). `GenFit` bounds what a worker has
  drawn, has queued and may yet be posted by the requests made, so `++genID` does
  not reach the worker's bits; `Drawn` says that a mapped id is one of the
  worker's; `IdTellsWorker` is the arithmetic.
* `CountsAreExact`: `IdsFit => (Spec => []CountsExact)`. Each step changes two terms
  of the sum or none. That a loaded service enters the map needs the id to be
  new (`FreshId`, from `Drawn`), that the count rises by one needs `CountsFit`, and
  that the equation need not hold after the end needs the end to be final
  (`StaysDone`, from `TeardownInv`). With ids that do not fit the theorem would be
  false: `emplace` drops a service that stays counted.
* `LossNeedsSpentIds`: `WorkersFit => (Spec => LostOnlyWhenSpent)`. `WorkersFit` says
  only that the last worker's number fits the word above the local ids; nothing bounds the
  requests, so `genID` may run through the local ids, into the worker's bits and around the
  word. The invariant `IdsLast` has two cases for each worker until the server is
  destroyed: it has as many services as local ids other than 0 (`Spent`, which lasts
  because services are kept), or it has one service for each id it has drawn but the one
  being loaded (`InOrder`). In the second case the next id is still a local one and
  above those drawn, so it is free (`FinishAdds`) and the order is kept
  (`OrderKept`).
* `ExplicitIsHonoured`: `Spec => []ExplicitHonoured`. `Known` (no call, queue,
  handler or map holds a request not yet made, so a later request does not
  overwrite its option) and `MeantInv`, the property stated of every place on
  the way to the map.

* `NobodyIsRefused`: `NoOverflow => (Spec => RefusesOnlyFull)`. A scan that ends with
  no target has found every count at the limit of its word (`ScanSound`), but
  the counts and the scans in progress together are at most the requests made
  (`CountsFit`), which fit: only a server without workers refuses.
* `PromiseIsKept`: `IdsFit => (Spec => PromiseSafe)`, the refinement. Its
  invariant `RefInv` adds to those above `PlaceInv`, that a request is in one
  place at a time (in one call, once in one queue, in one handler, in one map,
  or nowhere), and `StoppedSound`, that no loop is left before it was stopped.
  `StageLaws` reads the stage and the home off the place, and one lemma per
  action shows which step of the promise it is: `AskIsAsk`, `PostIsAccept` (by
  `MeantInv` it is the worker asked for), `RefuseIsRefuse`, `StartIsLoad`,
  `FinishIsComplete` (by `FreshId` the service does enter the map),
  `StopIsClose`, `DestroyIsEnd` (by `TeardownInv` nobody asks or loads), and
  `OthersStutter` for the rest. Without `IdsFit` it would be false: a service
  that `emplace` drops goes from loading to lost.

### One service's script

For any number of coroutines, tasks, sessions and slots (`BoundsOK`), whatever
the scripts and the collector do:

* `LuaTypeCorrect`, `PoolIsIdle`, `ChainIsSound`, `SessionsAreStable`: by the
  invariant `LuaInv`, which is `TypeOK`, `ChainSound` and `PoolIdle` together (each
  step that preserves one of the last two needs the other: `invoke` stores a
  coroutine that is on the chain, so it is in no slot yet; `async` resumes one
  that is in a slot, so it is not on the chain) and `UnbornIdle`.
* `IdleStaysPooled` and `AsyncDoesStart` assume `RoomToNest`, that the chain's
  limit is above the number of coroutines. The members of the chain are
  distinct, so a coroutine that is not on it can always be resumed
  (a pigeonhole argument on the chain). The first adds `ActiveBusy` (a running
  coroutine is in a task), the second `PoolAlive` (no dead coroutine in the
  pool), which is what `quit` and late wake-ups break: it assumes that scripts
  use neither. The runs of section 6 show that both assumptions are needed.
* `LossIsExplained`: `Spec => LossExplained`, without `RoomToNest` and for scripts that
  quit and wake. By `Taken`, which rests on `PoolIdle` and `UnbornIdle`, the coroutine
  `async` gets is in no task and is new, suspended or dead; so only death or
  the chain's limit can make Lua refuse the resume.
* `QuitIsComplete`: `Spec => QuitClosesUnlessNested`, an action property. When no
  thread that waits for one it resumed has made a session, every coroutine that
  `quit` meets is suspended or dead (`OthersClosable`, from `LuaInv`), so no close
  raises and the loop ends. This is the counterpart of the run `quit_in_task`,
  which shows what happens otherwise.
* `PoolKeepsPromise`: `Spec => PoolPromise`, the refinement of CoroutinePool, without
  `RoomToNest` and with quits and late wake-ups. The invariant `PoolInv` is `LuaInv`,
  `ActiveBusy` and `SessionsBorn` (what the session table names has run; without it
  a close would make a coroutine that the promise does not know). There is a lemma for each
  kind of step: `AsyncIsTake` (by `PoolIdle` what `table.remove` finds is in no
  function), `FinishIsReturn` (by `ChainSound` it is in no slot yet),
  `ClosingIsEnd`, `CollectIsForget`, and `SwitchStutters` for yields, wake-ups and the
  end of the script's chunk, which leave the pool and the functions alone.

### Creating a service

`CallbackIsAlive`, `VerdictIsExact`, `InitLeavesStack`, `ServiceTypeCorrect`: for any
names, directories, arguments (`ArgumentsOK` says only that a worker id which is an
integer or a numeral has an integer for its value), contexts and requests. The invariant
is `InitInv`: `StackAt` gives the stack at each statement of `init`, with the
outcome it goes with, and `CallbackKept` says that the service's pointer and the
registry's entry are the same, live context. `WorkerIdsAreExact` says of each
call of `core.new_service` that the id passed on is what the field of that call's own
argument means. It is by induction on the calls: `CastKeepsMeaning` says that a number which the check of
`getLuaField` lets through is the number that `static_cast<uint32_t>` returns.

### Starting

`StartTypeCorrect`, `StackIsKept`, `WorkersAreAsConfigured`, `DirsComeFirst`: for any
set of configurations (`ConfigsOK`: a thread count that is an integer or a numeral has
an integer for its value, and a table of directories has finitely many entries). The invariant is
`StartInv`: `StackAt` (so the negative indices meet what they mean), `ConfigAt`
and `ThreadsAt` (the count that was read is the one the configuration has), and
`DirsAt`: the directories collected are as many copies of each as there
are among the entries already visited (`Copies`). `TypeOK` says of the vector and of
both copies of it that they hold only strings that some configuration's table of
directories has (`DirNames`): that an entry which is no string never gets in
rests on the test of `getLuaValue` before it appends.

### Only model-checked

Liveness (`PostedGoesLive`, `ShutdownEnds`, `PromiseSettled`): the prover does not do
fairness and `ENABLED`. Every safety property of a passing run is stated by a
theorem. The violations of section 6 are TLC's counterexamples.

## 6. Disagreements between code and comments

* `async_after_quit`: a coroutine that made a session and has ended its task is
  both in the pool and in the session table. `quit` closes it and leaves it in
  the pool; the next `async` takes it, `coroutine.resume` returns false, nobody
  looks, and the function never runs. service.lua:32 says the resume starts it.
* `async_after_wakeup`: the same end by another road. `wakeup` on the handle
  `async` returned, after the task has ended, resumes `routine`'s yield with
  `false`, which `invoke` then calls: the coroutine dies in the pool.
* `quit_in_task`: `quit` promises to close all but the current coroutine
  (service.lua:60). Called from a coroutine, it meets the thread that resumed
  it if that one made a session too, or the main thread; `coroutine.close` raises there, after
  some sessions are closed and before others are.
* `send_calls_itself`: message.lua:57 announces the sending of a message. `server`
  is `core`, so `function server.send` becomes the `core.send` its own body calls
  (service.lua saves the library's function in a local before it overwrites
  `new_service`; message.lua does not, and the library has no `send`). The
  receiver becomes a message type, and every send ends in an error.

## 7. Not modelled

* `third/`: Lua's headers and sol2, more than nine tenths of the lines in the repository, are
  vendored and external; the stack, `pcall`, collector and
  coroutine rules are modelled where the code depends on them.
* `_default_dispatch` of message.lua. It is registered as the callback, but
  `LuaService::dispatch`, which would call it, is commented out; its session is
  fixed to 0, so it would change no state of the library either.
* The response dispatch of `dispatch.lua`. It is a draft nothing loads, and its
  `protocol`, `session_id_coroutine`, `session_watcher` and `coresume` are defined in
  no file; a model would have to invent what they are. So nothing removes an
  entry of the session table, and that it only grows (`SessionStable`) is what the
  program does today. `testservice.lua` is an older copy of service.lua, and
  `wait` of test_co.lua is not called by the library (service.lua:54 is commented
  out); it is one of the yields of ServiceLua.
* `__gc` finalisers in scripts that call the core library while `lua_close` runs.
* `getWorkerByServiceID`, `onTimer`, `forwardToActor`, `Worker::stop`,
  `TimerExpire`: empty or never called. `ServiceQueue`: a template nobody
  instantiates. `printLuaStack` and other printing.
* The `fetch_sub` at the end of the handler: `make_unique` returns or throws, so
  it is never reached.
* The option leaked when a field of `core.new_service` raises an error: it
  depends on whether liblua was built as C or as C++.
* Running out of memory.

## 8. The plan

Done: the modules of section 2, and the proofs of section 5.

Next, once the program has the code: `LuaService::dispatch` and the way of a
message from `send` to another service's callback; the response to
`core.new_service` and the removal of its session, with responses that come
twice, late, or after `quit` has put `false` in the slot. The abstract
specification to state then: a response resumes the coroutine of its session
once, and no other.
