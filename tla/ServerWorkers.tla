--------------------------- MODULE ServerWorkers ---------------------------
(***************************************************************************)
(* The C++ host of LuaRobot: Server (server.cpp), its Workers (worker.cpp) *)
(* and the main thread (main.cpp).  Every worker is one thread that runs   *)
(* an asio::io_context; a Lua service is created by a handler that         *)
(* Worker::newService posts to the chosen worker, and the script of a      *)
(* service being created may itself ask for more services.  The callers of *)
(* Server::newService are therefore the main thread (once) and every       *)
(* worker thread that is loading a service; their loads, fetch_adds and    *)
(* posts interleave, also with the shutdown that main runs after a sleep.  *)
(*                                                                         *)
(* A request is one call of newService.  What its option carries besides   *)
(* the worker asked for (script name, package.path) is abstracted away.    *)
(***************************************************************************)
EXTENDS Integers, Sequences, FiniteSets

CONSTANTS
  Threads,       \* workers the server is built with (Server::Server)
  MaxRequests,   \* bound: calls of Server::newService in a run
  AskedIds,      \* values scripts give ServiceOption::workerID
  IdSpan,        \* 2^WORKER_ID_SHIFT, the local ids of one worker
  UINT32_MAX,    \* largest value of the unsigned counters and ids
  BitOr(_, _)       \* the bitwise or of two unsigned values

Workers  == 1..Threads
Main     == 0
Callers  == {Main} \cup Workers
Requests == 1..MaxRequests

(* Any values will do, as long as BitOr is the or of unsigned words: it      *)
(* returns one, and adds operands that have no bit in common.               *)
ASSUME ConstantsOK ==
  /\ Threads \in Nat
  /\ MaxRequests \in Nat
  /\ AskedIds \subseteq Nat
  /\ IdSpan \in Nat \ {0}
  /\ UINT32_MAX \in Nat
ASSUME BitOrOK ==
  /\ \A a, b \in 0..UINT32_MAX : BitOr(a, b) \in 0..UINT32_MAX
  /\ \A g \in 0..(IdSpan - 1), w \in Workers :
       w * IdSpan <= UINT32_MAX => BitOr(g, w * IdSpan) = g + w * IdSpan

VARIABLES
  mainPc,      \* where main() is: launch, boot, call, sleep, stop, join, done
  cursor,      \* the worker main's current loop has reached
  pass,        \* 1: wait() called by Server::run, 2: by ~Server
  thread,      \* Worker::th of each worker: none, run, exited, joined
  stopped,     \* the io_context of the worker has been stopped
  queue,       \* handlers posted to the io_context, as requests
  loading,     \* the request whose handler the worker runs, 0 if none
  genID,       \* Worker::genID
  serviceMap,  \* Worker::serviceMap, as a set of (id, request) entries
  serviceNum,  \* Worker::serviceNum
  call,        \* the newService call each caller is in
  issued,      \* requests made so far, numbered in order
  option,      \* ServiceOption::workerID of each request
  placed       \* history: services the balancer has counted on the worker

mainVars   == <<mainPc, cursor, pass>>
workerVars == <<thread, stopped, loading, genID, serviceMap>>
countVars  == <<serviceNum, placed>>
askVars    == <<issued, option>>
vars == <<mainVars, workerVars, countVars, askVars, queue, call>>

-----------------------------------------------------------------------------
(* A caller inside newService: in nextMinWorker it has scanned the workers  *)
(* before `next` and `target` had the least count `min` it saw; then it     *)
(* counts the service on the target, then it posts the handler.             *)
CallStates ==
  [pc : {"idle", "pick", "post"}, req : 0..MaxRequests, next : 1..(Threads + 1),
   min : 0..UINT32_MAX, target : 0..Threads, balanced : BOOLEAN]

(* Variant: min starts at the limit of a signed word. *)
NoCallSigned ==
  [pc |-> "idle", req |-> 0, next |-> 1, min |-> UINT32_MAX \div 2, target |-> 0,
   balanced |-> FALSE]

NoCall ==
  [pc |-> "idle", req |-> 0, next |-> 1, min |-> UINT32_MAX, target |-> 0,
   balanced |-> FALSE]

ScanFrom1(r) ==
  [NoCall EXCEPT !.pc = "pick", !.req = r, !.balanced = TRUE]

Explicit(r, w) ==
  [NoCall EXCEPT !.pc = "pick", !.req = r, !.next = Threads + 1, !.target = w]

Entries == [id : 0..UINT32_MAX, req : Requests]

Wrap(n) == n % (UINT32_MAX + 1)

(* Variant: the worker's bits are forgotten. *)
ServiceIdWithoutWorker(gen, w) == Wrap(gen)

(* uint32_t id = ++genID | (workerID << WORKER_ID_SHIFT) *)
ServiceId(gen, w) == BitOr(gen, Wrap(w * IdSpan))

TypeOK ==
  /\ mainPc \in {"launch", "boot", "call", "sleep", "stop", "join", "done"}
  /\ cursor \in 1..(Threads + 1)
  /\ pass \in 1..2
  /\ thread \in [Workers -> {"none", "run", "exited", "joined"}]
  /\ stopped \in [Workers -> BOOLEAN]
  /\ queue \in [Workers -> Seq(Requests)]
  /\ loading \in [Workers -> 0..MaxRequests]
  /\ genID \in [Workers -> 0..UINT32_MAX]
  /\ serviceMap \in [Workers -> SUBSET Entries]
  /\ serviceNum \in [Workers -> 0..UINT32_MAX]
  /\ call \in [Callers -> CallStates]
  /\ issued \in 0..MaxRequests
  /\ option \in [Requests -> AskedIds \cup {0}]
  /\ placed \in [Workers -> Nat]

Init ==
  /\ mainPc = "launch" /\ cursor = 1 /\ pass = 1
  /\ thread = [w \in Workers |-> "none"]
  /\ stopped = [w \in Workers |-> FALSE]
  /\ queue = [w \in Workers |-> <<>>]
  /\ loading = [w \in Workers |-> 0]
  /\ genID = [w \in Workers |-> 0]
  /\ serviceMap = [w \in Workers |-> {}]
  /\ serviceNum = [w \in Workers |-> 0]
  /\ call = [c \in Callers |-> NoCall]
  /\ issued = 0
  /\ option = [r \in Requests |-> 0]
  /\ placed = [w \in Workers |-> 0]

-----------------------------------------------------------------------------
(* Server::newService and Worker::newService, on the caller's thread.       *)

(* main() asks once, for server.lua, with the default workerID 0; a script  *)
(* asks while its handler runs.                                             *)
MayAsk(c, id) ==
  /\ call[c].pc = "idle"
  /\ IF c = Main THEN mainPc = "boot" /\ id = 0
                 ELSE loading[c] # 0 /\ id \in AskedIds

(* Variant: workerVec is indexed by the workerID itself. *)
AskServiceOffByOne(c, id) ==
  /\ MayAsk(c, id) /\ issued < MaxRequests
  /\ issued' = issued + 1
  /\ option' = [option EXCEPT ![issued + 1] = id]
  /\ call' = [call EXCEPT ![c] = IF id \in Workers
                                   THEN Explicit(issued + 1, (id % Threads) + 1)
                                   ELSE ScanFrom1(issued + 1)]
  /\ mainPc' = IF c = Main THEN "call" ELSE mainPc
  /\ UNCHANGED <<cursor, pass, workerVars, countVars, queue>>

(* Server::newService up to the first count it reads.  A workerID that      *)
(* names no worker falls back to nextMinWorker without an error.            *)
AskService(c, id) ==
  /\ MayAsk(c, id)
  /\ issued < MaxRequests
  /\ issued' = issued + 1
  /\ option' = [option EXCEPT ![issued + 1] = id]
  /\ call' = [call EXCEPT ![c] = IF id \in Workers
                                   THEN Explicit(issued + 1, id)
                                   ELSE ScanFrom1(issued + 1)]
  /\ mainPc' = IF c = Main THEN "call" ELSE mainPc
  /\ UNCHANGED <<cursor, pass, workerVars, countVars, queue>>

(* Variant: the scan does not lower `min`. *)
ReadCountKeepsMin(c) ==
  LET w == call[c].next
  IN /\ call[c].pc = "pick" /\ w \in Workers
     /\ call' = [call EXCEPT ![c] =
                   IF serviceNum[w] < call[c].min
                     THEN [@ EXCEPT !.next = w + 1, !.target = w]
                     ELSE [@ EXCEPT !.next = w + 1]]
     /\ UNCHANGED <<mainVars, workerVars, countVars, askVars, queue>>

(* Variant: the loop goes on to the next worker only after a smaller count. *)
ReadCountStays(c) ==
  LET w == call[c].next
  IN /\ call[c].pc = "pick" /\ w \in Workers
     /\ call' = [call EXCEPT ![c] =
                   IF serviceNum[w] < call[c].min
                     THEN [@ EXCEPT !.next = w + 1, !.min = serviceNum[w],
                                    !.target = w]
                     ELSE @]
     /\ UNCHANGED <<mainVars, workerVars, countVars, askVars, queue>>

(* One iteration of the loop of nextMinWorker.  shareThread is true of      *)
(* every worker: nothing in the program assigns it.                         *)
ReadCount(c) ==
  LET w == call[c].next
  IN /\ call[c].pc = "pick" /\ w \in Workers
     /\ call' = [call EXCEPT ![c] =
                   IF serviceNum[w] < call[c].min
                     THEN [@ EXCEPT !.next = w + 1, !.min = serviceNum[w],
                                    !.target = w]
                     ELSE [@ EXCEPT !.next = w + 1]]
     /\ UNCHANGED <<mainVars, workerVars, countVars, askVars, queue>>

Scanned(c) == call[c].pc = "pick" /\ call[c].next = Threads + 1

(* The call returns to main() or to the script. *)
Return(c) ==
  /\ call' = [call EXCEPT ![c] = NoCall]
  /\ mainPc' = IF c = Main THEN "sleep" ELSE mainPc

(* nextMinWorker found no worker: newService returns, the option is freed.  *)
Refuse(c) ==
  /\ Scanned(c) /\ call[c].target = 0
  /\ Return(c)
  /\ UNCHANGED <<cursor, pass, workerVars, countVars, askVars, queue>>

(* Variant: a store of the count read before, plus one, for the fetch_add.  *)
CountServiceByStore(c) ==
  LET w == call[c].target
  IN /\ Scanned(c) /\ w # 0
     /\ serviceNum' = [serviceNum EXCEPT ![w] =
                         IF call[c].balanced THEN Wrap(call[c].min + 1) ELSE Wrap(@ + 1)]
     /\ placed' = IF call[c].balanced THEN [placed EXCEPT ![w] = @ + 1] ELSE placed
     /\ call' = [call EXCEPT ![c] = [@ EXCEPT !.pc = "post"]]
     /\ UNCHANGED <<mainVars, workerVars, askVars, queue>>

(* serviceNum.fetch_add(1) of Worker::newService *)
CountService(c) ==
  LET w == call[c].target
  IN /\ Scanned(c) /\ w # 0
     /\ serviceNum' = [serviceNum EXCEPT ![w] = Wrap(@ + 1)]
     /\ placed' = IF call[c].balanced THEN [placed EXCEPT ![w] = @ + 1] ELSE placed
     /\ call' = [call EXCEPT ![c] = [@ EXCEPT !.pc = "post"]]
     /\ UNCHANGED <<mainVars, workerVars, askVars, queue>>

(* asio::post of Worker::newService.  A stopped io_context still queues.    *)
Post(c) ==
  /\ call[c].pc = "post"
  /\ queue' = [queue EXCEPT ![call[c].target] = Append(@, call[c].req)]
  /\ Return(c)
  /\ UNCHANGED <<cursor, pass, workerVars, countVars, askVars>>

-----------------------------------------------------------------------------
(* A worker's thread: ioCtx.run() takes handlers in the order they were     *)
(* posted, one at a time, until the context is stopped; the work guard      *)
(* keeps it there while the queue is empty.                                 *)

(* Variant: a stopped io_context goes on running what it has queued. *)
StartHandlerWhenStopped(w) ==
  /\ thread[w] = "run" /\ loading[w] = 0 /\ queue[w] # <<>>
  /\ loading' = [loading EXCEPT ![w] = Head(queue[w])]
  /\ queue' = [queue EXCEPT ![w] = Tail(@)]
  /\ genID' = [genID EXCEPT ![w] = Wrap(@ + 1)]
  /\ UNCHANGED <<mainVars, thread, stopped, serviceMap, countVars, askVars, call>>

(* Variant: the id is computed from genID without raising it. *)
StartHandlerWithoutDraw(w) ==
  /\ thread[w] = "run" /\ ~stopped[w]
  /\ loading[w] = 0 /\ queue[w] # <<>>
  /\ loading' = [loading EXCEPT ![w] = Head(queue[w])]
  /\ queue' = [queue EXCEPT ![w] = Tail(@)]
  /\ UNCHANGED <<mainVars, thread, stopped, genID, serviceMap, countVars, askVars, call>>

(* The handler starts: it draws the next local id and begins to load the    *)
(* script (LuaService::init).                                               *)
StartHandler(w) ==
  /\ thread[w] = "run" /\ ~stopped[w]
  /\ loading[w] = 0 /\ queue[w] # <<>>
  /\ loading' = [loading EXCEPT ![w] = Head(queue[w])]
  /\ queue' = [queue EXCEPT ![w] = Tail(@)]
  /\ genID' = [genID EXCEPT ![w] = Wrap(@ + 1)]
  /\ UNCHANGED <<mainVars, thread, stopped, serviceMap, countVars, askVars, call>>

(* Variant: serviceMap[id] = service, which replaces a service of that id.  *)
FinishHandlerReplaces(w) ==
  LET id == ServiceId(genID[w], w)
  IN /\ loading[w] # 0 /\ call[w].pc = "idle"
     /\ serviceMap' = [serviceMap EXCEPT
                         ![w] = {e \in @ : e.id # id} \cup {[id |-> id, req |-> loading[w]]}]
     /\ loading' = [loading EXCEPT ![w] = 0]
     /\ UNCHANGED <<mainVars, thread, stopped, genID, countVars, askVars, queue, call>>

(* init has returned, its result ignored; emplace adds the service unless   *)
(* the map has the id already, in which case the new service is destroyed.  *)
FinishHandler(w) ==
  LET id == ServiceId(genID[w], w)
  IN /\ loading[w] # 0 /\ call[w].pc = "idle"
     /\ serviceMap' = IF \E e \in serviceMap[w] : e.id = id
                        THEN serviceMap
                        ELSE [serviceMap EXCEPT
                                ![w] = @ \cup {[id |-> id, req |-> loading[w]]}]
     /\ loading' = [loading EXCEPT ![w] = 0]
     /\ UNCHANGED <<mainVars, thread, stopped, genID, countVars, askVars, queue, call>>

(* Variant: without the work guard run() returns when the queue is empty.   *)
MayLeaveUnguarded(w) ==
  thread[w] = "run" /\ loading[w] = 0 /\ (stopped[w] \/ queue[w] = <<>>)

(* Variant: the loop is left only when its queue has been run dry. *)
MayLeaveDrained(w) ==
  thread[w] = "run" /\ stopped[w] /\ loading[w] = 0 /\ queue[w] = <<>>

(* A stopped io_context ends its loop after the handler it is in. *)
MayLeave(w) == thread[w] = "run" /\ stopped[w] /\ loading[w] = 0

(* ioCtx.run() returns, and with it the thread's function. *)
LeaveLoop(w) ==
  /\ MayLeave(w)
  /\ thread' = [thread EXCEPT ![w] = "exited"]
  /\ UNCHANGED <<mainVars, stopped, loading, genID, serviceMap, countVars,
                 askVars, queue, call>>

-----------------------------------------------------------------------------
(* The main thread. *)

(* Worker::run, called for each worker by the Server's constructor *)
Launch ==
  /\ mainPc = "launch" /\ cursor \in Workers
  /\ thread' = [thread EXCEPT ![cursor] = "run"]
  /\ cursor' = cursor + 1
  /\ UNCHANGED <<mainPc, pass, stopped, loading, genID, serviceMap, countVars,
                 askVars, queue, call>>

Launched ==
  /\ mainPc = "launch" /\ cursor = Threads + 1
  /\ mainPc' = "boot"
  /\ UNCHANGED <<cursor, pass, workerVars, countVars, askVars, queue, call>>

(* Sleep(10) of Server::run is over: the first wait() begins. *)
Wake ==
  /\ mainPc = "sleep"
  /\ mainPc' = "stop" /\ cursor' = 1
  /\ UNCHANGED <<pass, workerVars, countVars, askVars, queue, call>>

(* Variant: the io_context is not stopped before the join. *)
StopWorkerLater ==
  /\ mainPc = "stop" /\ cursor \in Workers
  /\ mainPc' = "join"
  /\ UNCHANGED <<cursor, pass, workerVars, countVars, askVars, queue, call>>

(* ioCtx.stop() of Worker::wait *)
StopWorker ==
  /\ mainPc = "stop" /\ cursor \in Workers
  /\ stopped' = [stopped EXCEPT ![cursor] = TRUE]
  /\ mainPc' = "join"
  /\ UNCHANGED <<cursor, pass, thread, loading, genID, serviceMap, countVars,
                 askVars, queue, call>>

(* Variant: the thread is detached, not joined. *)
JoinWorkerDetached ==
  /\ mainPc = "join"
  /\ thread' = [thread EXCEPT ![cursor] = "joined"]
  /\ cursor' = cursor + 1
  /\ mainPc' = "stop"
  /\ UNCHANGED <<pass, stopped, loading, genID, serviceMap, countVars, askVars,
                 queue, call>>

(* if(th.joinable()) th.join() of Worker::wait *)
JoinWorker ==
  /\ mainPc = "join" /\ thread[cursor] \in {"exited", "joined"}
  /\ thread' = [thread EXCEPT ![cursor] = "joined"]
  /\ cursor' = cursor + 1
  /\ mainPc' = "stop"
  /\ UNCHANGED <<pass, stopped, loading, genID, serviceMap, countVars, askVars,
                 queue, call>>

(* Variant: run() and the destructor wait without end. *)
WaitAgainAndAgain ==
  /\ mainPc = "stop" /\ cursor = Threads + 1
  /\ pass' = pass + 1 /\ cursor' = 1
  /\ UNCHANGED <<mainPc, workerVars, countVars, askVars, queue, call>>

(* run() returns; the last reference goes and ~Server waits once more.      *)
WaitAgain ==
  /\ mainPc = "stop" /\ cursor = Threads + 1 /\ pass = 1
  /\ pass' = 2 /\ cursor' = 1
  /\ UNCHANGED <<mainPc, workerVars, countVars, askVars, queue, call>>

(* workerVec is destroyed: every io_context frees the handlers left in its  *)
(* queue, every serviceMap its services.                                    *)
Destroy ==
  /\ mainPc = "stop" /\ cursor = Threads + 1 /\ pass = 2
  /\ mainPc' = "done"
  /\ queue' = [w \in Workers |-> <<>>]
  /\ serviceMap' = [w \in Workers |-> {}]
  /\ UNCHANGED <<cursor, pass, thread, stopped, loading, genID, countVars,
                 askVars, call>>

-----------------------------------------------------------------------------
CallStep(c) ==
  \/ \E id \in AskedIds \cup {0} : AskService(c, id)
  \/ ReadCount(c)
  \/ Refuse(c)
  \/ CountService(c)
  \/ Post(c)

HandlerStep(w) == StartHandler(w) \/ FinishHandler(w) \/ LeaveLoop(w)

Shutdown == StopWorker \/ JoinWorker \/ WaitAgain \/ Destroy

MainStep == Launch \/ Launched \/ Wake \/ Shutdown

Next ==
  \/ MainStep
  \/ \E c \in Callers : CallStep(c)
  \/ \E w \in Workers : HandlerStep(w)

Spec == Init /\ [][Next]_vars

(* Every thread that can take a step takes one.  For a worker this includes *)
(* the end of a script: scripts are assumed to return (FinishHandler).      *)
WorkerFairness ==
  \A w \in Workers : WF_vars(HandlerStep(w) \/ CallStep(w))

(* main reaches its sleep; nothing is said of when the sleep ends. *)
BootFairness == WF_vars(Launch \/ Launched \/ CallStep(Main))

FairSpec == Spec /\ WorkerFairness /\ BootFairness

(* The sleep ends and the shutdown runs.  Only ShutdownEnds assumes it.     *)
ShutdownFairness == WF_vars(Wake \/ Shutdown)

-----------------------------------------------------------------------------
(* Properties. *)

Posting(w) == {c \in Callers : call[c].pc = "post" /\ call[c].target = w}
Handling(w) == IF loading[w] = 0 THEN 0 ELSE 1

(* Worker::serviceNum is raised before the handler is posted, on another    *)
(* thread than the one that fills the map.  As long as the server lives, a  *)
(* worker's count is exactly the services about to be posted to it, queued, *)
(* being loaded and in its map: no request is counted twice or forgotten.   *)
CountsExact ==
  mainPc # "done" =>
    \A w \in Workers :
      serviceNum[w] = Cardinality(Posting(w)) + Len(queue[w])
                        + Handling(w) + Cardinality(serviceMap[w])

(* nextMinWorker reads the counts one by one while other threads raise      *)
(* them, so concurrent callers can pick the same worker.  The damage is     *)
(* bounded: what the balancer has put on a worker exceeds no worker's count *)
(* by more than one service per thread.                                     *)
BalancerBound ==
  \A w, v \in Workers : placed[w] <= serviceNum[v] + Threads

(* The ids computed as ++genID | (workerID << WORKER_ID_SHIFT) on different *)
(* threads, without a lock, name one service each in the whole server.      *)
IdsUnique ==
  \A w, v \in Workers : \A d \in serviceMap[w], e \in serviceMap[v] :
    d.id = e.id => w = v /\ d = e

(* What this means for the counts themselves: a worker has at most one       *)
(* service per thread more than any other, besides those that scripts have  *)
(* asked of it by its workerID.                                             *)
Named(w) == {r \in 1..issued : option[r] = w}

LoadBound ==
  \A w, v \in Workers :
    serviceNum[w] <= serviceNum[v] + Threads + Cardinality(Named(w))

(* A script that names an existing worker gets its service on that worker,  *)
(* whatever the counts and whoever else is asking.                          *)
ExplicitHonoured ==
  \A w \in Workers : \A e \in serviceMap[w] :
    option[e.req] \in Workers => option[e.req] = w

(* Handlers and scripts hold a raw pointer to the Server.  When workerVec   *)
(* is destroyed every thread has been joined, no handler is running and no  *)
(* caller is inside newService: none of them can touch a dead Server.       *)
TeardownSafe ==
  mainPc = "done" =>
    /\ \A w \in Workers : thread[w] = "joined" /\ loading[w] = 0
    /\ \A c \in Callers : call[c] = NoCall

(* A worker's thread is inside a call or a handler, has one to start, or is  *)
(* about to leave its loop.                                                 *)
CanMove(w) ==
  \/ call[w].pc # "idle"
  \/ loading[w] # 0
  \/ thread[w] = "run" /\ ~stopped[w] /\ queue[w] # <<>>
  \/ MayLeave(w)

(* thread::join waits for a worker that may be loading a script, which may   *)
(* be posting to other workers, joined ones among them: whatever each of    *)
(* them is in, the thread main waits for can go on until it exits.          *)
NeverStuck ==
  mainPc = "join" =>
    \/ thread[cursor] \in {"exited", "joined"}
    \/ thread[cursor] = "run" /\ CanMove(cursor)

(* Even when the local id wraps into the worker's bits and collides, emplace *)
(* never takes a service out of the map: one service per id, and a service  *)
(* once in the map stays until the server is destroyed.                     *)
ServiceKept ==
  [][mainPc' # "done" =>
       \A w \in Workers :
         /\ serviceMap[w] \subseteq serviceMap'[w]
         /\ \A d, e \in serviceMap'[w] : d.id = e.id => d = e]_vars

(* emplace silently drops a service whose id the map has; it stays counted.  *)
(* That happens to no worker before it has as many services as local ids    *)
(* that are not 0, however its posts interleave with those to other workers *)
(* and whatever becomes of genID beyond the local ids.                      *)
LostOnlyWhenSpent ==
  [][\A w \in Workers :
       loading[w] # 0 /\ loading'[w] = 0 =>
         \/ \E e \in serviceMap'[w] : e.req = loading[w]
         \/ Cardinality(serviceMap[w]) >= IdSpan - 1]_vars

(* nextMinWorker passes over a worker whose serviceNum has reached the limit *)
(* of its word, and newService drops the request without a word.  It does   *)
(* so only once that many services have been asked for of all the workers:  *)
(* no request is dropped because of counts read while others raise them.    *)
RefusesOnlyFull ==
  [][\A c \in Callers : Refuse(c) => issued > Threads * UINT32_MAX]_vars

Live(r) == \E w \in Workers : \E e \in serviceMap[w] : e.req = r
Queued(r) == \E w \in Workers : \E i \in DOMAIN queue[w] : queue[w][i] = r

(* While main sleeps, a handler that has been posted is eventually run and  *)
(* its service reaches the map: the work guard keeps every io_context       *)
(* running, and a handler waits only for those posted before it.            *)
PostedGoesLive ==
  \A r \in Requests : Queued(r) ~> (Live(r) \/ mainPc # "sleep")

(* If the sleep ends and main is scheduled, stopping and joining the workers *)
(* one after the other ends, although workers not yet stopped go on posting  *)
(* to those already joined.                                                 *)
ShutdownEnds == ShutdownFairness => <>(mainPc = "done")

=============================================================================
