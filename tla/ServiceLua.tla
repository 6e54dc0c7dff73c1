----------------------------- MODULE ServiceLua -----------------------------
(***************************************************************************)
(* lua_scripts/service.lua: the coroutine pool behind server.async, the    *)
(* session table, server.new_service and server.quit, as one service's     *)
(* script uses them.  A script runs on the main thread of its lua_State    *)
(* (the chunk that LuaService::init loads) and on the coroutines it makes; *)
(* one of them runs at a time, those that resumed it are "normal".         *)
(*                                                                         *)
(* A task is one function passed to async.  What it does is any sequence   *)
(* of the calls below; the coroutine library is modelled by what           *)
(* coroutine.resume, yield, close and table.remove do in Lua 5.4.          *)
(***************************************************************************)
EXTENDS Integers, Sequences, FiniteSets

CONSTANTS
  MaxCoroutines,  \* bound: coroutines created by async
  MaxTasks,       \* bound: calls of async
  MaxSessions,    \* bound: calls of make_session
  PoolSlots,      \* bound: highest index of co_pool in use
  MaxNesting,     \* threads in a resume chain before Lua's C stack limit
  ScriptsQuit,    \* scripts call server.quit
  ScriptsWake     \* scripts resume a coroutine that async returned

ASSUME BoundsOK ==
  /\ MaxCoroutines \in Nat /\ MaxTasks \in Nat /\ MaxSessions \in Nat
  /\ PoolSlots \in Nat /\ MaxNesting \in Nat
  /\ ScriptsQuit \in BOOLEAN /\ ScriptsWake \in BOOLEAN

MainThread == 0
Coroutines == 1..MaxCoroutines
LuaThreads == {MainThread} \cup Coroutines
Tasks      == 1..MaxTasks
Idle       == 0     \* no task
Nil        == 0     \* an empty slot of co_pool
Closed     == -1    \* the `false` that quit leaves in the session table

VARIABLES
  chain,     \* the threads in the order they resumed each other
  state,     \* of each coroutine: unborn, suspended, active, dead
  work,      \* the task each coroutine is in, Idle in routine's own yield
  pool,      \* co_pool, a weak table: its slots 1..PoolSlots
  sessions,  \* sessionid_coroutine, indexed by session id; its length is uid
  kept,      \* coroutines whose handle the script has kept
  asked,     \* tasks passed to async so far, numbered in order
  lost       \* tasks whose async returned without having started them

vars == <<chain, state, work, pool, sessions, kept, asked, lost>>

TypeOK ==
  /\ chain \in Seq(LuaThreads)
  /\ state \in [Coroutines -> {"unborn", "suspended", "active", "dead"}]
  /\ work \in [Coroutines -> Tasks \cup {Idle}]
  /\ pool \in [1..PoolSlots -> Coroutines \cup {Nil}]
  /\ sessions \in Seq(LuaThreads \cup {Closed})
  /\ kept \subseteq Coroutines
  /\ asked \in 0..MaxTasks
  /\ lost \subseteq Tasks

Init ==
  /\ chain = <<MainThread>>
  /\ state = [co \in Coroutines |-> "unborn"]
  /\ work = [co \in Coroutines |-> Idle]
  /\ pool = [i \in 1..PoolSlots |-> Nil]
  /\ sessions = <<>>
  /\ kept = {}
  /\ asked = 0
  /\ lost = {}

-----------------------------------------------------------------------------
Alive   == chain # <<>>
Running == chain[Len(chain)]
Resumer == SubSeq(chain, 1, Len(chain) - 1)
OnCoroutine == Alive /\ Running # MainThread

(* The values `#co_pool` may have: in a table with holes, which the         *)
(* collector makes, any index that is followed by an empty slot.            *)
Borders ==
  {b \in 0..PoolSlots : /\ b = 0 \/ pool[b] # Nil
                        /\ b = PoolSlots \/ pool[b + 1] = Nil}

Fresh(co) == state[co] = "unborn" /\ \A d \in Coroutines : d < co => state[d] # "unborn"

(* Variant: the coroutine is not removed from the pool. *)
TakeCoroutineShared(co) ==
  \E b \in Borders :
    \/ b # 0 /\ co = pool[b] /\ UNCHANGED pool
    \/ b = 0 /\ Fresh(co) /\ UNCHANGED pool

(* table.remove(co_pool) or coroutine.create(routine): the coroutine async   *)
(* gets and what becomes of the pool.                                       *)
TakeCoroutine(co) ==
  \E b \in Borders :
    \/ b # 0 /\ co = pool[b] /\ pool' = [pool EXCEPT ![b] = Nil]
    \/ b = 0 /\ Fresh(co) /\ UNCHANGED pool

(* coroutine.resume(co, fn) runs fn if the coroutine is new or waits in      *)
(* routine's yield.  One that is suspended inside a task goes on with it and *)
(* takes fn for the result of its yield; one that is active or dead, or any  *)
(* when the chain is too long, is not resumed, and the `false` that resume   *)
(* returns is ignored.                                                      *)
Resumable(co) == state[co] \in {"unborn", "suspended"} /\ Len(chain) < MaxNesting
StartsTask(co) == Resumable(co) /\ work[co] = Idle

(* server.async(fn), called by the running thread. *)
Async(co) ==
  LET t == asked + 1
  IN /\ Alive /\ asked < MaxTasks
     /\ TakeCoroutine(co)
     /\ asked' = t
     /\ work' = IF StartsTask(co) THEN [work EXCEPT ![co] = t] ELSE work
     /\ lost' = IF StartsTask(co) THEN lost ELSE lost \cup {t}
     /\ state' = [state EXCEPT ![co] = IF Resumable(co) THEN "active"
                                       ELSE IF @ = "unborn" THEN "suspended" ELSE @]
     /\ chain' = IF Resumable(co) THEN Append(chain, co) ELSE chain
     /\ kept' \in {kept, kept \cup {co}}
     /\ UNCHANGED sessions

(* A task yields: its coroutine is suspended inside the task. *)
Yield ==
  /\ OnCoroutine
  /\ state' = [state EXCEPT ![Running] = "suspended"]
  /\ chain' = Resumer
  /\ UNCHANGED <<work, pool, sessions, kept, asked, lost>>

(* Variant: invoke stores at the border, not after it. *)
FinishTaskAtBorder ==
  /\ OnCoroutine
  /\ \E b \in Borders : pool' = [pool EXCEPT ![IF b = 0 THEN 1 ELSE b] = Running]
  /\ state' = [state EXCEPT ![Running] = "suspended"]
  /\ work' = [work EXCEPT ![Running] = Idle]
  /\ chain' = Resumer
  /\ UNCHANGED <<sessions, kept, asked, lost>>

(* The function returns: invoke puts the coroutine into the pool, after the *)
(* border, and routine yields.                                              *)
FinishTask ==
  /\ OnCoroutine
  /\ \E b \in Borders : b < PoolSlots /\ pool' = [pool EXCEPT ![b + 1] = Running]
  /\ state' = [state EXCEPT ![Running] = "suspended"]
  /\ work' = [work EXCEPT ![Running] = Idle]
  /\ chain' = Resumer
  /\ UNCHANGED <<sessions, kept, asked, lost>>

(* What coroutine.close does to the suspended or dead coroutines of a set.  *)
Close(cos) ==
  /\ state' = [co \in Coroutines |-> IF co \in cos THEN "dead" ELSE state[co]]
  /\ work' = [co \in Coroutines |-> IF co \in cos THEN Idle ELSE work[co]]

(* An error, raised after the coroutines of `closed` were closed: a pcall   *)
(* of the script catches it, or it ends the running coroutine or the chunk. *)
RaiseError(closed) ==
  \/ Close(closed) /\ UNCHANGED chain
  \/ Close(closed \cup {Running}) /\ chain' = Resumer

FailTask ==
  /\ OnCoroutine
  /\ Close({Running}) /\ chain' = Resumer
  /\ UNCHANGED <<pool, sessions, kept, asked, lost>>

(* The chunk that LuaService::init loaded returns or fails. *)
FinishChunk ==
  /\ Alive /\ Running = MainThread
  /\ chain' = <<>>
  /\ UNCHANGED <<state, work, pool, sessions, kept, asked, lost>>

(* coroutine.resume(co, false, ...) on a kept handle, as wakeup does.  A    *)
(* coroutine that already waits in routine's yield calls `false` and dies,  *)
(* in the pool if it is there.                                              *)
WakeUp(co) ==
  /\ ScriptsWake /\ Alive
  /\ co \in kept /\ state[co] = "suspended" /\ Resumable(co)
  /\ IF work[co] # Idle
       THEN /\ state' = [state EXCEPT ![co] = "active"]
            /\ chain' = Append(chain, co)
       ELSE /\ state' = [state EXCEPT ![co] = "dead"]
            /\ UNCHANGED chain
  /\ UNCHANGED <<work, pool, sessions, kept, asked, lost>>

(* Variant: an id that quit has set to false is used again. *)
MakeSessionAgain ==
  IF \E k \in DOMAIN sessions : sessions[k] = Closed
    THEN \E k \in DOMAIN sessions :
           sessions[k] = Closed /\ sessions' = [sessions EXCEPT ![k] = Running]
    ELSE sessions' = Append(sessions, Running)

(* server.make_session: uid + 1 is mapped to the running thread. *)
MakeSession == sessions' = Append(sessions, Running)

(* server.new_service: the session is made before core.new_service checks    *)
(* its arguments, and nobody takes it out of the table again.               *)
NewService ==
  /\ Alive /\ Len(sessions) < MaxSessions
  /\ MakeSession
  /\ \/ UNCHANGED <<state, work, chain>>
     \/ RaiseError({})
  /\ UNCHANGED <<pool, kept, asked, lost>>

-----------------------------------------------------------------------------
(* server.quit *)

(* Variant: the check against the running coroutine is left out. *)
OthersWithCaller == {k \in DOMAIN sessions : sessions[k] # Closed}

Others == {k \in DOMAIN sessions : sessions[k] \notin {Closed, Running}}

(* coroutine.close raises an error on a coroutine that is not suspended or  *)
(* dead, and on the main thread while it is normal.                         *)
Closable(k) == sessions[k] # MainThread /\ state[sessions[k]] # "active"

(* Variant: quit sets the entries to nil (no value of the table), not false. *)
CloseSessionsToNil(S) ==
  sessions' = [k \in DOMAIN sessions |-> IF k \in S THEN Closed - 1 ELSE sessions[k]]

CloseSessions(S) ==
  sessions' = [k \in DOMAIN sessions |-> IF k \in S THEN Closed ELSE sessions[k]]

Of(S) == {sessions[k] : k \in S}

(* Variant: coroutine.close without its check. *)
QuitUnchecked ==
  /\ ScriptsQuit /\ Alive
  /\ CloseSessions(Others) /\ Close(Of(Others)) /\ UNCHANGED chain
  /\ UNCHANGED <<pool, kept, asked, lost>>

(* quit closes every coroutine in the session table but the running one.    *)
(* `pairs` meets them in any order; at the first that cannot be closed the  *)
(* error leaves quit with the others as they are.                           *)
Quit ==
  /\ ScriptsQuit /\ Alive
  /\ \/ /\ \A k \in Others : Closable(k)
        /\ CloseSessions(Others) /\ Close(Of(Others)) /\ UNCHANGED chain
     \/ /\ \E k \in Others : ~Closable(k)
        /\ \E S \in SUBSET {k \in Others : Closable(k)} :
             CloseSessions(S) /\ RaiseError(Of(S))
  /\ UNCHANGED <<pool, kept, asked, lost>>

(* LuaService::init stops the collector while the chunk runs, but the script *)
(* may call collectgarbage.  It clears slots of the weak co_pool whose      *)
(* coroutine nothing else refers to; others may still be on some stack.     *)
Unreferenced(co) ==
  co \notin kept /\ \A k \in DOMAIN sessions : sessions[k] # co

Collect ==
  /\ Alive
  /\ \E S \in SUBSET {i \in 1..PoolSlots : pool[i] # Nil /\ Unreferenced(pool[i])} :
       /\ S # {}
       /\ pool' = [i \in 1..PoolSlots |-> IF i \in S THEN Nil ELSE pool[i]]
  /\ UNCHANGED <<chain, state, work, sessions, kept, asked, lost>>

-----------------------------------------------------------------------------
Next ==
  \/ \E co \in Coroutines : Async(co) \/ WakeUp(co)
  \/ Yield \/ FinishTask \/ FailTask \/ FinishChunk
  \/ NewService \/ Quit \/ Collect

Spec == Init /\ [][Next]_vars

-----------------------------------------------------------------------------
(* Properties. *)

(* What is in the pool is there once and waits for a task: async never      *)
(* resumes a coroutine that is running or suspended inside another task.    *)
PoolIdle ==
  \A i \in 1..PoolSlots :
    pool[i] # Nil =>
      /\ state[pool[i]] \in {"suspended", "dead"} /\ work[pool[i]] = Idle
      /\ \A j \in 1..PoolSlots : pool[j] = pool[i] => i = j

(* The active coroutines are exactly those of the resume chain, each once,  *)
(* with the main thread first; quit and late wake-ups included, none of     *)
(* them is closed or resumed while it is waiting for one it resumed.        *)
ChainSound ==
  /\ Alive => chain[1] = MainThread
  /\ \A i, j \in 1..Len(chain) : chain[i] = chain[j] => i = j
  /\ Alive => \A co \in Coroutines :
       state[co] = "active" <=> \E i \in 1..Len(chain) : chain[i] = co

(* co_pool is weak: the collector makes holes in it and its length is then  *)
(* any border, at which async removes and invoke stores.  Still no          *)
(* coroutine that waits for a task, and that anything else refers to, falls *)
(* out of the pool.  (Holds below the nesting limit, where async loses the  *)
(* coroutine it has taken and cannot resume.)                               *)
PoolKeepsIdle ==
  \A co \in Coroutines :
    state[co] = "suspended" /\ work[co] = Idle /\ ~Unreferenced(co) =>
      \E i \in 1..PoolSlots : pool[i] = co

(* A session id stays mapped to the coroutine it was made for until quit    *)
(* sets it to false, and is never given out again.                          *)
SessionStable ==
  [][/\ Len(sessions') >= Len(sessions)
     /\ \A k \in DOMAIN sessions : sessions'[k] \in {sessions[k], Closed}]_vars

(* A quit that meets no thread waiting for one it resumed, that is, no        *)
(* thread below the caller in its resume chain, closes all the others: what *)
(* stops it half-way is nothing else.                                       *)
Waiting == {chain[i] : i \in 1..(Len(chain) - 1)}

QuitClosesUnlessNested ==
  [][Quit /\ (\A k \in DOMAIN sessions : sessions[k] \notin Waiting) =>
       /\ chain' = chain
       /\ \A k \in DOMAIN sessions : sessions'[k] \in {Closed, Running}
       /\ \A k \in Others : state'[sessions[k]] = "dead"]_vars

(* The pool behind async, weak and with holes, keeps the promise of a pool.  *)
PoolMembers == {pool[i] : i \in 1..PoolSlots} \ {Nil}
Born == {co \in Coroutines : state[co] # "unborn"}

Pool == INSTANCE CoroutinePool WITH made <- Born, free <- PoolMembers, task <- work

(* Whatever the scripts do, whatever the collector clears and wherever in    *)
(* co_pool async removes and invoke stores: a function goes to a coroutine  *)
(* that is new or has returned from its last one, and never to one that has *)
(* failed, was closed in a task or fell out of the pool.                    *)
PoolPromise == Pool!Safe

(* async ignores that a resume is refused.  It may lose a function so only   *)
(* at the limit of nested resumes, or on a coroutine that quit or a late    *)
(* wake-up has killed in the pool: never because the pool gave it a         *)
(* coroutine that is running, waiting or inside another task.               *)
LossExplained ==
  [][lost' # lost =>
       \E co \in Coroutines :
         Async(co) /\ (Len(chain) >= MaxNesting \/ state[co] = "dead")]_vars

(* service.lua:32 says of the resume in async that it starts the function:  *)
(* no call of async may return without having started it.                   *)
AsyncStarts == lost = {}

(* service.lua:60 says of quit that it closes the services other than the   *)
(* current coroutine: a quit that closes any leaves none but its caller.    *)
QuitClosesRest ==
  [][Quit /\ sessions' # sessions =>
       \A k \in DOMAIN sessions : sessions'[k] \in {Closed, Running}]_vars

=============================================================================
