-------------------------- MODULE ServiceLuaProofs --------------------------
(* The coroutine pool, the resume chain and the session table of            *)
(* ServiceLua, for any number of coroutines, tasks, sessions and pool slots. *)
EXTENDS ServiceLua, SequenceTheorems, FiniteSetTheorems, TLAPS

-----------------------------------------------------------------------------
(* The resume chain, taken apart. *)

OnChain(co) == \E i \in 1..Len(chain) : chain[i] = co

ChainDistinct == \A i, j \in 1..Len(chain) : chain[i] = chain[j] => i = j
ChainRooted   == Alive => chain[1] = MainThread
ActiveOnChain == Alive => \A co \in Coroutines : state[co] = "active" <=> OnChain(co)

LEMMA ChainParts == ChainSound <=> ChainRooted /\ ChainDistinct /\ ActiveOnChain
  BY DEF ChainSound, ChainRooted, ChainDistinct, ActiveOnChain, OnChain

LEMMA RunningFacts ==
  ASSUME TypeOK, Alive
  PROVE  /\ Len(chain) \in Nat \ {0}
         /\ Running \in LuaThreads
         /\ OnChain(Running)
         /\ Running # MainThread => Running \in Coroutines
<1>1. chain \in Seq(LuaThreads) /\ chain # <<>>
  BY DEF TypeOK, Alive
<1>2. Len(chain) \in Nat \ {0} /\ Len(chain) \in 1..Len(chain)
  BY <1>1
<1>3. Running \in LuaThreads /\ OnChain(Running)
  BY <1>1, <1>2 DEF Running, OnChain
<1> QED
  BY <1>2, <1>3 DEF LuaThreads

(* Leaving the running thread. *)
LEMMA Popped ==
  ASSUME TypeOK, ChainSound, Alive, chain' = Resumer
  PROVE  /\ chain' \in Seq(LuaThreads)
         /\ ChainRooted' /\ ChainDistinct'
         /\ \A co : OnChain(co)' <=> OnChain(co) /\ co # Running
<1>1. chain \in Seq(LuaThreads) /\ chain # <<>> /\ Len(chain) \in Nat \ {0}
  BY RunningFacts DEF TypeOK, Alive
<1>2. /\ chain' \in Seq(LuaThreads) /\ Len(chain') = Len(chain) - 1
      /\ \A i \in 1..(Len(chain) - 1) : chain'[i] = chain[i]
  <2>1. Len(chain) - 1 \in Int /\ \A i \in 1..(Len(chain) - 1) : chain[i] \in LuaThreads
    BY <1>1
  <2>2. /\ Resumer \in Seq(LuaThreads)
        /\ Len(Resumer) = IF 1 <= Len(chain) - 1 THEN (Len(chain) - 1) - 1 + 1 ELSE 0
        /\ \A i \in 1..((Len(chain) - 1) - 1 + 1) : Resumer[i] = chain[1 + i - 1]
    BY <2>1, SubSeqProperties DEF Resumer
  <2>3. Len(Resumer) = Len(chain) - 1
    <3>1. PICK n \in Nat : n = Len(chain) - 1
      BY <1>1
    <3>2. Len(Resumer) = IF 1 <= n THEN n - 1 + 1 ELSE 0
      BY <2>2, <3>1
    <3>3. Len(Resumer) = n
      BY <3>2
    <3> QED
      BY <3>1, <3>3
  <2>4. (Len(chain) - 1) - 1 + 1 = Len(chain) - 1
    BY <1>1
  <2>5. \A i \in 1..(Len(chain) - 1) : Resumer[i] = chain[i]
    <3> SUFFICES ASSUME NEW i \in 1..(Len(chain) - 1) PROVE Resumer[i] = chain[i]
      OBVIOUS
    <3>1. Resumer[i] = chain[1 + i - 1]
      BY <2>2, <2>4
    <3>2. 1 + i - 1 = i
      OBVIOUS
    <3> QED
      BY <3>1, <3>2
  <2> QED
    BY <2>2, <2>3, <2>5
<1>3. ChainRooted'
  BY <1>1, <1>2 DEF ChainRooted, ChainSound, Alive
<1>4. ChainDistinct'
  BY <1>1, <1>2 DEF ChainDistinct, ChainSound
<1>5. ASSUME NEW co
      PROVE  OnChain(co)' <=> OnChain(co) /\ co # Running
  <2>1. \A i \in 1..Len(chain) : i \in 1..(Len(chain) - 1) <=> chain[i] # Running
    BY <1>1 DEF ChainSound, Running
  <2>2. OnChain(co)' <=> \E i \in 1..(Len(chain) - 1) : chain[i] = co
    BY <1>2 DEF OnChain
  <2> QED
    BY <1>1, <2>1, <2>2 DEF OnChain
<1> QED
  BY <1>2, <1>3, <1>4, <1>5

(* Resuming a thread that is not in the chain. *)
LEMMA Pushed ==
  ASSUME TypeOK, ChainSound, Alive, NEW d \in Coroutines, ~OnChain(d),
         chain' = Append(chain, d)
  PROVE  /\ chain' \in Seq(LuaThreads)
         /\ ChainRooted' /\ ChainDistinct' /\ Alive'
         /\ \A co : OnChain(co)' <=> OnChain(co) \/ co = d
<1>1. chain \in Seq(LuaThreads) /\ Len(chain) \in Nat \ {0} /\ d \in LuaThreads
  BY RunningFacts DEF TypeOK, LuaThreads
<1>2. /\ chain' \in Seq(LuaThreads) /\ Len(chain') = Len(chain) + 1
      /\ chain'[Len(chain) + 1] = d
      /\ \A i \in 1..Len(chain) : chain'[i] = chain[i]
  BY <1>1
<1>3. ChainRooted' /\ Alive'
  BY <1>1, <1>2 DEF ChainRooted, ChainSound, Alive
<1>4. \A i \in 1..(Len(chain) + 1) : i \in 1..Len(chain) \/ i = Len(chain) + 1
  BY <1>1
<1>5. ChainDistinct'
  BY <1>1, <1>2, <1>4 DEF ChainDistinct, ChainSound, OnChain
<1>6. \A co : OnChain(co)' <=> OnChain(co) \/ co = d
  BY <1>1, <1>2, <1>4 DEF OnChain
<1> QED
  BY <1>2, <1>3, <1>5, <1>6

-----------------------------------------------------------------------------
(* The pool. *)

(* A coroutine the pool gives is idle, and leaves the pool. *)
UnbornIdle == \A co \in Coroutines : state[co] = "unborn" => work[co] = Idle

LuaInv == TypeOK /\ ChainSound /\ PoolIdle /\ UnbornIdle

InPool(co) == \E i \in 1..PoolSlots : pool[i] = co

LEMMA Taken ==
  ASSUME LuaInv, NEW co \in Coroutines, TakeCoroutine(co)
  PROVE  /\ pool' \in [1..PoolSlots -> Coroutines \cup {Nil}]
         /\ work[co] = Idle
         /\ state[co] = "unborn" \/ (InPool(co) /\ state[co] \in {"suspended", "dead"})
         /\ \A i \in 1..PoolSlots : pool'[i] = IF pool[i] = co THEN Nil ELSE pool[i]
<1> USE DEF LuaInv
<1>1. PICK b \in Borders :
        \/ b # 0 /\ co = pool[b] /\ pool' = [pool EXCEPT ![b] = Nil]
        \/ b = 0 /\ Fresh(co) /\ UNCHANGED pool
  BY DEF TakeCoroutine
<1>2. pool \in [1..PoolSlots -> Coroutines \cup {Nil}] /\ PoolSlots \in Nat /\ co # Nil
  BY BoundsOK DEF TypeOK, Coroutines, Nil
<1>3. CASE b # 0 /\ co = pool[b] /\ pool' = [pool EXCEPT ![b] = Nil]
  <2>1. b \in 1..PoolSlots
    BY <1>2, <1>3 DEF Borders
  <2> QED
    BY <1>2, <1>3, <2>1 DEF PoolIdle, InPool
<1>4. CASE Fresh(co) /\ UNCHANGED pool
  BY <1>2, <1>4 DEF Fresh, UnbornIdle, PoolIdle
<1> QED
  BY <1>1, <1>3, <1>4

(* invoke stores at an empty slot. *)
LEMMA Stored ==
  ASSUME TypeOK, NEW b \in Borders, b < PoolSlots, NEW d \in Coroutines,
         pool' = [pool EXCEPT ![b + 1] = d]
  PROVE  /\ pool' \in [1..PoolSlots -> Coroutines \cup {Nil}]
         /\ b + 1 \in 1..PoolSlots /\ pool[b + 1] = Nil
         /\ \A i \in 1..PoolSlots : pool'[i] = IF i = b + 1 THEN d ELSE pool[i]
<1>1. b \in 0..PoolSlots /\ PoolSlots \in Nat
  BY BoundsOK DEF Borders
<1>2. b + 1 \in 1..PoolSlots /\ b # PoolSlots
  BY <1>1
<1> QED
  BY <1>2 DEF TypeOK, Borders

-----------------------------------------------------------------------------
(* Preservation.  What is said of the chain, the coroutines and the pool:   *)

CoreOK ==
  /\ chain \in Seq(LuaThreads)
  /\ state \in [Coroutines -> {"unborn", "suspended", "active", "dead"}]
  /\ work \in [Coroutines -> Tasks \cup {Idle}]
  /\ pool \in [1..PoolSlots -> Coroutines \cup {Nil}]
  /\ ChainSound /\ PoolIdle /\ UnbornIdle

(* Closing coroutines that are not waiting for one they resumed, and the    *)
(* running one if the chain is left to its resumer.                         *)
LEMMA Closing ==
  ASSUME LuaInv, Alive, NEW cos, Close(cos), pool' = pool,
         \A co \in Coroutines : co \in cos => state[co] # "active" \/ co = Running,
         \/ chain' = chain /\ Running \notin cos
         \/ chain' = Resumer /\ Running \in cos
  PROVE  CoreOK'
<1>1. /\ state' \in [Coroutines -> {"unborn", "suspended", "active", "dead"}]
      /\ work' \in [Coroutines -> Tasks \cup {Idle}]
      /\ pool' \in [1..PoolSlots -> Coroutines \cup {Nil}]
      /\ \A co \in Coroutines :
           /\ state'[co] = IF co \in cos THEN "dead" ELSE state[co]
           /\ work'[co] = IF co \in cos THEN Idle ELSE work[co]
  BY DEF Close, LuaInv, TypeOK
<1>2. PoolIdle' /\ UnbornIdle'
  BY <1>1 DEF LuaInv, PoolIdle, UnbornIdle, TypeOK
<1>3. /\ chain' \in Seq(LuaThreads) /\ ChainRooted' /\ ChainDistinct'
      /\ \A co \in Coroutines : OnChain(co)' <=> OnChain(co) /\ co \notin cos
  <2>1. \A co \in Coroutines : OnChain(co) /\ co \in cos => co = Running
    BY ChainParts DEF ActiveOnChain, LuaInv
  <2>2. CASE chain' = chain /\ Running \notin cos
    BY <2>1, <2>2, ChainParts DEF LuaInv, TypeOK, ChainRooted, ChainDistinct, OnChain, Alive
  <2>3. CASE chain' = Resumer /\ Running \in cos
    BY <2>1, <2>3, Popped DEF LuaInv
  <2> QED
    BY <2>2, <2>3
<1>4. ActiveOnChain'
  BY <1>1, <1>3, ChainParts DEF ActiveOnChain, LuaInv
<1>5. ChainSound'
  BY <1>3, <1>4 DEF ChainSound, ChainRooted, ChainDistinct, ActiveOnChain, OnChain, Alive
<1> QED
  BY <1>1, <1>2, <1>3, <1>5 DEF CoreOK

(* Resuming an idle coroutine for a task, or one suspended in its task. *)
LEMMA Resuming ==
  ASSUME LuaInv, Alive, NEW co \in Coroutines, state[co] # "active",
         state' = [state EXCEPT ![co] = "active"], chain' = Append(chain, co),
         work' \in [Coroutines -> Tasks \cup {Idle}],
         \A d \in Coroutines \ {co} : work'[d] = work[d],
         pool' \in [1..PoolSlots -> Coroutines \cup {Nil}],
         \A i \in 1..PoolSlots : pool'[i] = IF pool[i] = co THEN Nil ELSE pool[i]
  PROVE  CoreOK'
<1>1. /\ state' \in [Coroutines -> {"unborn", "suspended", "active", "dead"}]
      /\ \A d \in Coroutines : state'[d] = IF d = co THEN "active" ELSE state[d]
  BY DEF LuaInv, TypeOK
<1>2. PoolIdle' /\ UnbornIdle'
  BY <1>1, BoundsOK DEF LuaInv, PoolIdle, UnbornIdle, TypeOK, Coroutines, Nil
<1>3. ~OnChain(co)
  BY ChainParts DEF ActiveOnChain, LuaInv
<1>4. /\ chain' \in Seq(LuaThreads) /\ ChainRooted' /\ ChainDistinct'
      /\ \A d : OnChain(d)' <=> OnChain(d) \/ d = co
  BY <1>3, Pushed DEF LuaInv
<1>5. ActiveOnChain'
  BY <1>1, <1>4, ChainParts DEF ActiveOnChain, LuaInv
<1>6. ChainSound'
  BY <1>4, <1>5 DEF ChainSound, ChainRooted, ChainDistinct, ActiveOnChain, OnChain, Alive
<1> QED
  BY <1>1, <1>2, <1>4, <1>6 DEF CoreOK

(* The running coroutine suspends itself, inside its task or, stored in the *)
(* pool, after it.                                                          *)
LEMMA Suspending ==
  ASSUME LuaInv, OnCoroutine,
         state' = [state EXCEPT ![Running] = "suspended"], chain' = Resumer,
         \/ UNCHANGED <<work, pool>>
         \/ /\ work' = [work EXCEPT ![Running] = Idle]
            /\ \E b \in Borders : b < PoolSlots /\ pool' = [pool EXCEPT ![b + 1] = Running]
  PROVE  CoreOK'
<1>1. PICK d \in Coroutines : d = Running
  BY RunningFacts DEF OnCoroutine, LuaInv
<1>2. /\ state' \in [Coroutines -> {"unborn", "suspended", "active", "dead"}]
      /\ \A e \in Coroutines : state'[e] = IF e = d THEN "suspended" ELSE state[e]
  BY <1>1 DEF LuaInv, TypeOK
<1>3. /\ chain' \in Seq(LuaThreads) /\ ChainRooted' /\ ChainDistinct'
      /\ \A co : OnChain(co)' <=> OnChain(co) /\ co # d
  BY <1>1, Popped DEF LuaInv, OnCoroutine
<1>4. ActiveOnChain'
  BY <1>2, <1>3, ChainParts DEF ActiveOnChain, LuaInv, OnCoroutine
<1>5. ChainSound'
  BY <1>3, <1>4 DEF ChainSound, ChainRooted, ChainDistinct, ActiveOnChain, OnChain, Alive
<1>6. state[d] = "active"
  BY <1>1, RunningFacts, ChainParts DEF ActiveOnChain, LuaInv, OnCoroutine
<1>7. \A i \in 1..PoolSlots : pool[i] # d
  BY <1>6, BoundsOK DEF LuaInv, PoolIdle, Coroutines, Nil
<1>8. CASE UNCHANGED <<work, pool>>
  <2>1. PoolIdle' /\ UnbornIdle'
    BY <1>2, <1>7, <1>8 DEF LuaInv, PoolIdle, UnbornIdle
  <2> QED
    BY <1>2, <1>3, <1>5, <1>8, <2>1 DEF CoreOK, LuaInv, TypeOK
<1>9. ASSUME NEW b \in Borders, b < PoolSlots, pool' = [pool EXCEPT ![b + 1] = d],
             work' = [work EXCEPT ![d] = Idle]
      PROVE  CoreOK'
  <2>1. /\ work' \in [Coroutines -> Tasks \cup {Idle}]
        /\ \A e \in Coroutines : work'[e] = IF e = d THEN Idle ELSE work[e]
    BY <1>9 DEF LuaInv, TypeOK
  <2>2. /\ pool' \in [1..PoolSlots -> Coroutines \cup {Nil}]
        /\ b + 1 \in 1..PoolSlots
        /\ \A i \in 1..PoolSlots : pool'[i] = IF i = b + 1 THEN d ELSE pool[i]
    BY <1>9, Stored DEF LuaInv
  <2>3. UnbornIdle'
    BY <1>2, <2>1 DEF LuaInv, UnbornIdle
  <2>4. PoolIdle'
    BY <1>2, <1>7, <2>1, <2>2, BoundsOK DEF LuaInv, PoolIdle, TypeOK, Coroutines, Nil
  <2> QED
    BY <1>2, <1>3, <1>5, <2>1, <2>2, <2>3, <2>4 DEF CoreOK
<1> QED
  BY <1>1, <1>8, <1>9

(* A resume that is refused leaves a new coroutine suspended, outside the   *)
(* pool.                                                                    *)
LEMMA NotResuming ==
  ASSUME LuaInv, NEW co \in Coroutines, state[co] # "active", work[co] = Idle,
         state' = [state EXCEPT ![co] = IF @ = "unborn" THEN "suspended" ELSE @],
         UNCHANGED <<chain, work>>,
         pool' \in [1..PoolSlots -> Coroutines \cup {Nil}],
         \A i \in 1..PoolSlots : pool'[i] = IF pool[i] = co THEN Nil ELSE pool[i]
  PROVE  CoreOK'
<1>1. /\ state' \in [Coroutines -> {"unborn", "suspended", "active", "dead"}]
      /\ \A d \in Coroutines : state'[d] = "active" <=> state[d] = "active"
      /\ \A d \in Coroutines \ {co} : state'[d] = state[d]
      /\ state'[co] # "unborn"
  BY DEF LuaInv, TypeOK
<1>2. PoolIdle' /\ UnbornIdle'
  BY <1>1, BoundsOK DEF LuaInv, PoolIdle, UnbornIdle, TypeOK, Coroutines, Nil
<1>3. ChainSound'
  BY <1>1 DEF LuaInv, ChainSound, Alive
<1> QED
  BY <1>1, <1>2, <1>3 DEF CoreOK, LuaInv, TypeOK

-----------------------------------------------------------------------------
(* The steps. *)

BookOK ==
  /\ sessions \in Seq(LuaThreads \cup {Closed})
  /\ kept \subseteq Coroutines
  /\ asked \in 0..MaxTasks
  /\ lost \subseteq Tasks

LEMMA WholeNext == CoreOK' /\ BookOK' => LuaInv'
  BY DEF CoreOK, BookOK, LuaInv, TypeOK

LEMMA AsyncKeeps ==
  ASSUME LuaInv, NEW co \in Coroutines, Async(co)
  PROVE  LuaInv'
<1>1. /\ pool' \in [1..PoolSlots -> Coroutines \cup {Nil}]
      /\ work[co] = Idle /\ state[co] # "active"
      /\ \A i \in 1..PoolSlots : pool'[i] = IF pool[i] = co THEN Nil ELSE pool[i]
  BY Taken DEF Async
<1>2. asked + 1 \in Tasks /\ asked + 1 \in 0..MaxTasks
  BY BoundsOK DEF Async, LuaInv, TypeOK, Tasks
<1>3. BookOK'
  BY <1>2 DEF Async, BookOK, LuaInv, TypeOK
<1>4. CASE Resumable(co)
  <2>1. work' = [work EXCEPT ![co] = asked + 1]
    BY <1>1, <1>4 DEF Async, StartsTask
  <2>2. /\ work' \in [Coroutines -> Tasks \cup {Idle}]
        /\ \A d \in Coroutines \ {co} : work'[d] = work[d]
    BY <1>2, <2>1 DEF LuaInv, TypeOK
  <2>3. Alive /\ state' = [state EXCEPT ![co] = "active"] /\ chain' = Append(chain, co)
    BY <1>4 DEF Async
  <2> QED
    BY <1>1, <1>3, <2>2, <2>3, Resuming, WholeNext
<1>5. CASE ~Resumable(co)
  <2>1. UNCHANGED <<chain, work>>
    BY <1>5 DEF Async, StartsTask
  <2>2. state' = [state EXCEPT ![co] = IF @ = "unborn" THEN "suspended" ELSE @]
    BY <1>5 DEF Async
  <2> QED
    BY <1>1, <1>3, <2>1, <2>2, NotResuming, WholeNext
<1> QED
  BY <1>4, <1>5

LEMMA WakeKeeps ==
  ASSUME LuaInv, NEW co \in Coroutines, WakeUp(co)
  PROVE  LuaInv'
<1>1. BookOK' /\ Alive /\ UNCHANGED <<work, pool>> /\ state[co] = "suspended"
  BY DEF WakeUp, BookOK, LuaInv, TypeOK
<1>2. CASE work[co] # Idle
  <2>1. state' = [state EXCEPT ![co] = "active"] /\ chain' = Append(chain, co)
    BY <1>2 DEF WakeUp
  <2>2. \A i \in 1..PoolSlots : pool'[i] = IF pool[i] = co THEN Nil ELSE pool[i]
    BY <1>1, <1>2, BoundsOK DEF LuaInv, PoolIdle, Coroutines, Nil
  <2> QED
    BY <1>1, <2>1, <2>2, Resuming, WholeNext DEF LuaInv, TypeOK
<1>3. CASE work[co] = Idle
  <2>1. state' = [state EXCEPT ![co] = "dead"] /\ chain' = chain
    BY <1>3 DEF WakeUp
  <2>2. Close({co})
    BY <1>1, <1>3, <2>1 DEF Close, LuaInv, TypeOK
  <2>3. Running # co
    BY <1>1, RunningFacts, ChainParts DEF ActiveOnChain, LuaInv
  <2> QED
    BY <1>1, <2>1, <2>2, <2>3, Closing, WholeNext
<1> QED
  BY <1>2, <1>3

LEMMA SuspendKeeps == LuaInv /\ (Yield \/ FinishTask) => LuaInv'
<1> SUFFICES ASSUME LuaInv, Yield \/ FinishTask PROVE LuaInv'
  OBVIOUS
<1>1. BookOK'
  BY DEF Yield, FinishTask, BookOK, LuaInv, TypeOK
<1>2. CoreOK'
  BY Suspending DEF Yield, FinishTask
<1> QED
  BY <1>1, <1>2, WholeNext

(* An error, with coroutines closed before it. *)
LEMMA RaiseKeeps ==
  ASSUME LuaInv, Alive, NEW closed \in SUBSET Coroutines, RaiseError(closed), pool' = pool,
         Running \notin closed, \A co \in closed : state[co] # "active"
  PROVE  CoreOK'
<1>1. CASE Close(closed) /\ UNCHANGED chain
  BY <1>1, Closing
<1>2. CASE Close(closed \cup {Running}) /\ chain' = Resumer
  <2>1. \A co \in Coroutines : co \in closed \cup {Running} => state[co] # "active" \/ co = Running
    OBVIOUS
  <2>2. Running \in closed \cup {Running}
    OBVIOUS
  <2>3. PICK cos : cos = closed \cup {Running}
    OBVIOUS
  <2> QED
    BY <1>2, <2>1, <2>2, <2>3, Closing
<1> QED
  BY <1>1, <1>2 DEF RaiseError

LEMMA FailKeeps == LuaInv /\ (FailTask \/ FinishChunk) => LuaInv'
<1>1. ASSUME LuaInv, FailTask
      PROVE  LuaInv'
  <2>1. BookOK' /\ pool' = pool /\ Alive /\ chain' = Resumer /\ Close({Running})
    BY <1>1 DEF FailTask, OnCoroutine, BookOK, LuaInv, TypeOK
  <2>2. CoreOK'
    BY <1>1, <2>1, Closing
  <2> QED
    BY <2>1, <2>2, WholeNext
<1>2. ASSUME LuaInv, FinishChunk
      PROVE  LuaInv'
  <2>1. ChainSound' /\ chain' \in Seq(LuaThreads)
    BY <1>2 DEF FinishChunk, ChainSound, Alive
  <2> QED
    BY <1>2, <2>1 DEF FinishChunk, LuaInv, TypeOK, PoolIdle, UnbornIdle
<1> QED
  BY <1>1, <1>2

LEMMA NewServiceKeeps == LuaInv /\ NewService => LuaInv'
<1> SUFFICES ASSUME LuaInv, NewService PROVE LuaInv'
  OBVIOUS
<1>1. Running \in LuaThreads /\ pool' = pool /\ Alive
  BY RunningFacts DEF NewService, LuaInv
<1>2. BookOK'
  BY <1>1 DEF NewService, MakeSession, BookOK, LuaInv, TypeOK
<1>3. CASE UNCHANGED <<state, work, chain>>
  BY <1>1, <1>2, <1>3, WholeNext
     DEF CoreOK, LuaInv, TypeOK, ChainSound, Alive, PoolIdle, UnbornIdle
<1>4. CASE RaiseError({})
  BY <1>1, <1>2, <1>4, RaiseKeeps, WholeNext
<1> QED
  BY <1>3, <1>4 DEF NewService

(* quit closes coroutines that are neither running nor active. *)
LEMMA QuitKeeps == LuaInv /\ Quit => LuaInv'
<1> SUFFICES ASSUME LuaInv, Quit PROVE LuaInv'
  OBVIOUS
<1>1. Alive /\ pool' = pool /\ UNCHANGED <<kept, asked, lost>>
  BY DEF Quit
<1>2. PICK S \in SUBSET Others :
        /\ \A k \in S : Closable(k)
        /\ CloseSessions(S)
        /\ RaiseError(Of(S)) \/ (Close(Of(S)) /\ UNCHANGED chain)
  <2>1. CASE /\ \A k \in Others : Closable(k)
            /\ CloseSessions(Others) /\ Close(Of(Others)) /\ UNCHANGED chain
    BY <2>1
  <2>2. CASE \E S \in SUBSET {k \in Others : Closable(k)} :
               CloseSessions(S) /\ RaiseError(Of(S))
    BY <2>2
  <2> QED
    BY <2>1, <2>2 DEF Quit
<1>3. /\ Of(S) \subseteq Coroutines /\ Running \notin Of(S)
      /\ \A co \in Of(S) : state[co] # "active"
  <2>1. \A k \in Others : sessions[k] \in LuaThreads /\ sessions[k] # Running
    BY DEF Others, LuaInv, TypeOK
  <2> QED
    BY <1>2, <2>1 DEF Of, Closable, LuaThreads
<1>4. CoreOK'
  BY <1>1, <1>2, <1>3, RaiseKeeps DEF RaiseError
<1>5. BookOK'
  BY <1>1, <1>2 DEF CloseSessions, BookOK, LuaInv, TypeOK
<1> QED
  BY <1>4, <1>5, WholeNext

LEMMA CollectKeeps == LuaInv /\ Collect => LuaInv'
<1> SUFFICES ASSUME LuaInv, Collect PROVE LuaInv'
  OBVIOUS
<1>1. PICK S \in SUBSET (1..PoolSlots) :
        pool' = [i \in 1..PoolSlots |-> IF i \in S THEN Nil ELSE pool[i]]
  BY DEF Collect
<1>2. /\ pool' \in [1..PoolSlots -> Coroutines \cup {Nil}]
      /\ \A i \in 1..PoolSlots : pool'[i] \in {Nil, pool[i]}
  BY <1>1 DEF LuaInv, TypeOK
<1>3. UNCHANGED <<chain, state, work, sessions, kept, asked, lost>>
  BY DEF Collect
<1>4. PoolIdle'
  BY <1>2, <1>3 DEF LuaInv, PoolIdle
<1> QED
  BY <1>2, <1>3, <1>4 DEF LuaInv, TypeOK, ChainSound, Alive, UnbornIdle

LEMMA LuaInit == Init => LuaInv
<1> SUFFICES ASSUME Init PROVE LuaInv
  OBVIOUS
<1>1. chain = <<MainThread>> /\ Len(chain) = 1 /\ chain[1] = MainThread
  BY DEF Init
<1>2. ChainSound
  BY <1>1, BoundsOK DEF Init, ChainSound, Alive, Coroutines, MainThread
<1> QED
  BY <1>2, BoundsOK DEF Init, LuaInv, TypeOK, PoolIdle, UnbornIdle, LuaThreads

LEMMA LuaNext == LuaInv /\ [Next]_vars => LuaInv'
<1> SUFFICES ASSUME LuaInv, [Next]_vars PROVE LuaInv'
  OBVIOUS
<1>1. CASE UNCHANGED vars
  BY <1>1 DEF vars, LuaInv, TypeOK, ChainSound, Alive, PoolIdle, UnbornIdle
<1> QED
  BY <1>1, AsyncKeeps, WakeKeeps, SuspendKeeps, FailKeeps, NewServiceKeeps, QuitKeeps,
     CollectKeeps DEF Next

-----------------------------------------------------------------------------
(* What holds whatever the scripts do. *)

(* The service's state keeps its types: pool, chain and session table hold  *)
(* threads that exist.                                                      *)
THEOREM LuaTypeCorrect == Spec => []TypeOK
<1>1. LuaInv => TypeOK
  BY DEF LuaInv
<1> QED
  BY <1>1, LuaInit, LuaNext, PTL DEF Spec

(* A coroutine in the pool is there once and in no task: async never hands  *)
(* a function to a coroutine that runs or waits inside another one.         *)
THEOREM PoolIsIdle == Spec => []PoolIdle
<1>1. LuaInv => PoolIdle
  BY DEF LuaInv
<1> QED
  BY <1>1, LuaInit, LuaNext, PTL DEF Spec

(* The active coroutines are those of the resume chain, each once: neither  *)
(* quit nor a late wake-up closes or resumes one that waits for another.    *)
THEOREM ChainIsSound == Spec => []ChainSound
<1>1. LuaInv => ChainSound
  BY DEF LuaInv
<1> QED
  BY <1>1, LuaInit, LuaNext, PTL DEF Spec

(* A session id keeps its coroutine until quit sets it to false, and is     *)
(* given out once.                                                          *)
THEOREM SessionsAreStable == Spec => SessionStable
<1>1. LuaInv /\ [Next]_vars =>
        [/\ Len(sessions') >= Len(sessions)
         /\ \A k \in DOMAIN sessions : sessions'[k] \in {sessions[k], Closed}]_vars
  <2> SUFFICES ASSUME LuaInv, Next
               PROVE  /\ Len(sessions') >= Len(sessions)
                      /\ \A k \in DOMAIN sessions : sessions'[k] \in {sessions[k], Closed}
    OBVIOUS
  <2>1. sessions \in Seq(LuaThreads \cup {Closed})
    BY DEF LuaInv, TypeOK
  <2>2. CASE UNCHANGED sessions
    BY <2>1, <2>2
  <2>3. CASE NewService
    <3>1. Running \in LuaThreads /\ sessions' = Append(sessions, Running)
      BY <2>3, RunningFacts DEF NewService, MakeSession, LuaInv
    <3> QED
      BY <2>1, <3>1
  <2>4. ASSUME NEW S, CloseSessions(S)
        PROVE  /\ Len(sessions') >= Len(sessions)
               /\ \A k \in DOMAIN sessions : sessions'[k] \in {sessions[k], Closed}
    <3>1. DOMAIN sessions' = DOMAIN sessions
      BY <2>4 DEF CloseSessions
    <3>2. sessions' \in Seq(LuaThreads \cup {Closed})
      BY <2>1, <2>4 DEF CloseSessions
    <3>3. Len(sessions') = Len(sessions)
      BY <2>1, <3>1, <3>2
    <3> QED
      BY <2>1, <2>4, <3>3 DEF CloseSessions
  <2>5. Quit => \E S : CloseSessions(S)
    BY DEF Quit
  <2> QED
    BY <2>2, <2>3, <2>4, <2>5
       DEF Next, Async, WakeUp, Yield, FinishTask, FailTask, FinishChunk, Collect
<1> QED
  BY <1>1, LuaInit, LuaNext, PTL DEF Spec, SessionStable

-----------------------------------------------------------------------------
(* What holds below the nesting limit.  Each thread of a chain is there     *)
(* once, so a limit beyond the number of threads is never reached.          *)

RoomToNest == MaxCoroutines < MaxNesting

LEMMA ChainHasRoom ==
  ASSUME RoomToNest, LuaInv, Alive, NEW co \in Coroutines,
         state[co] \in {"unborn", "suspended"}
  PROVE  Resumable(co)
<1>1. Len(chain) \in Nat /\ MaxCoroutines \in Nat /\ MaxNesting \in Nat
  BY BoundsOK, RunningFacts DEF LuaInv
<1>2. ~OnChain(co)
  BY ChainParts DEF ActiveOnChain, LuaInv
<1> DEFINE Room == (0..MaxCoroutines) \ {co}
<1>3. IsFiniteSet(Room) /\ Cardinality(Room) = MaxCoroutines
  <2>1. IsFiniteSet(0..MaxCoroutines) /\ Cardinality(0..MaxCoroutines) = MaxCoroutines + 1
    BY <1>1, FS_Interval
  <2>2. co \in 0..MaxCoroutines
    BY <1>1 DEF Coroutines
  <2>3. /\ IsFiniteSet(Room)
        /\ Cardinality(Room) = IF co \in 0..MaxCoroutines
                                 THEN Cardinality(0..MaxCoroutines) - 1
                                 ELSE Cardinality(0..MaxCoroutines)
    BY <2>1, FS_RemoveElement
  <2> HIDE DEF Room
  <2> QED
    BY <1>1, <2>1, <2>2, <2>3
<1>4. chain \in [1..Len(chain) -> Room]
  <2>1. chain \in [1..Len(chain) -> LuaThreads]
    BY DEF LuaInv, TypeOK
  <2>2. LuaThreads \subseteq 0..MaxCoroutines
    BY <1>1 DEF LuaThreads, MainThread, Coroutines
  <2>3. \A i \in 1..Len(chain) : chain[i] \in Room
    BY <1>2, <2>1, <2>2 DEF OnChain
  <2> HIDE DEF Room
  <2> QED
    BY <2>1, <2>3
<1>5. IsFiniteSet(1..Len(chain)) /\ Cardinality(1..Len(chain)) = Len(chain)
  <2>1. PICK n \in Nat : n = Len(chain)
    BY <1>1
  <2>2. IsFiniteSet(1..n) /\ Cardinality(1..n) = IF 1 > n THEN 0 ELSE n - 1 + 1
    BY FS_Interval
  <2>3. IsFiniteSet(1..n) /\ Cardinality(1..n) = n
    BY <2>2
  <2> QED
    BY <2>1, <2>3
<1>6. Len(chain) <= MaxCoroutines
  <2> SUFFICES ASSUME MaxCoroutines < Len(chain) PROVE FALSE
    BY <1>1
  <2> HIDE DEF Room
  <2>1. Cardinality(Room) < Cardinality(1..Len(chain))
    BY <1>3, <1>5
  <2>2. \E i, j \in 1..Len(chain) : i # j /\ chain[i] = chain[j]
    BY <1>3, <1>4, <1>5, <2>1, FS_PigeonHole
  <2> QED
    BY <2>2 DEF LuaInv, ChainSound
<1> QED
  BY <1>1, <1>6 DEF Resumable, RoomToNest

(* A coroutine on the chain is in a task. *)
ActiveBusy == \A co \in Coroutines : state[co] = "active" => work[co] # Idle

LEMMA ActiveBusyNext == LuaInv /\ ActiveBusy /\ [Next]_vars => ActiveBusy'
<1> SUFFICES ASSUME LuaInv, ActiveBusy, [Next]_vars,
                    NEW co \in Coroutines, state'[co] = "active"
             PROVE  work'[co] # Idle
  BY DEF ActiveBusy
<1>a. /\ state \in [Coroutines -> {"unborn", "suspended", "active", "dead"}]
      /\ work \in [Coroutines -> Tasks \cup {Idle}]
  BY DEF LuaInv, TypeOK
<1>1. ASSUME NEW d \in Coroutines, Async(d)
      PROVE  work'[co] # Idle
  <2>1. work[d] = Idle /\ asked + 1 # Idle
    BY <1>1, Taken DEF Async, LuaInv, TypeOK, Idle
  <2> QED
    BY <1>1, <1>a, <2>1 DEF Async, StartsTask, Resumable, ActiveBusy
<1>2. ASSUME NEW d \in Coroutines, WakeUp(d)
      PROVE  work'[co] # Idle
  BY <1>2, <1>a DEF WakeUp, ActiveBusy
<1>3. CASE Yield \/ FinishTask
  <2>1. Running \in Coroutines
    BY <1>3, RunningFacts DEF Yield, FinishTask, OnCoroutine, LuaInv
  <2> QED
    BY <1>3, <1>a, <2>1 DEF Yield, FinishTask, ActiveBusy
<1>4. ASSUME NEW cos, Close(cos)
      PROVE  work'[co] # Idle
  BY <1>4, <1>a DEF Close, ActiveBusy
<1>5. CASE UNCHANGED <<state, work>>
  BY <1>5 DEF ActiveBusy
<1>6. \/ \E d \in Coroutines : Async(d) \/ WakeUp(d)
      \/ Yield \/ FinishTask
      \/ \E cos : Close(cos)
      \/ UNCHANGED <<state, work>>
  BY DEF Next, FailTask, FinishChunk, NewService, Quit, RaiseError, Collect, vars
<1> QED
  BY <1>1, <1>2, <1>3, <1>4, <1>5, <1>6

LEMMA KeepsIdleInit == Init => PoolKeepsIdle /\ ActiveBusy
  BY DEF Init, PoolKeepsIdle, ActiveBusy

LEMMA KeepsIdleNext ==
  ASSUME RoomToNest
  PROVE  LuaInv /\ ActiveBusy /\ PoolKeepsIdle /\ [Next]_vars => PoolKeepsIdle'
<1> SUFFICES ASSUME LuaInv, ActiveBusy, PoolKeepsIdle, [Next]_vars,
                    NEW co \in Coroutines,
                    state'[co] = "suspended", work'[co] = Idle, ~Unreferenced(co)'
             PROVE  InPool(co)'
  BY DEF PoolKeepsIdle, InPool
<1>a. /\ state \in [Coroutines -> {"unborn", "suspended", "active", "dead"}]
      /\ work \in [Coroutines -> Tasks \cup {Idle}]
      /\ sessions \in Seq(LuaThreads \cup {Closed})
  BY DEF LuaInv, TypeOK
<1>b. ASSUME Alive, Running = co
      PROVE  state[co] = "active"
  BY <1>b, RunningFacts, ChainParts DEF ActiveOnChain, LuaInv
<1>1. ASSUME NEW d \in Coroutines, Async(d)
      PROVE  InPool(co)'
  <2>1. /\ \A i \in 1..PoolSlots : pool'[i] = IF pool[i] = d THEN Nil ELSE pool[i]
        /\ work[d] = Idle
        /\ state[d] = "unborn" \/ (InPool(d) /\ state[d] \in {"suspended", "dead"})
    BY <1>1, Taken DEF Async
  <2>2. Alive /\ sessions' = sessions /\ kept' \subseteq kept \cup {d}
    BY <1>1 DEF Async
  <2>3. CASE co = d
    <3>1. state[d] = "dead"
      BY <1>1, <1>a, <2>1, <2>2, <2>3, ChainHasRoom DEF Async
    <3> QED
      BY <1>1, <1>a, <2>3, <3>1 DEF Async, Resumable
  <2>4. CASE co # d
    <3>1. state[co] = "suspended" /\ work[co] = Idle /\ ~Unreferenced(co)
      BY <1>1, <1>a, <2>2, <2>4 DEF Async, Unreferenced
    <3>2. InPool(co)
      BY <3>1 DEF PoolKeepsIdle, InPool
    <3> QED
      BY <2>1, <2>4, <3>2 DEF InPool
  <2> QED
    BY <2>3, <2>4
<1>2. CASE FinishTask
  <2>1. PICK b \in Borders : b < PoolSlots /\ pool' = [pool EXCEPT ![b + 1] = Running]
    BY <1>2 DEF FinishTask
  <2>2. Alive /\ Running \in Coroutines
    BY <1>2, RunningFacts DEF FinishTask, OnCoroutine, LuaInv
  <2>3. /\ b + 1 \in 1..PoolSlots /\ pool[b + 1] = Nil
        /\ \A i \in 1..PoolSlots : pool'[i] = IF i = b + 1 THEN Running ELSE pool[i]
    BY <2>1, <2>2, Stored DEF LuaInv
  <2>4. CASE co = Running
    BY <2>3, <2>4 DEF InPool
  <2>5. CASE co # Running
    <3>1. state[co] = "suspended" /\ work[co] = Idle /\ ~Unreferenced(co)
      BY <1>2, <1>a, <2>5 DEF FinishTask, Unreferenced
    <3>2. InPool(co) /\ co # Nil
      BY <3>1 DEF PoolKeepsIdle, InPool, Coroutines, Nil
    <3> QED
      BY <2>3, <3>2 DEF InPool
  <2> QED
    BY <2>4, <2>5
<1>3. CASE Collect
  <2>1. state[co] = "suspended" /\ work[co] = Idle /\ ~Unreferenced(co)
    BY <1>3 DEF Collect, Unreferenced
  <2>2. PICK i \in 1..PoolSlots : pool[i] = co
    BY <2>1 DEF PoolKeepsIdle
  <2>3. pool'[i] = co
    BY <1>3, <2>1, <2>2 DEF Collect
  <2> QED
    BY <2>3 DEF InPool
<1>4. CASE ~FinishTask /\ ~Collect /\ ~\E d \in Coroutines : Async(d)
  <2>1. pool' = pool /\ kept' = kept
    BY <1>4 DEF Next, WakeUp, Yield, FailTask, FinishChunk, NewService, Quit, vars
  <2>2. state[co] = "suspended" /\ work[co] = Idle
    <3>1. ASSUME NEW cos, Close(cos)
          PROVE  state[co] = "suspended" /\ work[co] = Idle
      BY <1>a, <3>1 DEF Close
    <3>2. CASE Yield
      <4>1. Running \in Coroutines /\ state' = [state EXCEPT ![Running] = "suspended"]
        BY <3>2, RunningFacts DEF Yield, OnCoroutine, LuaInv
      <4>2. co # Running
        BY <1>b, <3>2, <4>1 DEF Yield, OnCoroutine, ActiveBusy
      <4> QED
        BY <1>a, <3>2, <4>1, <4>2 DEF Yield
    <3>3. CASE \E d \in Coroutines : WakeUp(d)
      BY <1>a, <3>3 DEF WakeUp
    <3>4. CASE UNCHANGED <<state, work>>
      BY <3>4
    <3>5. \/ Yield \/ UNCHANGED <<state, work>>
          \/ \E d \in Coroutines : WakeUp(d)
          \/ \E cos : Close(cos)
      BY <1>4 DEF Next, FailTask, FinishChunk, NewService, Quit, RaiseError, vars
    <3> QED
      BY <3>1, <3>2, <3>3, <3>4, <3>5
  <2>3. ~Unreferenced(co)
    <3> SUFFICES ASSUME co \notin kept,
                        NEW k \in DOMAIN sessions', sessions'[k] = co
                 PROVE  \E j \in DOMAIN sessions : sessions[j] = co
      BY <2>1 DEF Unreferenced
    <3>1. ASSUME NewService
          PROVE  Alive /\ sessions' = Append(sessions, Running) /\ co # Running
      BY <1>b, <2>2, <3>1 DEF NewService, MakeSession
    <3>2. CASE NewService
      <4>1. Running \in LuaThreads
        BY <3>1, <3>2, RunningFacts DEF LuaInv
      <4> QED
        BY <1>a, <3>1, <3>2, <4>1
    <3>3. ASSUME NEW S, CloseSessions(S)
          PROVE  \E j \in DOMAIN sessions : sessions[j] = co
      BY <3>3 DEF CloseSessions, Closed, Coroutines
    <3>4. Quit => \E S : CloseSessions(S)
      BY DEF Quit
    <3>5. CASE UNCHANGED sessions
      BY <3>5
    <3>6. NewService \/ Quit \/ UNCHANGED sessions
      BY <1>4 DEF Next, WakeUp, Yield, FailTask, FinishChunk, vars
    <3> QED
      BY <3>2, <3>3, <3>4, <3>5, <3>6
  <2> QED
    BY <2>1, <2>2, <2>3 DEF PoolKeepsIdle, InPool
<1> QED
  BY <1>1, <1>2, <1>3, <1>4

(* No coroutine that waits for a task and that anything else refers to      *)
(* falls out of the weak pool, wherever the collector makes its holes.      *)
THEOREM IdleStaysPooled == RoomToNest => (Spec => []PoolKeepsIdle)
<1> SUFFICES ASSUME RoomToNest PROVE Spec => []PoolKeepsIdle
  OBVIOUS
<1>1. LuaInv /\ ActiveBusy /\ PoolKeepsIdle /\ [Next]_vars => PoolKeepsIdle'
  BY KeepsIdleNext
<1> QED
  BY <1>1, LuaInit, LuaNext, KeepsIdleInit, ActiveBusyNext, PTL DEF Spec

(* No coroutine in the pool is dead, as long as scripts neither quit nor    *)
(* wake coroutines up.                                                      *)
PoolAlive == \A i \in 1..PoolSlots : pool[i] # Nil => state[pool[i]] = "suspended"

LEMMA PoolAliveNext ==
  ASSUME RoomToNest, ~ScriptsQuit, ~ScriptsWake
  PROVE  LuaInv /\ PoolAlive /\ lost = {} /\ [Next]_vars => PoolAlive' /\ lost' = {}
<1> SUFFICES ASSUME LuaInv, PoolAlive, lost = {}, [Next]_vars
             PROVE  PoolAlive' /\ lost' = {}
  OBVIOUS
<1>a. /\ state \in [Coroutines -> {"unborn", "suspended", "active", "dead"}]
      /\ pool \in [1..PoolSlots -> Coroutines \cup {Nil}]
      /\ Nil \notin Coroutines
  BY BoundsOK DEF LuaInv, TypeOK, Coroutines, Nil
<1>1. ASSUME NEW d \in Coroutines, Async(d)
      PROVE  PoolAlive' /\ lost' = {}
  <2>1. /\ \A i \in 1..PoolSlots : pool'[i] = IF pool[i] = d THEN Nil ELSE pool[i]
        /\ work[d] = Idle
        /\ state[d] = "unborn" \/ (InPool(d) /\ state[d] \in {"suspended", "dead"})
    BY <1>1, Taken DEF Async
  <2>2. state[d] \in {"unborn", "suspended"}
    BY <1>a, <2>1 DEF PoolAlive, InPool
  <2>3. StartsTask(d)
    BY <1>1, <2>1, <2>2, ChainHasRoom DEF Async, StartsTask
  <2> QED
    BY <1>1, <1>a, <2>1, <2>3 DEF Async, PoolAlive
<1>2. CASE Yield \/ FinishTask
  <2>1. Running \in Coroutines
    BY <1>2, RunningFacts DEF Yield, FinishTask, OnCoroutine, LuaInv
  <2>2. ASSUME NEW i \in 1..PoolSlots
        PROVE  pool'[i] \in {pool[i], Running}
    BY <1>2, <1>a, <2>1 DEF Yield, FinishTask
  <2> QED
    BY <1>2, <1>a, <2>1, <2>2 DEF Yield, FinishTask, PoolAlive
<1>3. ASSUME Alive, pool' = pool, lost' = lost, Close({Running})
      PROVE  PoolAlive' /\ lost' = {}
  <2>1. \A i \in 1..PoolSlots : pool[i] # Nil => pool[i] # Running
    BY <1>3, <1>a, RunningFacts, ChainParts DEF ActiveOnChain, PoolAlive, LuaInv
  <2> QED
    BY <1>3, <1>a, <2>1 DEF Close, PoolAlive
<1>4. CASE FailTask
  BY <1>3, <1>4 DEF FailTask, OnCoroutine
<1>5. CASE NewService
  <2>1. CASE Close({}) \/ UNCHANGED state
    BY <1>5, <1>a, <2>1 DEF NewService, Close, PoolAlive
  <2>2. CASE Close({} \cup {Running})
    <3>1. {} \cup {Running} = {Running}
      OBVIOUS
    <3> QED
      BY <1>3, <1>5, <2>2, <3>1 DEF NewService
  <2> QED
    BY <1>5, <2>1, <2>2 DEF NewService, RaiseError
<1>6. CASE Collect
  BY <1>6, <1>a DEF Collect, PoolAlive
<1>7. CASE FinishChunk \/ UNCHANGED vars
  BY <1>7 DEF FinishChunk, vars, PoolAlive
<1> QED
  BY <1>1, <1>2, <1>4, <1>5, <1>6, <1>7 DEF Next, WakeUp, Quit

(* Scripts that neither quit nor wake coroutines up: every async starts its *)
(* function, whatever else they do and whatever the collector takes away.   *)
THEOREM AsyncDoesStart ==
  RoomToNest /\ ~ScriptsQuit /\ ~ScriptsWake => (Spec => []AsyncStarts)
<1> SUFFICES ASSUME RoomToNest, ~ScriptsQuit, ~ScriptsWake PROVE Spec => []AsyncStarts
  OBVIOUS
<1>1. LuaInv /\ PoolAlive /\ AsyncStarts /\ [Next]_vars => PoolAlive' /\ AsyncStarts'
  BY PoolAliveNext DEF AsyncStarts
<1>2. Init => PoolAlive /\ AsyncStarts
  BY DEF Init, PoolAlive, AsyncStarts
<1> QED
  BY <1>1, <1>2, LuaInit, LuaNext, PTL DEF Spec

(* Scripts that do anything: a function is lost only at the limit of nested  *)
(* resumes or on a coroutine that was killed in the pool, never because the *)
(* weak pool gave out a coroutine that runs or waits in another task.       *)
THEOREM LossIsExplained == Spec => LossExplained
<1>1. LuaInv /\ [Next]_vars =>
        [lost' # lost =>
           \E co \in Coroutines :
             Async(co) /\ (Len(chain) >= MaxNesting \/ state[co] = "dead")]_vars
  <2> SUFFICES ASSUME LuaInv, Next, lost' # lost
               PROVE  \E co \in Coroutines :
                        Async(co) /\ (Len(chain) >= MaxNesting \/ state[co] = "dead")
    OBVIOUS
  <2>1. PICK co \in Coroutines : Async(co)
    BY DEF Next, Yield, FinishTask, FailTask, FinishChunk, WakeUp, NewService, Quit, Collect
  <2>2. work[co] = Idle /\ state[co] \in {"unborn", "suspended", "dead"}
    BY <2>1, Taken DEF Async
  <2>3. ~Resumable(co)
    BY <2>1, <2>2 DEF Async, StartsTask
  <2>4. Len(chain) \in Nat /\ MaxNesting \in Nat
    BY BoundsOK DEF LuaInv, TypeOK
  <2> QED
    BY <2>1, <2>2, <2>3, <2>4 DEF Resumable
<1> QED
  BY <1>1, LuaInit, LuaNext, PTL DEF Spec, LossExplained

-----------------------------------------------------------------------------
(* quit. *)

(* A thread of the table that is not below quit's caller can be closed. *)
LEMMA OthersClosable ==
  ASSUME LuaInv, Alive, \A k \in DOMAIN sessions : sessions[k] \notin Waiting
  PROVE  \A k \in Others : Closable(k) /\ sessions[k] \in Coroutines
<1> SUFFICES ASSUME NEW k \in Others
             PROVE  Closable(k) /\ sessions[k] \in Coroutines
  OBVIOUS
<1>1. /\ k \in DOMAIN sessions /\ sessions[k] \in LuaThreads
      /\ sessions[k] # Running /\ sessions[k] \notin Waiting
  BY DEF Others, LuaInv, TypeOK
<1>2. ~OnChain(sessions[k])
  <2>1. Len(chain) \in Nat
    BY RunningFacts DEF LuaInv
  <2>2. \A i \in 1..Len(chain) : i = Len(chain) \/ i \in 1..(Len(chain) - 1)
    BY <2>1
  <2> QED
    BY <1>1, <2>2 DEF OnChain, Running, Waiting
<1>3. OnChain(MainThread)
  <2>1. Len(chain) \in Nat \ {0} /\ chain[1] = MainThread
    BY RunningFacts DEF LuaInv, ChainSound
  <2> QED
    BY <2>1 DEF OnChain
<1>4. sessions[k] \in Coroutines
  BY <1>1, <1>2, <1>3 DEF LuaThreads
<1>5. state[sessions[k]] # "active"
  BY <1>2, <1>4, ChainParts DEF ActiveOnChain, LuaInv
<1> QED
  BY <1>2, <1>3, <1>4, <1>5 DEF Closable

(* The other side of the partial quit: an error can stop quit half-way only  *)
(* at a thread that waits for its caller; in every other quit the table     *)
(* keeps no coroutine but the caller and all those it named are dead.       *)
THEOREM QuitIsComplete == Spec => QuitClosesUnlessNested
<1>1. LuaInv /\ [Next]_vars =>
        [Quit /\ (\A k \in DOMAIN sessions : sessions[k] \notin Waiting) =>
           /\ chain' = chain
           /\ \A k \in DOMAIN sessions : sessions'[k] \in {Closed, Running}
           /\ \A k \in Others : state'[sessions[k]] = "dead"]_vars
  <2> SUFFICES ASSUME LuaInv, Quit, \A k \in DOMAIN sessions : sessions[k] \notin Waiting
               PROVE  /\ chain' = chain
                      /\ \A k \in DOMAIN sessions : sessions'[k] \in {Closed, Running}
                      /\ \A k \in Others : state'[sessions[k]] = "dead"
    OBVIOUS
  <2>1. \A k \in Others : Closable(k) /\ sessions[k] \in Coroutines
    BY OthersClosable DEF Quit
  <2>2. CloseSessions(Others) /\ Close(Of(Others)) /\ UNCHANGED chain
    BY <2>1 DEF Quit
  <2>3. \A k \in DOMAIN sessions : sessions'[k] \in {Closed, Running}
    BY <2>2 DEF CloseSessions, Others
  <2>4. \A k \in Others : state'[sessions[k]] = "dead"
    BY <2>1, <2>2 DEF Close, Of
  <2> QED
    BY <2>2, <2>3, <2>4
<1> QED
  BY <1>1, LuaInit, LuaNext, PTL DEF Spec, QuitClosesUnlessNested

-----------------------------------------------------------------------------
(* The pool's promise. *)

(* What the session table names has run. *)
SessionsBorn ==
  \A k \in DOMAIN sessions : sessions[k] \in Coroutines => sessions[k] \in Born

PoolInv == LuaInv /\ ActiveBusy /\ SessionsBorn

(* Only async makes coroutines, and nothing unmakes one. *)
LEMMA ClosingBorn ==
  ASSUME LuaInv, NEW cos, Close(cos), cos \cap Coroutines \subseteq Born
  PROVE  Born' = Born
<1>1. state \in [Coroutines -> {"unborn", "suspended", "active", "dead"}]
  BY DEF LuaInv, TypeOK
<1>2. \A co \in Coroutines : state'[co] = IF co \in cos THEN "dead" ELSE state[co]
  BY DEF Close
<1> QED
  BY <1>2 DEF Born

LEMMA RunningBorn ==
  ASSUME LuaInv, Alive, Running \in Coroutines
  PROVE  Running \in Born /\ state[Running] = "active"
  BY RunningFacts, ChainParts DEF ActiveOnChain, LuaInv, Born

PoolNext == [Pool!Next]_(Pool!vars)

(* Ending the functions of the coroutines a call closes. *)
LEMMA ClosingIsEnd ==
  ASSUME LuaInv, NEW cos, Close(cos), cos \cap Coroutines \subseteq Born,
         UNCHANGED <<pool, asked>>
  PROVE  PoolNext
<1> DEFINE S == {co \in Coroutines : co \in cos /\ work[co] # Idle}
<1>1. PoolMembers' = PoolMembers /\ Born' = Born
  BY ClosingBorn DEF PoolMembers
<1>2. S \subseteq Born \ PoolMembers
  BY DEF LuaInv, PoolIdle, PoolMembers, Born
<1>3. work' = [co \in Coroutines |-> IF co \in S THEN Idle ELSE work[co]]
  BY DEF Close
<1>4. S \in SUBSET Coroutines
  OBVIOUS
<1> HIDE DEF S
<1>5. Pool!End(S)
  BY <1>1, <1>2, <1>3 DEF Pool!End
<1> QED
  BY <1>4, <1>5 DEF PoolNext, Pool!Next

LEMMA AsyncIsTake ==
  ASSUME LuaInv, NEW co \in Coroutines, Async(co)
  PROVE  PoolNext /\ Born' = Born \cup {co}
<1>1. /\ work[co] = Idle
      /\ state[co] = "unborn" \/ (InPool(co) /\ state[co] \in {"suspended", "dead"})
      /\ \A i \in 1..PoolSlots : pool'[i] = IF pool[i] = co THEN Nil ELSE pool[i]
  BY Taken DEF Async
<1>2. co # Nil
  BY BoundsOK DEF Coroutines, Nil
<1>3. co \in PoolMembers \/ co \notin Born
  BY <1>1, <1>2 DEF InPool, PoolMembers, Born
<1>4. PoolMembers' = PoolMembers \ {co}
  BY <1>1, <1>2 DEF PoolMembers
<1>5. Born' = Born \cup {co}
  <2>1. state \in [Coroutines -> {"unborn", "suspended", "active", "dead"}]
    BY DEF LuaInv, TypeOK
  <2>2. /\ \A d \in Coroutines \ {co} : state'[d] = state[d]
        /\ state'[co] # "unborn"
    BY <2>1 DEF Async
  <2> QED
    BY <2>2 DEF Born
<1>6. work' \in {work, [work EXCEPT ![co] = asked + 1]} /\ asked' = asked + 1
  BY DEF Async
<1>7. Pool!Take(co)
  BY <1>1, <1>3, <1>4, <1>5, <1>6 DEF Pool!Take
<1> QED
  BY <1>5, <1>7 DEF PoolNext, Pool!Next

LEMMA FinishIsReturn ==
  ASSUME PoolInv, FinishTask
  PROVE  PoolNext /\ Born' = Born
<1>1. PICK d \in Coroutines : d = Running
  BY RunningFacts DEF FinishTask, OnCoroutine, PoolInv, LuaInv
<1>2. d \in Born /\ state[d] = "active"
  BY <1>1, RunningBorn DEF FinishTask, OnCoroutine, PoolInv
<1>3. work[d] # Idle /\ d \notin PoolMembers
  BY <1>2 DEF PoolInv, ActiveBusy, LuaInv, PoolIdle, PoolMembers
<1>4. PICK b \in Borders : b < PoolSlots /\ pool' = [pool EXCEPT ![b + 1] = d]
  BY <1>1 DEF FinishTask
<1>5. /\ b + 1 \in 1..PoolSlots /\ pool[b + 1] = Nil
      /\ \A i \in 1..PoolSlots : pool'[i] = IF i = b + 1 THEN d ELSE pool[i]
  BY <1>4, Stored DEF PoolInv, LuaInv
<1>6. PoolMembers' = PoolMembers \cup {d}
  <2>1. d # Nil
    BY BoundsOK DEF Coroutines, Nil
  <2> QED
    BY <1>5, <2>1 DEF PoolMembers
<1>7. Born' = Born
  BY <1>1, <1>2 DEF FinishTask, Born, PoolInv, LuaInv, TypeOK
<1>8. work' = [work EXCEPT ![d] = Idle] /\ asked' = asked
  BY <1>1 DEF FinishTask
<1>9. Pool!Return(d)
  BY <1>3, <1>6, <1>7, <1>8 DEF Pool!Return
<1> QED
  BY <1>7, <1>9 DEF PoolNext, Pool!Next

(* Steps that neither give nor take a function. *)
LEMMA SwitchStutters ==
  ASSUME PoolInv, Yield \/ FinishChunk \/ (\E co \in Coroutines : WakeUp(co)) \/ UNCHANGED vars
  PROVE  PoolNext /\ Born' = Born
<1>1. UNCHANGED <<work, pool, asked>>
  BY DEF Yield, FinishChunk, WakeUp, vars
<1>2. Born' = Born
  <2>a. state \in [Coroutines -> {"unborn", "suspended", "active", "dead"}]
    BY DEF PoolInv, LuaInv, TypeOK
  <2>1. CASE Yield
    <3>1. Running \in Coroutines
      BY <2>1, RunningFacts DEF Yield, OnCoroutine, PoolInv, LuaInv
    <3>2. state[Running] = "active"
      BY <2>1, <3>1, RunningBorn DEF Yield, OnCoroutine, PoolInv
    <3> QED
      BY <2>a, <2>1, <3>1, <3>2 DEF Yield, Born
  <2>2. CASE \E co \in Coroutines : WakeUp(co)
    BY <2>a, <2>2 DEF WakeUp, Born
  <2>3. CASE FinishChunk \/ UNCHANGED vars
    BY <2>3 DEF FinishChunk, vars, Born
  <2> QED
    BY <2>1, <2>2, <2>3
<1> QED
  BY <1>1, <1>2 DEF PoolNext, Pool!vars, PoolMembers

LEMMA CollectIsForget ==
  ASSUME PoolInv, Collect
  PROVE  PoolNext /\ Born' = Born
<1>1. PICK T \in SUBSET (1..PoolSlots) :
        pool' = [i \in 1..PoolSlots |-> IF i \in T THEN Nil ELSE pool[i]]
  BY DEF Collect
<1>2. PoolMembers' \subseteq PoolMembers /\ PoolMembers \subseteq Coroutines
  BY <1>1 DEF PoolMembers, PoolInv, LuaInv, TypeOK
<1>3. PICK S \in SUBSET Coroutines : S = PoolMembers \ PoolMembers'
  BY <1>2
<1>4. PoolMembers' = PoolMembers \ S
  BY <1>2, <1>3
<1>5. Born' = Born /\ UNCHANGED <<work, asked>>
  BY DEF Collect, Born
<1>6. Pool!Forget(S)
  BY <1>4, <1>5 DEF Pool!Forget
<1> QED
  BY <1>5, <1>6 DEF PoolNext, Pool!Next

(* The steps that close coroutines, or raise an error that may end one. *)
LEMMA ClosersEnd ==
  ASSUME PoolInv, FailTask \/ NewService \/ Quit
  PROVE  PoolNext /\ Born' = Born
<1> USE DEF PoolInv
<1>a. Alive /\ UNCHANGED <<pool, asked>>
  BY DEF FailTask, OnCoroutine, NewService, Quit
<1>b. {Running} \cap Coroutines \subseteq Born
  BY <1>a, RunningBorn
<1>1. ASSUME NEW cos, Close(cos), cos \cap Coroutines \subseteq Born
      PROVE  PoolNext /\ Born' = Born
  BY <1>1, <1>a, ClosingBorn, ClosingIsEnd
<1>2. ASSUME NEW closed, RaiseError(closed), closed \cap Coroutines \subseteq Born
      PROVE  PoolNext /\ Born' = Born
  <2>1. (closed \cup {Running}) \cap Coroutines \subseteq Born
    BY <1>2, <1>b
  <2>2. PICK cos : cos \in {closed, closed \cup {Running}} /\ Close(cos)
    BY <1>2 DEF RaiseError
  <2> QED
    BY <1>1, <1>2, <2>1, <2>2
<1>3. CASE FailTask
  BY <1>1, <1>3, <1>b DEF FailTask
<1>4. CASE NewService
  <2>1. CASE UNCHANGED <<state, work>>
    BY <1>a, <2>1 DEF PoolNext, Pool!vars, PoolMembers, Born
  <2>2. CASE RaiseError({})
    BY <1>2, <2>2
  <2> QED
    BY <1>4, <2>1, <2>2 DEF NewService
<1>5. CASE Quit
  <2>1. PICK S \in SUBSET Others :
          RaiseError(Of(S)) \/ Close(Of(S))
    BY <1>5 DEF Quit
  <2>2. Of(S) \cap Coroutines \subseteq Born
    BY DEF Of, Others, SessionsBorn
  <2> QED
    BY <1>1, <1>2, <2>1, <2>2
<1> QED
  BY <1>3, <1>4, <1>5

LEMMA StepIsPooled ==
  ASSUME PoolInv, [Next]_vars
  PROVE  PoolNext /\ Born \subseteq Born'
<1>1. CASE \E co \in Coroutines : Async(co)
  BY <1>1, AsyncIsTake DEF PoolInv
<1>2. CASE FinishTask
  BY <1>2, FinishIsReturn
<1>3. CASE Yield \/ FinishChunk \/ (\E co \in Coroutines : WakeUp(co)) \/ UNCHANGED vars
  BY <1>3, SwitchStutters
<1>4. CASE Collect
  BY <1>4, CollectIsForget
<1>5. CASE FailTask \/ NewService \/ Quit
  BY <1>5, ClosersEnd
<1> QED
  BY <1>1, <1>2, <1>3, <1>4, <1>5 DEF Next

LEMMA SessionsBornNext == PoolInv /\ [Next]_vars => SessionsBorn'
<1> SUFFICES ASSUME PoolInv, [Next]_vars PROVE SessionsBorn'
  OBVIOUS
<1>1. Born \subseteq Born' /\ sessions \in Seq(LuaThreads \cup {Closed})
  BY StepIsPooled DEF PoolInv, LuaInv, TypeOK
<1>2. CASE UNCHANGED sessions
  BY <1>1, <1>2 DEF PoolInv, SessionsBorn
<1>3. CASE NewService
  <2>1. /\ Running \in LuaThreads /\ sessions' = Append(sessions, Running)
        /\ Running \in Coroutines => Running \in Born
    BY <1>3, RunningFacts, RunningBorn DEF NewService, MakeSession, PoolInv, LuaInv
  <2>2. \A k \in DOMAIN sessions' :
          sessions'[k] = Running \/ (k \in DOMAIN sessions /\ sessions'[k] = sessions[k])
    BY <1>1, <2>1
  <2> QED
    BY <1>1, <2>1, <2>2 DEF PoolInv, SessionsBorn
<1>4. CASE Quit
  <2>1. PICK S : CloseSessions(S)
    BY <1>4 DEF Quit
  <2>2. Closed \notin Coroutines
    BY BoundsOK DEF Closed, Coroutines
  <2> QED
    BY <1>1, <2>1, <2>2 DEF CloseSessions, PoolInv, SessionsBorn
<1> QED
  BY <1>2, <1>3, <1>4
     DEF Next, Async, WakeUp, Yield, FinishTask, FailTask, FinishChunk, Collect, vars

(* co_pool keeps the promise of CoroutinePool, for any number of coroutines  *)
(* and tasks, whatever the scripts do and wherever the weak table has holes: *)
(* no function is given to a coroutine that has not returned from its last  *)
(* one, nor to one that has left the pool without being taken.              *)
THEOREM PoolKeepsPromise == Spec => PoolPromise
<1>1. Init => PoolInv
  BY LuaInit, KeepsIdleInit DEF Init, PoolInv, SessionsBorn
<1>2. PoolInv /\ [Next]_vars => PoolInv'
  BY LuaNext, ActiveBusyNext, SessionsBornNext DEF PoolInv
<1>3. PoolInv /\ [Next]_vars => [Pool!Next]_(Pool!vars)
  BY StepIsPooled DEF PoolNext
<1>4. Init => Pool!Init
  <2> SUFFICES ASSUME Init PROVE Pool!Init
    OBVIOUS
  <2>1. Born = {} /\ PoolMembers = {}
    BY DEF Init, Born, PoolMembers
  <2> QED
    BY <2>1 DEF Init, Pool!Init
<1> QED
  BY <1>1, <1>2, <1>3, <1>4, PTL DEF Spec, PoolPromise, Pool!Safe

=============================================================================
