-------------------------- MODULE PlacementProofs --------------------------
(* Where the requests of ServerWorkers go: the proofs that a request for an  *)
(* existing worker never leaves the path to that worker, and that none is   *)
(* dropped while the counters hold.                                         *)
EXTENDS BalancerProofs

-----------------------------------------------------------------------------
(* The invariant. *)

(* Calls, queues, handlers and maps hold requests that have been made: no     *)
(* later request writes the option of theirs.                               *)
CallsKnown == \A c \in Callers : call[c].pc # "idle" => call[c].req \in 1..issued
QueuesKnown == \A w \in Workers : \A i \in DOMAIN queue[w] : queue[w][i] \in 1..issued
LoadsKnown == \A w \in Workers : loading[w] \in 0..issued
MapsKnown == \A w \in Workers : \A e \in serviceMap[w] : e.req \in 1..issued

Known == CallsKnown /\ QueuesKnown /\ LoadsKnown /\ MapsKnown

(* A request at worker w is one that may be there. *)
Meant(r, w) == option[r] \in Workers => option[r] = w

PicksMeant ==
  \A c \in Callers :
    call[c].pc = "pick" /\ option[call[c].req] \in Workers =>
      call[c].target = option[call[c].req] /\ call[c].next = Threads + 1
PostsMeant ==
  \A c \in Callers : call[c].pc = "post" => Meant(call[c].req, call[c].target)
QueuesMeant == \A w \in Workers : \A i \in DOMAIN queue[w] : Meant(queue[w][i], w)
LoadsMeant == \A w \in Workers : loading[w] # 0 => Meant(loading[w], w)

MeantInv == PicksMeant /\ PostsMeant /\ QueuesMeant /\ LoadsMeant /\ ExplicitHonoured

-----------------------------------------------------------------------------
(* What a queue holds after Post and after StartHandler. *)

LEMMA PostedQueue ==
  ASSUME TypeInv, NEW c \in Callers, Post(c), NEW w \in Workers,
         NEW i \in DOMAIN queue'[w]
  PROVE  \/ i \in DOMAIN queue[w] /\ queue'[w][i] = queue[w][i]
         \/ w = call[c].target /\ queue'[w][i] = call[c].req
<1>1. call[c].target \in Workers /\ call[c].req \in Requests /\ queue[w] \in Seq(Requests)
  BY DEF Post, TypeInv, TypeOK, CallsSound
<1>2. queue'[w] = IF w = call[c].target THEN Append(queue[w], call[c].req) ELSE queue[w]
  BY DEF Post, TypeInv, TypeOK
<1>3. CASE w = call[c].target
  <2>1. /\ DOMAIN queue'[w] = 1..(Len(queue[w]) + 1) /\ DOMAIN queue[w] = 1..Len(queue[w])
        /\ Len(queue[w]) \in Nat
        /\ \A k \in 1..Len(queue[w]) : queue'[w][k] = queue[w][k]
        /\ queue'[w][Len(queue[w]) + 1] = call[c].req
    BY <1>1, <1>2, <1>3
  <2>2. CASE i \in 1..Len(queue[w])
    BY <2>1, <2>2
  <2>3. CASE i = Len(queue[w]) + 1
    BY <1>3, <2>1, <2>3
  <2> QED
    BY <2>1, <2>2, <2>3
<1> QED
  BY <1>2, <1>3

LEMMA StartedQueue ==
  ASSUME TypeInv, NEW v \in Workers, StartHandler(v)
  PROVE  /\ \E k \in DOMAIN queue[v] : loading'[v] = queue[v][k]
         /\ \A w \in Workers \ {v} : loading'[w] = loading[w]
         /\ \A w \in Workers : \A i \in DOMAIN queue'[w] :
              \E k \in DOMAIN queue[w] : queue'[w][i] = queue[w][k]
<1>1. queue[v] \in Seq(Requests) /\ queue[v] # <<>>
  BY DEF StartHandler, TypeInv, TypeOK
<1>2. loading'[v] = queue[v][1] /\ 1 \in DOMAIN queue[v]
  <2>1. loading'[v] = Head(queue[v])
    BY DEF StartHandler, TypeInv, TypeOK
  <2> QED
    BY <1>1, <2>1
<1>3. \A i \in DOMAIN Tail(queue[v]) :
        i + 1 \in DOMAIN queue[v] /\ Tail(queue[v])[i] = queue[v][i + 1]
  BY <1>1
<1>4. \A w \in Workers : queue'[w] = IF w = v THEN Tail(queue[v]) ELSE queue[w]
  BY DEF StartHandler, TypeInv, TypeOK
<1>5. ASSUME NEW w \in Workers, NEW i \in DOMAIN queue'[w]
      PROVE  \E k \in DOMAIN queue[w] : queue'[w][i] = queue[w][k]
  BY <1>3, <1>4, <1>5
<1> QED
  BY <1>2, <1>5 DEF StartHandler, TypeInv, TypeOK

LEMMA FinishedMap ==
  ASSUME TypeInv, NEW v \in Workers, FinishHandler(v)
  PROVE  \A w \in Workers : \A e \in serviceMap'[w] :
           e \in serviceMap[w] \/ (w = v /\ e.req = loading[v] /\ loading[v] # 0)
  BY DEF FinishHandler, TypeInv, TypeOK

(* The request a call is about. *)
LEMMA RequestKept ==
  ASSUME TypeInv, NEW c \in Callers, ReadCount(c) \/ CountService(c)
  PROVE  /\ call'[c].req = call[c].req
         /\ CountService(c) => call'[c].target = call[c].target
<1>1. call[c] \in CallStates
  BY DEF TypeInv, TypeOK
<1>2. CASE CountService(c)
  <2>1. call'[c] = [call[c] EXCEPT !.pc = "post"]
    BY <1>2 DEF CountService, TypeInv, TypeOK
  <2> QED
    BY <1>1, <2>1 DEF CallStates
<1>3. CASE ReadCount(c) /\ ~CountService(c)
  <2> DEFINE w == call[c].next
  <2>1. call'[c] \in {[call[c] EXCEPT !.next = w + 1],
                      [call[c] EXCEPT !.next = w + 1, !.min = serviceNum[w], !.target = w]}
    BY <1>3 DEF ReadCount, TypeInv, TypeOK
  <2> HIDE DEF w
  <2> QED
    BY <1>1, <1>3, <2>1 DEF CallStates
<1> QED
  BY <1>2, <1>3

-----------------------------------------------------------------------------
(* A step without the threads: where requests may be after it. *)

LEMMA KnownNext ==
  ASSUME TypeInv, Known, [Next]_vars
  PROVE  Known' /\ \A r \in 1..issued : option'[r] = option[r]
<1> USE DEF Known, CallsKnown, QueuesKnown, LoadsKnown, MapsKnown
<1>a. issued \in 0..MaxRequests /\ MaxRequests \in Nat
  BY ConstantsOK DEF TypeInv, TypeOK
<1>1. ASSUME NEW c \in Callers, NEW id \in AskedIds \cup {0}, AskService(c, id)
      PROVE  Known' /\ \A r \in 1..issued : option'[r] = option[r]
  <2>1. /\ issued' = issued + 1 /\ UNCHANGED <<queue, loading, serviceMap>>
        /\ option' = [option EXCEPT ![issued + 1] = id]
    BY <1>1 DEF AskService, workerVars
  <2>2. call'[c].req = issued + 1
    <3>1. call'[c] = IF id \in Workers THEN Explicit(issued + 1, id)
                                       ELSE ScanFrom1(issued + 1)
      BY <1>1 DEF AskService, TypeInv, TypeOK
    <3> QED
      BY <3>1 DEF Explicit, ScanFrom1, NoCall
  <2>3. \A d \in Callers \ {c} : call'[d] = call[d]
    BY <1>1, AskFacts
  <2>4. 1..issued \subseteq 1..issued' /\ 0..issued \subseteq 0..issued'
        /\ issued + 1 \in 1..issued'
    BY <1>a, <2>1
  <2>5. CallsKnown'
    BY <2>2, <2>3, <2>4
  <2>6. \A r \in 1..issued : option'[r] = option[r]
    BY <1>a, <2>1 DEF TypeInv, TypeOK
  <2> QED
    BY <2>1, <2>4, <2>5, <2>6
<1>2. ASSUME NEW c \in Callers, ReadCount(c) \/ CountService(c)
      PROVE  Known' /\ option' = option
  <2>1. /\ call[c].pc # "idle" /\ call'[c].req = call[c].req
        /\ \A d \in Callers \ {c} : call'[d] = call[d]
    BY <1>2, ReadFacts, CountFacts, RequestKept
  <2>2. UNCHANGED <<queue, loading, serviceMap, issued, option>>
    BY <1>2 DEF ReadCount, CountService, workerVars, askVars
  <2> QED
    BY <2>1, <2>2
<1>3. ASSUME NEW c \in Callers, Refuse(c) \/ Post(c)
      PROVE  Known' /\ option' = option
  <2>1. call'[c].pc = "idle" /\ \A d \in Callers \ {c} : call'[d] = call[d]
    BY <1>3, ReturnFacts DEF Refuse, Post
  <2>2. UNCHANGED <<loading, serviceMap, issued, option>>
    BY <1>3 DEF Refuse, Post, workerVars, askVars
  <2>3. CASE Refuse(c)
    BY <2>1, <2>2, <2>3 DEF Refuse
  <2>4. CASE Post(c)
    <3>1. call[c].req \in 1..issued
      BY <2>4 DEF Post
    <3> QED
      BY <2>1, <2>2, <2>4, <3>1, PostedQueue
  <2> QED
    BY <1>3, <2>3, <2>4
<1>4. ASSUME NEW v \in Workers, StartHandler(v)
      PROVE  Known' /\ option' = option
  <2>1. UNCHANGED <<call, serviceMap, issued, option>>
    BY <1>4 DEF StartHandler, askVars
  <2>2. \A r \in 1..issued : r \in 0..issued
    BY <1>a
  <2> QED
    BY <1>4, <2>1, <2>2, StartedQueue
<1>5. ASSUME NEW v \in Workers, FinishHandler(v)
      PROVE  Known' /\ option' = option
  <2>1. UNCHANGED <<call, queue, issued, option>>
    BY <1>5 DEF FinishHandler, askVars
  <2>2. \A w \in Workers : loading'[w] \in {loading[w], 0}
    BY <1>5 DEF FinishHandler, TypeInv, TypeOK
  <2>3. \A r \in 0..issued : r # 0 => r \in 1..issued
    BY <1>a
  <2> QED
    BY <1>a, <1>5, <2>1, <2>2, <2>3, FinishedMap
<1>6. CASE Destroy
  BY <1>6 DEF Destroy, askVars
<1>7. CASE UNCHANGED <<call, queue, loading, serviceMap, askVars>>
  BY <1>7 DEF askVars
<1>8. \/ \E c \in Callers : CallStep(c)
      \/ \E v \in Workers : StartHandler(v) \/ FinishHandler(v)
      \/ Destroy
      \/ UNCHANGED <<call, queue, loading, serviceMap, askVars>>
  BY DEF Next, MainStep, Launch, Launched, Wake, Shutdown, StopWorker, JoinWorker,
         WaitAgain, HandlerStep, LeaveLoop, vars, workerVars
<1> QED
  BY <1>1, <1>2, <1>3, <1>4, <1>5, <1>6, <1>7, <1>8 DEF CallStep

LEMMA MeantNext ==
  ASSUME TypeInv, Known, MeantInv, [Next]_vars
  PROVE  MeantInv'
<1> USE DEF MeantInv, PicksMeant, PostsMeant, QueuesMeant, LoadsMeant,
            ExplicitHonoured, Meant
<1>a. issued \in 0..MaxRequests /\ MaxRequests \in Nat /\ Threads \in Nat
  BY ConstantsOK DEF TypeInv, TypeOK
<1>b. \A r \in 0..issued : r # 0 => r \in 1..issued
  BY <1>a
<1>c. \A r \in 1..issued : option'[r] = option[r]
  BY KnownNext
<1>1. ASSUME NEW c \in Callers, NEW id \in AskedIds \cup {0}, AskService(c, id)
      PROVE  MeantInv'
  <2>1. UNCHANGED <<queue, loading, serviceMap>>
    BY <1>1 DEF AskService, workerVars
  <2>2. /\ call'[c].pc = "pick" /\ call'[c].req = issued + 1
        /\ id \in Workers => call'[c].target = id /\ call'[c].next = Threads + 1
    <3>1. call'[c] = IF id \in Workers THEN Explicit(issued + 1, id)
                                       ELSE ScanFrom1(issued + 1)
      BY <1>1 DEF AskService, TypeInv, TypeOK
    <3> QED
      BY <3>1 DEF Explicit, ScanFrom1, NoCall
  <2>3. option'[issued + 1] = id
    <3>1. option' = [option EXCEPT ![issued + 1] = id] /\ issued < MaxRequests
      BY <1>1 DEF AskService
    <3>2. issued + 1 \in Requests
      BY <1>a, <3>1 DEF Requests
    <3> QED
      BY <3>1, <3>2 DEF TypeInv, TypeOK
  <2>4. \A d \in Callers \ {c} : call'[d] = call[d]
    BY <1>1, AskFacts
  <2>5. PicksMeant' /\ PostsMeant'
    BY <1>c, <2>2, <2>3, <2>4 DEF Known, CallsKnown
  <2>6. QueuesMeant' /\ LoadsMeant' /\ ExplicitHonoured'
    BY <1>b, <1>c, <2>1 DEF Known, QueuesKnown, LoadsKnown, MapsKnown
  <2> QED
    BY <2>5, <2>6
<1>2. ASSUME NEW c \in Callers, ReadCount(c)
      PROVE  MeantInv'
  <2>1. UNCHANGED <<queue, loading, serviceMap, option>>
    BY <1>2 DEF ReadCount, workerVars, askVars
  <2>2. /\ call[c].pc = "pick" /\ call'[c].pc = "pick" /\ call'[c].req = call[c].req
        /\ call[c].next # Threads + 1
        /\ \A d \in Callers \ {c} : call'[d] = call[d]
    BY <1>2, <1>a, ReadFacts, RequestKept DEF Workers
  <2>3. option[call[c].req] \notin Workers
    BY <2>2
  <2> QED
    BY <2>1, <2>2, <2>3
<1>3. ASSUME NEW c \in Callers, CountService(c)
      PROVE  MeantInv'
  <2>1. UNCHANGED <<queue, loading, serviceMap, option>>
    BY <1>3 DEF CountService, workerVars, askVars
  <2>2. /\ call[c].pc = "pick" /\ call'[c].pc = "post" /\ call'[c].req = call[c].req
        /\ call'[c].target = call[c].target
        /\ \A d \in Callers \ {c} : call'[d] = call[d]
    BY <1>3, CountFacts, RequestKept
  <2> QED
    BY <2>1, <2>2
<1>4. ASSUME NEW c \in Callers, Refuse(c) \/ Post(c)
      PROVE  MeantInv'
  <2>1. call'[c].pc = "idle" /\ \A d \in Callers \ {c} : call'[d] = call[d]
    BY <1>4, ReturnFacts DEF Refuse, Post
  <2>2. UNCHANGED <<loading, serviceMap, option>>
    BY <1>4 DEF Refuse, Post, workerVars, askVars
  <2>3. QueuesMeant'
    <3>1. CASE Refuse(c)
      BY <2>2, <3>1 DEF Refuse
    <3>2. CASE Post(c)
      <4>1. call[c].pc = "post"
        BY <3>2 DEF Post
      <4> QED
        BY <2>2, <3>2, <4>1, PostedQueue
    <3> QED
      BY <1>4, <3>1, <3>2
  <2> QED
    BY <2>1, <2>2, <2>3
<1>5. ASSUME NEW v \in Workers, StartHandler(v)
      PROVE  MeantInv'
  <2>1. UNCHANGED <<call, serviceMap, option>>
    BY <1>5 DEF StartHandler, askVars
  <2>2. QueuesMeant' /\ LoadsMeant'
    BY <1>5, <2>1, StartedQueue
  <2> QED
    BY <2>1, <2>2
<1>6. ASSUME NEW v \in Workers, FinishHandler(v)
      PROVE  MeantInv'
  <2>1. UNCHANGED <<call, queue, option>>
    BY <1>6 DEF FinishHandler, askVars
  <2>2. \A w \in Workers : loading'[w] \in {loading[w], 0}
    BY <1>6 DEF FinishHandler, TypeInv, TypeOK
  <2> QED
    BY <1>6, <2>1, <2>2, FinishedMap
<1>7. CASE Destroy
  BY <1>7 DEF Destroy, askVars
<1>8. CASE UNCHANGED <<call, queue, loading, serviceMap, option>>
  BY <1>8
<1>9. \/ \E c \in Callers : CallStep(c)
      \/ \E v \in Workers : StartHandler(v) \/ FinishHandler(v)
      \/ Destroy
      \/ UNCHANGED <<call, queue, loading, serviceMap, option>>
  BY DEF Next, MainStep, Launch, Launched, Wake, Shutdown, StopWorker, JoinWorker,
         WaitAgain, HandlerStep, LeaveLoop, vars, workerVars, askVars
<1> QED
  BY <1>1, <1>2, <1>3, <1>4, <1>5, <1>6, <1>7, <1>8, <1>9 DEF CallStep

-----------------------------------------------------------------------------
LEMMA PlacementInit == Init => Known /\ MeantInv
<1> SUFFICES ASSUME Init PROVE Known /\ MeantInv
  OBVIOUS
<1>1. /\ \A c \in Callers : call[c].pc = "idle"
      /\ \A w \in Workers : queue[w] = <<>> /\ loading[w] = 0 /\ serviceMap[w] = {}
      /\ issued = 0
  BY DEF Init, NoCall
<1> QED
  BY <1>1 DEF Known, CallsKnown, QueuesKnown, LoadsKnown, MapsKnown, MeantInv,
              PicksMeant, PostsMeant, QueuesMeant, LoadsMeant, ExplicitHonoured

(* A script that names an existing worker gets its service there, for any     *)
(* number of threads and whatever the counts: nothing on the way from       *)
(* newService to the map moves a request to another worker.                 *)
THEOREM ExplicitIsHonoured == Spec => []ExplicitHonoured
<1>1. TypeInv /\ Known /\ [Next]_vars => Known'
  BY KnownNext
<1>2. TypeInv /\ Known /\ MeantInv /\ [Next]_vars => MeantInv'
  BY MeantNext
<1>3. MeantInv => ExplicitHonoured
  BY DEF MeantInv
<1> QED
  BY <1>1, <1>2, <1>3, PlacementInit, TypeInit, TypeNext, PTL DEF Spec

-----------------------------------------------------------------------------
(* Refused requests. *)

(* A call without a target is one whose scan has found no count below the    *)
(* limit so far.                                                            *)
Untargeted ==
  \A c \in Callers :
    call[c].pc = "pick" /\ call[c].target = 0 =>
      call[c].balanced /\ call[c].min = UINT32_MAX

LEMMA UntargetedNext ==
  ASSUME TypeInv, Untargeted, [Next]_vars
  PROVE  Untargeted'
<1> USE DEF Untargeted
<1>1. ASSUME NEW c \in Callers, NEW id \in AskedIds \cup {0}, AskService(c, id)
      PROVE  Untargeted'
  <2>1. call'[c] = IF id \in Workers THEN Explicit(issued + 1, id)
                                     ELSE ScanFrom1(issued + 1)
    BY <1>1 DEF AskService, TypeInv, TypeOK
  <2>2. call'[c].target = 0 => call'[c].balanced /\ call'[c].min = UINT32_MAX
    BY <2>1 DEF Explicit, ScanFrom1, NoCall, Workers
  <2> QED
    BY <1>1, <2>2, AskFacts
<1>2. ASSUME NEW c \in Callers, ReadCount(c)
      PROVE  Untargeted'
  <2>1. call[c].next \in Workers => call[c].next # 0
    BY DEF Workers
  <2> QED
    BY <1>2, <2>1, ReadFacts
<1>3. ASSUME NEW c \in Callers, call'[c].pc # "pick",
             \A d \in Callers \ {c} : call'[d] = call[d]
      PROVE  Untargeted'
  BY <1>3
<1>4. ASSUME NEW c \in Callers, CallStep(c)
      PROVE  Untargeted'
  <2>1. CASE Refuse(c) \/ Post(c)
    <3>1. Return(c)
      BY <2>1 DEF Refuse, Post
    <3> QED
      BY <1>3, <3>1, ReturnFacts
  <2>2. CASE CountService(c)
    BY <1>3, <2>2, CountFacts
  <2> QED
    BY <1>1, <1>2, <1>4, <2>1, <2>2 DEF CallStep
<1>5. (\E c \in Callers : CallStep(c)) \/ UNCHANGED call
  BY DEF Next, MainStep, Launch, Launched, Wake, Shutdown, StopWorker, JoinWorker,
         WaitAgain, Destroy, HandlerStep, StartHandler, FinishHandler, LeaveLoop, vars
<1> QED
  BY <1>4, <1>5

(* A scan that has passed every worker and found none saw every count at its *)
(* limit; but the counts and the scan itself are not more than the requests. *)
LEMMA RefusedWithoutWorkers ==
  ASSUME NoOverflow, TypeInv, CountsFit, ScanSound, Untargeted,
         NEW c \in Callers, Refuse(c)
  PROVE  Workers = {}
<1> SUFFICES ASSUME NEW w \in Workers PROVE FALSE
  OBVIOUS
<1>1. /\ call[c].pc = "pick" /\ call[c].target = 0
      /\ call[c].next = Threads + 1
      /\ call[c].balanced /\ call[c].min = UINT32_MAX
  BY DEF Refuse, Scanned, Untargeted
<1>2. UINT32_MAX <= serviceNum[w]
  <2>1. w < Threads + 1
    BY ConstantsOK DEF Workers
  <2> QED
    BY <1>1, <2>1 DEF ScanSound
<1>3. c \in Scanning /\ Scanning \in SUBSET Callers
  BY <1>1 DEF Scanning
<1>4. Cardinality(Scanning \ {c}) \in Nat /\ Cardinality(Scanning) \in Nat
  BY <1>3, CallersFinite
<1>5. Cardinality(Scanning) >= 1
  BY <1>3, <1>4, CardinalityWithout
<1>6. serviceNum[w] + Cardinality(Scanning) <= issued
  BY DEF CountsFit
<1>7. serviceNum[w] \in Nat /\ issued \in Nat /\ issued <= UINT32_MAX
  BY ConstantsOK DEF NoOverflow, TypeInv, TypeOK
<1> QED
  BY <1>2, <1>4, <1>5, <1>6, <1>7, ConstantsOK

(* While a counter can hold the number of requests, newService drops none    *)
(* unless the server has no worker, however old the counts a scan has read. *)
THEOREM NobodyIsRefused == NoOverflow => (Spec => RefusesOnlyFull)
<1> SUFFICES ASSUME NoOverflow PROVE Spec => RefusesOnlyFull
  OBVIOUS
<1>1. TypeInv /\ CountsFit /\ [Next]_vars => CountsFit'
  BY FitNext
<1>2. TypeInv /\ CountsFit /\ ScanSound /\ [Next]_vars => ScanSound'
  BY ScanNext
<1>3. TypeInv /\ Untargeted /\ [Next]_vars => Untargeted'
  BY UntargetedNext
<1>4. TypeInv /\ Known /\ [Next]_vars => Known'
  BY KnownNext
<1>5. Init => CountsFit /\ ScanSound /\ Untargeted /\ Known
  BY BalancerInit, PlacementInit DEF BalancerInv, Init, Untargeted, NoCall
<1>6. TypeInv /\ CountsFit /\ ScanSound /\ Untargeted /\ Known /\ [Next]_vars =>
        [\A c \in Callers : Refuse(c) => issued > Threads * UINT32_MAX]_vars
  <2> SUFFICES ASSUME TypeInv, CountsFit, ScanSound, Untargeted, Known,
                      NEW c \in Callers, Refuse(c)
               PROVE  issued > Threads * UINT32_MAX
    OBVIOUS
  <2>1. Threads = 0
    <3>1. 1..Threads = {}
      BY RefusedWithoutWorkers DEF Workers
    <3> QED
      BY <3>1, ConstantsOK
  <2>2. issued >= 1 /\ issued \in Nat
    <3>1. call[c].req \in 1..issued /\ issued \in Nat
      BY ConstantsOK DEF Refuse, Scanned, Known, CallsKnown, TypeInv, TypeOK
    <3> QED
      BY <3>1
  <2>3. Threads * UINT32_MAX = 0
    BY <2>1, ConstantsOK
  <2> QED
    BY <2>2, <2>3
<1> QED
  BY <1>1, <1>2, <1>3, <1>4, <1>5, <1>6, TypeInit, TypeNext, PTL DEF Spec, RefusesOnlyFull

=============================================================================
