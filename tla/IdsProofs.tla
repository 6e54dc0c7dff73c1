----------------------------- MODULE IdsProofs -----------------------------
(* The service ids and counts of ServerWorkers: the proofs that ids computed *)
(* on several threads without a lock are unique as long as the local ids    *)
(* fit, that emplace keeps services whether they fit or not, and that       *)
(* serviceNum, which is raised on the caller's thread before the service    *)
(* exists, agrees with what is about to be posted, queued, loading and in   *)
(* the map.                                                                 *)
EXTENDS BalancerProofs

-----------------------------------------------------------------------------
(* One worker. *)

(* A serviceMap has one service per id. *)
OneEach == \A w \in Workers : \A d, e \in serviceMap[w] : d.id = e.id => d = e

(* Services leave a serviceMap only with the server, and none comes in under *)
(* an id that is taken.                                                     *)
LEMMA MapSteps ==
  ASSUME TypeInv, OneEach, [Next]_vars
  PROVE  /\ OneEach'
         /\ mainPc' # "done" => \A w \in Workers : serviceMap[w] \subseteq serviceMap'[w]
<1> USE DEF OneEach
<1>1. CASE UNCHANGED serviceMap
  BY <1>1
<1>2. ASSUME NEW v \in Workers, FinishHandler(v)
      PROVE  /\ OneEach'
             /\ \A w \in Workers : serviceMap[w] \subseteq serviceMap'[w]
  <2> DEFINE new == [id |-> ServiceId(genID[v], v), req |-> loading[v]]
  <2>1. CASE \E e \in serviceMap[v] : e.id = new.id
    <3>1. serviceMap' = serviceMap
      BY <1>2, <2>1 DEF FinishHandler
    <3> QED
      BY <3>1
  <2>2. CASE ~ \E e \in serviceMap[v] : e.id = new.id
    <3>1. serviceMap' = [serviceMap EXCEPT ![v] = serviceMap[v] \cup {new}]
      BY <1>2, <2>2 DEF FinishHandler
    <3>2. \A w \in Workers :
            serviceMap'[w] = IF w = v THEN serviceMap[v] \cup {new} ELSE serviceMap[w]
      BY <3>1 DEF TypeInv, TypeOK
    <3> HIDE DEF new
    <3> QED
      BY <2>2, <3>2
  <2> QED
    BY <2>1, <2>2
<1>3. CASE Destroy
  BY <1>3 DEF Destroy
<1>4. \/ UNCHANGED serviceMap
      \/ \E v \in Workers : FinishHandler(v)
      \/ Destroy
  BY DEF Next, MainStep, Launch, Launched, Wake, Shutdown, StopWorker, JoinWorker,
         WaitAgain, CallStep, AskService, ReadCount, Refuse, CountService, Post,
         HandlerStep, StartHandler, LeaveLoop, vars, workerVars
<1> QED
  BY <1>1, <1>2, <1>3, <1>4

(* Worker::newService's emplace: whatever the words' sizes, no service is     *)
(* taken out of a map or doubled in it before the server is destroyed.      *)
THEOREM ServicesAreKept == Spec => ServiceKept
<1>1. Init => OneEach
  BY DEF Init, OneEach
<1>2. TypeInv /\ OneEach /\ [Next]_vars => OneEach'
  BY MapSteps
<1>3. TypeInv /\ OneEach /\ [Next]_vars =>
        [mainPc' # "done" =>
           \A w \in Workers :
             /\ serviceMap[w] \subseteq serviceMap'[w]
             /\ \A d, e \in serviceMap'[w] : d.id = e.id => d = e]_vars
  BY MapSteps DEF OneEach
<1> QED
  BY <1>1, <1>2, <1>3, TypeInit, TypeNext, PTL DEF Spec, ServiceKept

-----------------------------------------------------------------------------
(* All workers. *)

(* The local ids of one worker do not reach the worker's bits, and the       *)
(* worker's bits do not leave the word.                                     *)
IdsFit ==
  /\ MaxRequests < IdSpan
  /\ Threads * IdSpan + IdSpan - 1 <= UINT32_MAX

(* The handlers a worker has run, has queued or may yet be posted are not    *)
(* more than the requests made.                                             *)
GenFit ==
  \A w \in Workers : genID[w] + Len(queue[w]) + Cardinality(InFlight) <= issued

(* The services of a worker have ids it has drawn; the last one drawn is not *)
(* among them while its handler runs.                                       *)
LastMapped(w) == genID[w] - Handling(w)

Drawn ==
  \A w \in Workers : \A e \in serviceMap[w] :
    \E g \in 0..LastMapped(w) : e.id = ServiceId(g, w)

(* ++genID | (workerID << WORKER_ID_SHIFT) is a sum: no carry, no bit lost.   *)
LEMMA IdIsSum ==
  ASSUME IdsFit, NEW w \in Workers, NEW g \in 0..MaxRequests
  PROVE  /\ ServiceId(g, w) = g + w * IdSpan
         /\ g < IdSpan /\ w * IdSpan \in Nat
<1>1. w * IdSpan \in Nat /\ Threads * IdSpan \in Nat /\ w * IdSpan <= Threads * IdSpan
  <2>1. w \in Nat /\ Threads - w \in Nat /\ IdSpan \in Nat /\ Threads \in Nat
    BY ConstantsOK DEF Workers
  <2>2. w * IdSpan \in Nat /\ (Threads - w) * IdSpan \in Nat /\ Threads * IdSpan \in Nat
    BY <2>1
  <2>3. Threads * IdSpan = w * IdSpan + (Threads - w) * IdSpan
    BY <2>1
  <2> QED
    BY <2>2, <2>3
<1>2. w * IdSpan \in 0..UINT32_MAX
  BY <1>1, ConstantsOK DEF IdsFit
<1>3. Wrap(w * IdSpan) = w * IdSpan
  BY <1>2, WrapSmall
<1>4. g \in 0..(IdSpan - 1)
  BY ConstantsOK DEF IdsFit
<1> QED
  BY <1>1, <1>2, <1>3, <1>4, BitOrOK, ConstantsOK DEF ServiceId

(* The worker can be read off the id. *)
LEMMA IdTellsWorker ==
  ASSUME IdsFit, NEW w \in Workers, NEW v \in Workers,
         NEW g \in 0..MaxRequests, NEW h \in 0..MaxRequests,
         ServiceId(g, w) = ServiceId(h, v)
  PROVE  w = v
<1>1. ASSUME NEW a \in Workers, NEW b \in Workers, a < b
      PROVE  a * IdSpan + IdSpan <= b * IdSpan
  <2>1. a \in Nat /\ b \in Nat /\ IdSpan \in Nat /\ b - a - 1 \in Nat
    BY <1>1, ConstantsOK DEF Workers
  <2>2. a * IdSpan \in Nat /\ b * IdSpan \in Nat /\ (b - a - 1) * IdSpan \in Nat
    BY <2>1
  <2>3. b * IdSpan = a * IdSpan + IdSpan + (b - a - 1) * IdSpan
    BY <2>1
  <2> QED
    BY <2>1, <2>2, <2>3
<1>2. /\ g + w * IdSpan = h + v * IdSpan
      /\ w * IdSpan \in Nat /\ v * IdSpan \in Nat
      /\ g \in Nat /\ h \in Nat /\ g < IdSpan /\ h < IdSpan
  BY IdIsSum, ConstantsOK
<1>3. ~(w < v) /\ ~(v < w)
  BY <1>1, <1>2, ConstantsOK
<1> QED
  BY <1>3, ConstantsOK DEF Workers

-----------------------------------------------------------------------------
(* GenFit and Drawn are preserved. *)

LEMMA GenTypes ==
  ASSUME TypeInv
  PROVE  /\ issued \in Nat /\ InFlight \in SUBSET Callers
         /\ Cardinality(InFlight) \in Nat
         /\ \A w \in Workers : /\ genID[w] \in Nat /\ queue[w] \in Seq(Requests)
                               /\ Len(queue[w]) \in Nat
  BY CallersFinite, ConstantsOK DEF InFlight, TypeInv, TypeOK

(* A call that ends leaves the set of open calls. *)
LEMMA ReturnsFromFlight ==
  ASSUME TypeInv, NEW c \in Callers, call[c].pc # "idle", Return(c)
  PROVE  /\ InFlight' = InFlight \ {c}
         /\ Cardinality(InFlight') = Cardinality(InFlight) - 1
<1>1. c \in InFlight /\ InFlight \in SUBSET Callers
  BY DEF InFlight
<1>2. InFlight' = InFlight \ {c}
  BY ReturnFacts DEF InFlight
<1> QED
  BY <1>1, <1>2, CardinalityWithout

(* ++genID does not wrap. *)
LEMMA StartDraws ==
  ASSUME NoOverflow, TypeInv, GenFit, NEW v \in Workers, StartHandler(v)
  PROVE  /\ genID' = [genID EXCEPT ![v] = genID[v] + 1]
         /\ genID'[v] = genID[v] + 1
<1>1. genID[v] + 1 \in 0..UINT32_MAX
  <2>1. Len(queue[v]) # 0
    BY GenTypes DEF StartHandler
  <2>2. genID[v] + Len(queue[v]) + Cardinality(InFlight) <= issued
    BY DEF GenFit
  <2>3. issued <= UINT32_MAX
    BY ConstantsOK DEF NoOverflow, TypeInv, TypeOK
  <2> QED
    BY <2>1, <2>2, <2>3, GenTypes, ConstantsOK
<1>2. genID' = [genID EXCEPT ![v] = Wrap(genID[v] + 1)]
  BY DEF StartHandler
<1> QED
  BY <1>1, <1>2, WrapSmall DEF TypeInv, TypeOK

LEMMA GenNext ==
  ASSUME NoOverflow, TypeInv, GenFit, [Next]_vars
  PROVE  GenFit' /\ \A w \in Workers : genID[w] <= genID'[w]
<1>a. TypeInv'
  BY TypeNext
<1>b. /\ issued \in Nat /\ Cardinality(InFlight) \in Nat
      /\ \A w \in Workers : genID[w] \in Nat /\ Len(queue[w]) \in Nat
  BY GenTypes
<1>1. ASSUME NEW c \in Callers, NEW id \in AskedIds \cup {0}, AskService(c, id)
      PROVE  GenFit' /\ genID' = genID
  <2>1. c \in Callers \ InFlight /\ InFlight' = InFlight \cup {c}
    BY <1>1, AskFacts DEF InFlight
  <2>2. Cardinality(InFlight') = Cardinality(InFlight) + 1
    BY <2>1, GenTypes, CardinalityWith
  <2>3. issued' = issued + 1 /\ UNCHANGED <<genID, queue>>
    BY <1>1 DEF AskService, workerVars
  <2> QED
    BY <1>b, <2>2, <2>3 DEF GenFit
<1>2. ASSUME NEW c \in Callers, ReadCount(c) \/ CountService(c)
      PROVE  GenFit' /\ genID' = genID
  <2>1. InFlight' = InFlight
    BY <1>2, ReadFacts, CountFacts DEF InFlight
  <2>2. UNCHANGED <<genID, queue, issued>>
    BY <1>2 DEF ReadCount, CountService, workerVars, askVars
  <2> QED
    BY <2>1, <2>2 DEF GenFit
<1>3. ASSUME NEW c \in Callers, Refuse(c)
      PROVE  GenFit' /\ genID' = genID
  <2>1. Cardinality(InFlight') = Cardinality(InFlight) - 1
    BY <1>3, ReturnsFromFlight DEF Refuse, Scanned
  <2>2. UNCHANGED <<genID, queue, issued>>
    BY <1>3 DEF Refuse, workerVars, askVars
  <2> QED
    BY <1>b, <2>1, <2>2 DEF GenFit
<1>4. ASSUME NEW c \in Callers, Post(c)
      PROVE  GenFit' /\ genID' = genID
  <2>1. Cardinality(InFlight') = Cardinality(InFlight) - 1
    BY <1>4, ReturnsFromFlight DEF Post
  <2>2. UNCHANGED <<genID, issued>>
    BY <1>4 DEF Post, workerVars, askVars
  <2>3. \A w \in Workers : Len(queue'[w]) <= Len(queue[w]) + 1 /\ Len(queue'[w]) \in Nat
    <3>1. call[c].target \in Workers /\ call[c].req \in Requests
      BY <1>4 DEF Post, TypeInv, CallsSound
    <3>2. queue' = [queue EXCEPT ![call[c].target] =
                      Append(queue[call[c].target], call[c].req)]
      BY <1>4 DEF Post
    <3>3. \A w \in Workers : queue[w] \in Seq(Requests)
      BY GenTypes
    <3>4. Len(Append(queue[call[c].target], call[c].req)) = Len(queue[call[c].target]) + 1
      BY <3>1, <3>3
    <3> QED
      BY <1>b, <3>1, <3>2, <3>4 DEF TypeInv, TypeOK
  <2> QED
    BY <1>b, <2>1, <2>2, <2>3 DEF GenFit
<1>5. ASSUME NEW v \in Workers, StartHandler(v)
      PROVE  GenFit' /\ \A w \in Workers : genID[w] <= genID'[w]
  <2>1. /\ InFlight' = InFlight /\ issued' = issued
    BY <1>5 DEF StartHandler, InFlight, askVars
  <2>2. Len(queue[v]) >= 1 /\ Len(Tail(queue[v])) = Len(queue[v]) - 1
    <3>1. queue[v] \in Seq(Requests) /\ queue[v] # <<>>
      BY <1>5, GenTypes DEF StartHandler
    <3> QED
      BY <3>1
  <2>3. \A w \in Workers :
          Len(queue'[w]) = IF w = v THEN Len(queue[v]) - 1 ELSE Len(queue[w])
    BY <1>5, <2>2 DEF StartHandler, TypeInv, TypeOK
  <2>5. \A w \in Workers : genID'[w] = IF w = v THEN genID[v] + 1 ELSE genID[w]
    BY <1>5, StartDraws DEF TypeInv, TypeOK
  <2>6. ASSUME NEW w \in Workers
        PROVE  /\ genID'[w] + Len(queue'[w]) = genID[w] + Len(queue[w])
               /\ genID[w] <= genID'[w]
    BY <1>b, <2>3, <2>5
  <2> QED
    BY <2>1, <2>6 DEF GenFit
<1>6. CASE Destroy
  <2>1. UNCHANGED <<genID, issued>> /\ InFlight' = InFlight
    BY <1>6 DEF Destroy, InFlight, askVars
  <2>2. \A w \in Workers : Len(queue'[w]) = 0
    BY <1>6 DEF Destroy
  <2> QED
    BY <1>b, <2>1, <2>2 DEF GenFit
<1>7. CASE UNCHANGED <<genID, queue, issued, call>>
  BY <1>b, <1>7 DEF GenFit, InFlight
<1>8. \/ \E c \in Callers : CallStep(c)
      \/ \E v \in Workers : StartHandler(v)
      \/ Destroy
      \/ UNCHANGED <<genID, queue, issued, call>>
  BY DEF Next, MainStep, Launch, Launched, Wake, Shutdown, StopWorker, JoinWorker,
         WaitAgain, HandlerStep, FinishHandler, LeaveLoop, vars, workerVars, askVars
<1>9. ASSUME NEW c \in Callers, CallStep(c)
      PROVE  GenFit' /\ \A w \in Workers : genID[w] <= genID'[w]
  <2>1. GenFit' /\ genID' = genID
    BY <1>1, <1>2, <1>3, <1>4, <1>9 DEF CallStep
  <2> QED
    BY <1>b, <2>1
<1> QED
  BY <1>5, <1>6, <1>7, <1>8, <1>9, <1>b DEF Destroy

(* Every local id drawn is the number of a request at most. *)
LEMMA GenInRequests ==
  ASSUME TypeInv, GenFit, NEW w \in Workers
  PROVE  /\ genID[w] \in 0..MaxRequests
         /\ LastMapped(w) <= genID[w]
         /\ 0..LastMapped(w) \subseteq 0..MaxRequests
<1>1. issued <= MaxRequests
  BY ConstantsOK DEF TypeInv, TypeOK
<1>2. genID[w] + Len(queue[w]) + Cardinality(InFlight) <= issued
  BY DEF GenFit
<1>3. genID[w] \in 0..MaxRequests
  BY <1>1, <1>2, GenTypes, ConstantsOK
<1>4. LastMapped(w) \in Int /\ LastMapped(w) <= genID[w]
  BY <1>3, ConstantsOK DEF LastMapped, Handling
<1> QED
  BY <1>3, <1>4, ConstantsOK

(* What a handler's two halves do to the worker's last mapped id. *)
LEMMA LastMappedGrows ==
  ASSUME NoOverflow, TypeInv, GenFit, [Next]_vars, NEW w \in Workers
  PROVE  LastMapped(w) <= LastMapped(w)'
<1>a. /\ genID[w] \in Nat /\ genID'[w] \in Nat /\ genID[w] <= genID'[w]
  <2>1. TypeInv'
    BY TypeNext
  <2>2. genID'[w] \in Nat
    BY <2>1, ConstantsOK DEF TypeInv, TypeOK
  <2> QED
    BY <2>2, GenNext, GenTypes
<1>b. Handling(w) \in 0..1 /\ Handling(w)' \in 0..1
  BY DEF Handling
<1>1. ASSUME NEW v \in Workers, StartHandler(v)
      PROVE  LastMapped(w) <= LastMapped(w)'
  <2>1. CASE w = v
    <3>1. genID'[w] = genID[w] + 1
      BY <1>1, <2>1, StartDraws
    <3> QED
      BY <1>1, <2>1, <3>1, <1>a, <1>b DEF LastMapped, Handling, StartHandler
  <2>2. CASE w # v
    BY <1>1, <1>a, <1>b, <2>2 DEF LastMapped, Handling, StartHandler, TypeInv, TypeOK
  <2> QED
    BY <2>1, <2>2
<1>2. ASSUME NEW v \in Workers, FinishHandler(v)
      PROVE  LastMapped(w) <= LastMapped(w)'
  BY <1>2, <1>a, <1>b DEF LastMapped, Handling, FinishHandler, TypeInv, TypeOK
<1>3. CASE UNCHANGED loading
  BY <1>3, <1>a, <1>b DEF LastMapped, Handling
<1>4. \/ UNCHANGED loading
      \/ \E v \in Workers : StartHandler(v) \/ FinishHandler(v)
  BY DEF Next, MainStep, Launch, Launched, Wake, Shutdown, StopWorker, JoinWorker,
         WaitAgain, Destroy, CallStep, AskService, ReadCount, Refuse, CountService,
         Post, HandlerStep, LeaveLoop, vars, workerVars
<1> QED
  BY <1>1, <1>2, <1>3, <1>4

LEMMA DrawnNext ==
  ASSUME NoOverflow, TypeInv, GenFit, Drawn, [Next]_vars
  PROVE  Drawn'
<1>a. \A w \in Workers : LastMapped(w) \in Int /\ LastMapped(w)' \in Int
  <2>1. TypeInv'
    BY TypeNext
  <2>2. \A w \in Workers : genID[w] \in Int /\ genID'[w] \in Int
    BY <2>1, ConstantsOK DEF TypeInv, TypeOK
  <2> QED
    BY <2>2 DEF LastMapped, Handling
<1>b. \A g, w : ServiceId(g, w)' = ServiceId(g, w)
  BY DEF ServiceId, Wrap
<1>1. ASSUME NEW w \in Workers, NEW e \in serviceMap[w]
      PROVE  \E g \in 0..LastMapped(w)' : e.id = ServiceId(g, w)
  <2>1. LastMapped(w) <= LastMapped(w)'
    BY LastMappedGrows
  <2> QED
    BY <1>a, <2>1 DEF Drawn
<1>2. CASE \A w \in Workers : serviceMap'[w] \subseteq serviceMap[w]
  BY <1>1, <1>2, <1>b DEF Drawn
<1>3. ASSUME NEW v \in Workers, FinishHandler(v)
      PROVE  Drawn'
  <2> DEFINE new == [id |-> ServiceId(genID[v], v), req |-> loading[v]]
  <2>1. \A w \in Workers :
          serviceMap'[w] \subseteq serviceMap[w] \cup (IF w = v THEN {new} ELSE {})
    BY <1>3 DEF FinishHandler, TypeInv, TypeOK
  <2>2. new.id = ServiceId(genID[v], v) /\ genID[v] \in 0..LastMapped(v)'
    <3>1. genID'[v] = genID[v] /\ loading'[v] = 0 /\ genID[v] \in Nat
      BY <1>3, GenTypes DEF FinishHandler, TypeInv, TypeOK
    <3>2. LastMapped(v)' = genID[v]
      BY <3>1 DEF LastMapped, Handling
    <3> QED
      BY <3>1, <3>2
  <2> HIDE DEF new
  <2> SUFFICES ASSUME NEW w \in Workers, NEW e \in serviceMap'[w]
               PROVE  \E g \in 0..LastMapped(w)' : e.id = ServiceId(g, w)
    BY <1>b DEF Drawn
  <2> QED
    BY <1>1, <2>1, <2>2
<1>4. \/ \A w \in Workers : serviceMap'[w] \subseteq serviceMap[w]
      \/ \E v \in Workers : FinishHandler(v)
  <2>1. CASE Destroy
    BY <2>1 DEF Destroy
  <2>2. \/ UNCHANGED serviceMap \/ Destroy
        \/ \E v \in Workers : FinishHandler(v)
    BY DEF Next, MainStep, Launch, Launched, Wake, Shutdown, StopWorker, JoinWorker,
           WaitAgain, CallStep, AskService, ReadCount, Refuse, CountService, Post,
           HandlerStep, StartHandler, LeaveLoop, vars, workerVars
  <2> QED
    BY <2>1, <2>2
<1> QED
  BY <1>2, <1>3, <1>4

LEMMA IdsFitWords == IdsFit => NoOverflow
<1> SUFFICES ASSUME IdsFit PROVE MaxRequests <= UINT32_MAX
  BY DEF NoOverflow
<1>1. Threads * IdSpan \in Nat
  BY ConstantsOK
<1> QED
  BY <1>1, ConstantsOK DEF IdsFit

LEMMA IdsInit == Init => OneEach /\ GenFit /\ Drawn
<1> SUFFICES ASSUME Init PROVE OneEach /\ GenFit /\ Drawn
  OBVIOUS
<1>1. OneEach /\ Drawn
  BY DEF Init, OneEach, Drawn
<1>2. InFlight = {}
  BY DEF Init, InFlight, NoCall
<1>3. \A w \in Workers : genID[w] = 0 /\ Len(queue[w]) = 0 /\ issued = 0
  BY DEF Init
<1> QED
  BY <1>1, <1>2, <1>3, FS_EmptySet DEF GenFit

(* While fewer services are asked for than a worker has local ids, an id      *)
(* names one service in the whole server, though each worker draws its own. *)
THEOREM IdsAreUnique == IdsFit => (Spec => []IdsUnique)
<1> SUFFICES ASSUME IdsFit PROVE Spec => []IdsUnique
  OBVIOUS
<1>1. NoOverflow
  BY IdsFitWords
<1>2. TypeInv /\ OneEach /\ [Next]_vars => OneEach'
  BY MapSteps
<1>3. TypeInv /\ GenFit /\ [Next]_vars => GenFit'
  BY <1>1, GenNext
<1>4. TypeInv /\ GenFit /\ Drawn /\ [Next]_vars => Drawn'
  BY <1>1, DrawnNext
<1>5. TypeInv /\ OneEach /\ GenFit /\ Drawn => IdsUnique
  <2> SUFFICES ASSUME TypeInv, OneEach, GenFit, Drawn,
                      NEW w \in Workers, NEW v \in Workers,
                      NEW d \in serviceMap[w], NEW e \in serviceMap[v], d.id = e.id
               PROVE  w = v /\ d = e
    BY DEF IdsUnique
  <2>1. \A u \in Workers : 0..LastMapped(u) \subseteq 0..MaxRequests
    BY GenInRequests
  <2>2. PICK g \in 0..MaxRequests : d.id = ServiceId(g, w)
    BY <2>1 DEF Drawn
  <2>3. PICK h \in 0..MaxRequests : e.id = ServiceId(h, v)
    BY <2>1 DEF Drawn
  <2>4. w = v
    BY <2>2, <2>3, IdTellsWorker
  <2> QED
    BY <2>4 DEF OneEach
<1> QED
  BY <1>2, <1>3, <1>4, <1>5, IdsInit, TypeInit, TypeNext, PTL DEF Spec

-----------------------------------------------------------------------------
(* The counts. *)

MapsFinite == \A w \in Workers : IsFiniteSet(serviceMap[w])

(* The services a worker's count stands for. *)
Accounted(w) ==
  Cardinality(Posting(w)) + Len(queue[w]) + Handling(w) + Cardinality(serviceMap[w])

CountsInv == MapsFinite /\ CountsExact

LEMMA CountTypes ==
  ASSUME TypeInv, MapsFinite, NEW w \in Workers
  PROVE  /\ serviceNum[w] \in Nat
         /\ Posting(w) \in SUBSET Callers /\ Cardinality(Posting(w)) \in Nat
         /\ queue[w] \in Seq(Requests) /\ Len(queue[w]) \in Nat
         /\ Handling(w) \in 0..1
         /\ Cardinality(serviceMap[w]) \in Nat
<1>1. Posting(w) \in SUBSET Callers
  BY DEF Posting
<1>2. Cardinality(serviceMap[w]) \in Nat
  BY FS_CardinalityType DEF MapsFinite
<1> QED
  BY <1>1, <1>2, CallersFinite, ConstantsOK DEF Handling, TypeInv, TypeOK

-----------------------------------------------------------------------------
(* What the steps do to the terms of the sum. *)

(* The end of the server is final. *)
LEMMA StaysDone ==
  ASSUME TypeInv, TeardownInv, mainPc = "done", [Next]_vars
  PROVE  mainPc' = "done"
<1>1. ASSUME NEW c \in Callers, CallStep(c)
      PROVE  mainPc' = "done"
  <2>1. call[Main].pc = "idle"
    BY DEF TeardownInv, CallersSound
  <2>2. CASE \E id \in AskedIds \cup {0} : AskService(c, id)
    BY <2>2 DEF AskService, MayAsk
  <2>3. CASE Refuse(c) \/ Post(c)
    <3>1. c # Main
      BY <2>1, <2>3 DEF Refuse, Post, Scanned
    <3> QED
      BY <2>3, <3>1 DEF Refuse, Post, Return
  <2>4. CASE ReadCount(c) \/ CountService(c)
    BY <2>4 DEF ReadCount, CountService, mainVars
  <2> QED
    BY <1>1, <2>2, <2>3, <2>4 DEF CallStep
<1>2. CASE UNCHANGED mainPc
  BY <1>2
<1>3. (\E c \in Callers : CallStep(c)) \/ UNCHANGED mainPc
  BY DEF Next, MainStep, Launch, Launched, Wake, Shutdown, StopWorker, JoinWorker,
         WaitAgain, Destroy, HandlerStep, StartHandler, FinishHandler, LeaveLoop,
         vars, mainVars
<1> QED
  BY <1>1, <1>2, <1>3

(* A step of a call that neither comes to posting nor leaves it. *)
LEMMA PostingKept ==
  ASSUME TypeInv, NEW c \in Callers, call[c].pc # "post", call'[c].pc # "post",
         \A d \in Callers \ {c} : call'[d] = call[d], NEW w \in Workers
  PROVE  Posting(w)' = Posting(w)
  BY DEF Posting

(* The id a handler has drawn is not in its worker's map. *)
LEMMA FreshId ==
  ASSUME IdsFit, TypeInv, GenFit, Drawn, NEW v \in Workers, loading[v] # 0,
         NEW e \in serviceMap[v]
  PROVE  e.id # ServiceId(genID[v], v)
<1>1. PICK g \in 0..LastMapped(v) : e.id = ServiceId(g, v)
  BY DEF Drawn
<1>2. /\ genID[v] \in 0..MaxRequests /\ 0..LastMapped(v) \subseteq 0..MaxRequests
  BY GenInRequests
<1>3. g \in 0..MaxRequests /\ g < genID[v]
  BY <1>1, <1>2, ConstantsOK DEF LastMapped, Handling
<1>4. /\ ServiceId(g, v) = g + v * IdSpan
      /\ ServiceId(genID[v], v) = genID[v] + v * IdSpan
      /\ v * IdSpan \in Nat
  BY <1>2, <1>3, IdIsSum
<1> QED
  BY <1>1, <1>2, <1>3, <1>4, ConstantsOK

LEMMA MapsFiniteNext ==
  ASSUME TypeInv, MapsFinite, [Next]_vars
  PROVE  MapsFinite'
<1>1. CASE UNCHANGED serviceMap
  BY <1>1 DEF MapsFinite
<1>2. ASSUME NEW v \in Workers, FinishHandler(v)
      PROVE  MapsFinite'
  <2>1. PICK new : \A w \in Workers :
          serviceMap'[w] \in {serviceMap[w], serviceMap[w] \cup {new}}
    BY <1>2 DEF FinishHandler, TypeInv, TypeOK
  <2>2. \A w \in Workers : IsFiniteSet(serviceMap[w] \cup {new})
    BY FS_AddElement DEF MapsFinite
  <2> QED
    BY <2>1, <2>2 DEF MapsFinite
<1>3. CASE Destroy
  BY <1>3, FS_EmptySet DEF Destroy, MapsFinite
<1>4. \/ UNCHANGED serviceMap
      \/ \E v \in Workers : FinishHandler(v)
      \/ Destroy
  BY DEF Next, MainStep, Launch, Launched, Wake, Shutdown, StopWorker, JoinWorker,
         WaitAgain, CallStep, AskService, ReadCount, Refuse, CountService, Post,
         HandlerStep, StartHandler, LeaveLoop, vars, workerVars
<1> QED
  BY <1>1, <1>2, <1>3, <1>4

-----------------------------------------------------------------------------
LEMMA CountsNext ==
  ASSUME IdsFit, TypeInv, TeardownInv, CountsFit, GenFit, Drawn, CountsInv, [Next]_vars
  PROVE  CountsInv'
<1>a. NoOverflow /\ MapsFinite /\ MapsFinite'
  BY IdsFitWords, MapsFiniteNext DEF CountsInv
<1> SUFFICES ASSUME NEW w \in Workers, mainPc' # "done"
             PROVE  (serviceNum[w] = Accounted(w))'
  BY <1>a DEF CountsInv, CountsExact, Accounted
<1>b. serviceNum[w] = Accounted(w)
  BY StaysDone DEF CountsInv, CountsExact, Accounted
<1>c. /\ serviceNum[w] \in Nat
      /\ Cardinality(Posting(w)) \in Nat /\ Len(queue[w]) \in Nat
      /\ Handling(w) \in 0..1 /\ Cardinality(serviceMap[w]) \in Nat
  BY <1>a, CountTypes
<1>1. ASSUME Posting(w)' = Posting(w),
             UNCHANGED <<serviceNum, queue, loading, serviceMap>>
      PROVE  (serviceNum[w] = Accounted(w))'
  BY <1>1, <1>b DEF Accounted, Handling
<1>2. ASSUME NEW c \in Callers, NEW id \in AskedIds \cup {0}, AskService(c, id)
      PROVE  (serviceNum[w] = Accounted(w))'
  <2>1. Posting(w)' = Posting(w)
    BY <1>2, AskFacts, PostingKept
  <2> QED
    BY <1>1, <1>2, <2>1 DEF AskService, workerVars, countVars
<1>3. ASSUME NEW c \in Callers, ReadCount(c)
      PROVE  (serviceNum[w] = Accounted(w))'
  <2>1. Posting(w)' = Posting(w)
    BY <1>3, ReadFacts, PostingKept
  <2> QED
    BY <1>1, <1>3, <2>1 DEF ReadCount, workerVars, countVars
<1>4. ASSUME NEW c \in Callers, Refuse(c)
      PROVE  (serviceNum[w] = Accounted(w))'
  <2>1. call[c].pc = "pick" /\ Return(c)
    BY <1>4 DEF Refuse, Scanned
  <2>2. Posting(w)' = Posting(w)
    BY <2>1, ReturnFacts, PostingKept
  <2> QED
    BY <1>1, <1>4, <2>2 DEF Refuse, workerVars, countVars
<1>5. ASSUME NEW c \in Callers, CountService(c)
      PROVE  (serviceNum[w] = Accounted(w))'
  <2>1. /\ call[c].pc = "pick" /\ call'[c].pc = "post"
        /\ \A d \in Callers \ {c} : call'[d] = call[d]
        /\ call[c].target \in Workers
    BY <1>5, CountFacts
  <2>2. call'[c].target = call[c].target
    <3>1. call'[c] = [call[c] EXCEPT !.pc = "post"] /\ call[c] \in CallStates
      BY <1>5 DEF CountService, TypeInv, TypeOK
    <3> QED
      BY <3>1 DEF CallStates
  <2>3. serviceNum' = [serviceNum EXCEPT ![call[c].target] = serviceNum[call[c].target] + 1]
    BY <1>5, <1>a, CountRises
  <2>4. UNCHANGED <<queue, loading, serviceMap>>
    BY <1>5 DEF CountService, workerVars
  <2>5. CASE call[c].target = w
    <3>1. c \in Callers \ Posting(w) /\ Posting(w)' = Posting(w) \cup {c}
      BY <2>1, <2>2, <2>5 DEF Posting
    <3>2. Cardinality(Posting(w)') = Cardinality(Posting(w)) + 1
      BY <3>1, <1>a, CountTypes, CardinalityWith
    <3>3. serviceNum'[w] = serviceNum[w] + 1
      BY <2>3, <2>5 DEF TypeInv, TypeOK
    <3>4. Accounted(w)' = Cardinality(Posting(w)') + Len(queue[w]) + Handling(w)
                            + Cardinality(serviceMap[w])
      BY <2>4 DEF Accounted, Handling
    <3>5. serviceNum[w] = Cardinality(Posting(w)) + Len(queue[w]) + Handling(w)
                            + Cardinality(serviceMap[w])
      BY <1>b DEF Accounted
    <3>6. serviceNum'[w] = Accounted(w)'
      BY <1>c, <3>2, <3>3, <3>4, <3>5
    <3> QED
      BY <3>6
  <2>6. CASE call[c].target # w
    <3>1. Posting(w)' = Posting(w)
      BY <2>1, <2>2, <2>6 DEF Posting
    <3>2. serviceNum'[w] = serviceNum[w]
      BY <2>3, <2>6 DEF TypeInv, TypeOK
    <3> QED
      BY <1>b, <2>4, <3>1, <3>2 DEF Accounted, Handling
  <2> QED
    BY <2>5, <2>6
<1>6. ASSUME NEW c \in Callers, Post(c)
      PROVE  (serviceNum[w] = Accounted(w))'
  <2>1. /\ call[c].pc = "post" /\ call'[c].pc = "idle"
        /\ \A d \in Callers \ {c} : call'[d] = call[d]
    BY <1>6, ReturnFacts DEF Post
  <2>2. call[c].target \in Workers /\ call[c].req \in Requests
    BY <1>6 DEF Post, TypeInv, CallsSound
  <2>3. queue' = [queue EXCEPT ![call[c].target] =
                    Append(queue[call[c].target], call[c].req)]
    BY <1>6 DEF Post
  <2>4. UNCHANGED <<serviceNum, loading, serviceMap>>
    BY <1>6 DEF Post, workerVars, countVars
  <2>5. CASE call[c].target = w
    <3>1. c \in Posting(w) /\ Posting(w)' = Posting(w) \ {c}
      BY <2>1, <2>5 DEF Posting
    <3>2. Cardinality(Posting(w)') = Cardinality(Posting(w)) - 1
      BY <3>1, <1>a, CountTypes, CardinalityWithout
    <3>3. queue'[w] = Append(queue[w], call[c].req)
      BY <2>3, <2>5 DEF TypeInv, TypeOK
    <3>4. Len(queue'[w]) = Len(queue[w]) + 1
      BY <1>a, <2>2, <3>3, CountTypes
    <3> QED
      BY <1>b, <1>c, <2>4, <3>2, <3>4 DEF Accounted, Handling
  <2>6. CASE call[c].target # w
    <3>1. Posting(w)' = Posting(w)
      BY <2>1, <2>6 DEF Posting
    <3>2. queue'[w] = queue[w]
      BY <2>3, <2>6 DEF TypeInv, TypeOK
    <3> QED
      BY <1>b, <2>4, <3>1, <3>2 DEF Accounted, Handling
  <2> QED
    BY <2>5, <2>6
<1>7. ASSUME NEW v \in Workers, StartHandler(v)
      PROVE  (serviceNum[w] = Accounted(w))'
  <2>1. UNCHANGED <<serviceNum, serviceMap>> /\ Posting(w)' = Posting(w)
    BY <1>7 DEF StartHandler, Posting, countVars
  <2>2. CASE v = w
    <3>1. queue[w] \in Seq(Requests) /\ queue[w] # <<>> /\ loading[w] = 0
      BY <1>7, <1>a, <2>2, CountTypes DEF StartHandler
    <3>2. queue'[w] = Tail(queue[w]) /\ loading'[w] = Head(queue[w])
      BY <1>7, <2>2 DEF StartHandler, TypeInv, TypeOK
    <3>3. Len(queue'[w]) = Len(queue[w]) - 1
      BY <3>1, <3>2
    <3>4. loading'[w] # 0
      BY <3>1, <3>2, ConstantsOK DEF Requests
    <3> QED
      BY <1>b, <1>c, <2>1, <3>1, <3>3, <3>4 DEF Accounted, Handling
  <2>3. CASE v # w
    <3>1. queue'[w] = queue[w] /\ loading'[w] = loading[w]
      BY <1>7, <2>3 DEF StartHandler, TypeInv, TypeOK
    <3> QED
      BY <1>b, <2>1, <3>1 DEF Accounted, Handling
  <2> QED
    BY <2>2, <2>3
<1>8. ASSUME NEW v \in Workers, FinishHandler(v)
      PROVE  (serviceNum[w] = Accounted(w))'
  <2> DEFINE new == [id |-> ServiceId(genID[v], v), req |-> loading[v]]
  <2>1. UNCHANGED <<serviceNum, queue>> /\ Posting(w)' = Posting(w) /\ loading[v] # 0
    BY <1>8 DEF FinishHandler, Posting, countVars
  <2>2. \A e \in serviceMap[v] : e.id # new.id
    BY <2>1, FreshId
  <2>3. serviceMap' = [serviceMap EXCEPT ![v] = serviceMap[v] \cup {new}]
    BY <1>8, <2>2 DEF FinishHandler
  <2>4. new \notin serviceMap[v]
    BY <2>2
  <2> HIDE DEF new
  <2>5. CASE v = w
    <3>1. serviceMap'[w] = serviceMap[w] \cup {new} /\ loading'[w] = 0
      BY <1>8, <2>3, <2>5 DEF FinishHandler, TypeInv, TypeOK
    <3>2. Cardinality(serviceMap'[w]) = Cardinality(serviceMap[w]) + 1
      BY <1>a, <2>4, <2>5, <3>1, FS_AddElement DEF MapsFinite
    <3> QED
      BY <1>b, <1>c, <2>1, <2>5, <3>1, <3>2 DEF Accounted, Handling
  <2>6. CASE v # w
    <3>1. serviceMap'[w] = serviceMap[w] /\ loading'[w] = loading[w]
      BY <1>8, <2>3, <2>6 DEF FinishHandler, TypeInv, TypeOK
    <3> QED
      BY <1>b, <2>1, <3>1 DEF Accounted, Handling
  <2> QED
    BY <2>5, <2>6
<1>9. ASSUME UNCHANGED <<call, serviceNum, queue, loading, serviceMap>>
      PROVE  (serviceNum[w] = Accounted(w))'
  BY <1>1, <1>9 DEF Posting
<1>10. \/ \E c \in Callers : CallStep(c)
       \/ \E v \in Workers : StartHandler(v) \/ FinishHandler(v)
       \/ UNCHANGED <<call, serviceNum, queue, loading, serviceMap>>
  BY DEF Next, MainStep, Launch, Launched, Wake, Shutdown, StopWorker, JoinWorker,
         WaitAgain, Destroy, HandlerStep, LeaveLoop, vars, workerVars, countVars
<1> QED
  BY <1>2, <1>3, <1>4, <1>5, <1>6, <1>7, <1>8, <1>9, <1>10 DEF CallStep

LEMMA CountsInit == Init => CountsInv
<1> SUFFICES ASSUME Init PROVE CountsInv
  OBVIOUS
<1>1. \A w \in Workers : Posting(w) = {}
  BY DEF Init, Posting, NoCall
<1>2. \A w \in Workers : /\ serviceNum[w] = 0 /\ Len(queue[w]) = 0
                         /\ loading[w] = 0 /\ serviceMap[w] = {}
  BY DEF Init
<1>3. MapsFinite
  BY <1>2, FS_EmptySet DEF MapsFinite
<1>4. \A w \in Workers : /\ Cardinality(Posting(w)) = 0 /\ Handling(w) = 0
                         /\ Cardinality(serviceMap[w]) = 0
  BY <1>1, <1>2, FS_EmptySet DEF Handling
<1> QED
  BY <1>2, <1>3, <1>4 DEF CountsInv, CountsExact

(* Until the server is destroyed, and while the local ids fit, a worker's    *)
(* serviceNum is exactly its services about to be posted, queued, being     *)
(* loaded and in its map, whatever the number of threads that raise it.     *)
THEOREM CountsAreExact == IdsFit => (Spec => []CountsExact)
<1> SUFFICES ASSUME IdsFit PROVE Spec => []CountsExact
  OBVIOUS
<1>1. NoOverflow
  BY IdsFitWords
<1>2. TypeInv /\ CountsFit /\ [Next]_vars => CountsFit'
  BY <1>1, FitNext
<1>3. TypeInv /\ GenFit /\ [Next]_vars => GenFit'
  BY <1>1, GenNext
<1>4. TypeInv /\ GenFit /\ Drawn /\ [Next]_vars => Drawn'
  BY <1>1, DrawnNext
<1>5. TypeInv /\ TeardownInv /\ CountsFit /\ GenFit /\ Drawn /\ CountsInv /\ [Next]_vars
        => CountsInv'
  BY CountsNext
<1>6. Init => CountsFit
  BY BalancerInit DEF BalancerInv
<1>7. CountsInv => CountsExact
  BY DEF CountsInv
<1> QED
  BY <1>2, <1>3, <1>4, <1>5, <1>6, <1>7, TypeInit, TypeNext, TeardownInit, TeardownNext,
     IdsInit, CountsInit, PTL DEF Spec

-----------------------------------------------------------------------------
(* Beyond the local ids.  Nothing bounds the number of requests here.       *)

(* The bits of the last worker do not leave the word. *)
WorkersFit == Threads * IdSpan <= UINT32_MAX

LEMMA LocalIdIsSum ==
  ASSUME WorkersFit, NEW w \in Workers, NEW g \in 0..(IdSpan - 1)
  PROVE  /\ ServiceId(g, w) = g + w * IdSpan
         /\ w * IdSpan \in Nat /\ IdSpan <= UINT32_MAX
<1>1. /\ w * IdSpan \in Nat /\ w * IdSpan <= Threads * IdSpan
      /\ IdSpan <= w * IdSpan /\ Threads * IdSpan \in Nat
  <2>1. w \in Nat /\ Threads - w \in Nat /\ w - 1 \in Nat /\ IdSpan \in Nat /\ Threads \in Nat
    BY ConstantsOK DEF Workers
  <2>2. /\ w * IdSpan \in Nat /\ (Threads - w) * IdSpan \in Nat
        /\ (w - 1) * IdSpan \in Nat /\ Threads * IdSpan \in Nat
    BY <2>1
  <2>3. /\ Threads * IdSpan = w * IdSpan + (Threads - w) * IdSpan
        /\ w * IdSpan = IdSpan + (w - 1) * IdSpan
    BY <2>1
  <2> QED
    BY <2>1, <2>2, <2>3
<1>2. w * IdSpan \in 0..UINT32_MAX /\ IdSpan <= UINT32_MAX
  BY <1>1, ConstantsOK DEF WorkersFit
<1>3. Wrap(w * IdSpan) = w * IdSpan
  BY <1>2, WrapSmall
<1> QED
  BY <1>1, <1>2, <1>3, BitOrOK, ConstantsOK DEF ServiceId

(* A worker has as many services as local ids that are not 0, or it has one  *)
(* service for every id it has drawn, the one being loaded left out.        *)
Spent(w) == Cardinality(serviceMap[w]) >= IdSpan - 1

InOrder(w) ==
  /\ Cardinality(serviceMap[w]) = LastMapped(w)
  /\ \A e \in serviceMap[w] : \E g \in 0..LastMapped(w) : e.id = ServiceId(g, w)

IdsLast == mainPc # "done" => \A w \in Workers : Spent(w) \/ InOrder(w)

SpentInv == OneEach /\ MapsFinite /\ IdsLast

(* emplace takes the service of a worker with local ids left. *)
LEMMA FinishAdds ==
  ASSUME WorkersFit, TypeInv, MapsFinite, NEW v \in Workers, FinishHandler(v),
         InOrder(v), ~Spent(v)
  PROVE  \E new \in [id : {ServiceId(genID[v], v)}, req : {loading[v]}] :
           /\ serviceMap' = [serviceMap EXCEPT ![v] = serviceMap[v] \cup {new}]
           /\ new \notin serviceMap[v]
<1> DEFINE new == [id |-> ServiceId(genID[v], v), req |-> loading[v]]
<1>1. /\ genID[v] \in Nat /\ LastMapped(v) = genID[v] - 1
      /\ LastMapped(v) \in Nat /\ LastMapped(v) < IdSpan - 1
  <2>1. genID[v] \in Nat /\ Cardinality(serviceMap[v]) \in Nat
    BY CountTypes, GenTypes
  <2>2. LastMapped(v) = genID[v] - 1
    BY DEF LastMapped, Handling, FinishHandler
  <2> QED
    BY <2>1, <2>2, ConstantsOK DEF InOrder, Spent
<1>2. ASSUME NEW e \in serviceMap[v] PROVE e.id # new.id
  <2>1. PICK g \in 0..LastMapped(v) : e.id = ServiceId(g, v)
    BY DEF InOrder
  <2>2. g \in 0..(IdSpan - 1) /\ genID[v] \in 0..(IdSpan - 1) /\ g < genID[v]
    BY <1>1, ConstantsOK
  <2>3. /\ ServiceId(g, v) = g + v * IdSpan
        /\ ServiceId(genID[v], v) = genID[v] + v * IdSpan
        /\ v * IdSpan \in Nat
    BY <2>2, LocalIdIsSum
  <2> QED
    BY <2>1, <2>2, <2>3, ConstantsOK
<1>3. serviceMap' = [serviceMap EXCEPT ![v] = serviceMap[v] \cup {new}]
  BY <1>2 DEF FinishHandler
<1>4. new \notin serviceMap[v]
  BY <1>2
<1> QED
  BY <1>3, <1>4

(* A step of the worker keeps its services in the order of their ids. *)
LEMMA OrderKept ==
  ASSUME WorkersFit, TypeInv, MapsFinite, NEW w \in Workers, InOrder(w), ~Spent(w),
         StartHandler(w) \/ FinishHandler(w)
  PROVE  InOrder(w)'
<1>a. \A g : ServiceId(g, w)' = ServiceId(g, w)
  BY DEF ServiceId, Wrap
<1>b. /\ genID[w] \in Nat /\ Cardinality(serviceMap[w]) \in Nat
      /\ Cardinality(serviceMap[w]) = LastMapped(w) /\ LastMapped(w) < IdSpan - 1
  <2>1. genID[w] \in Nat /\ Cardinality(serviceMap[w]) \in Nat
    BY CountTypes, GenTypes
  <2> QED
    BY <2>1, ConstantsOK DEF InOrder, Spent
<1>1. CASE StartHandler(w)
  <2>1. LastMapped(w) = genID[w]
    BY <1>1, <1>b DEF StartHandler, LastMapped, Handling
  <2>2. IdSpan <= UINT32_MAX
    <3>1. 0 \in 0..(IdSpan - 1)
      BY ConstantsOK
    <3> QED
      BY <3>1, LocalIdIsSum
  <2>3. genID[w] + 1 \in 0..UINT32_MAX
    BY <1>b, <2>1, <2>2, ConstantsOK
  <2>4. genID'[w] = genID[w] + 1
    <3>1. genID'[w] = Wrap(genID[w] + 1)
      BY <1>1 DEF StartHandler, TypeInv, TypeOK
    <3> QED
      BY <2>3, <3>1, WrapSmall
  <2>5. loading'[w] # 0
    <3>1. queue[w] \in Seq(Requests) /\ queue[w] # <<>>
      BY <1>1, GenTypes DEF StartHandler
    <3>2. Head(queue[w]) \in Requests
      BY <3>1
    <3> QED
      BY <1>1, <3>2, ConstantsOK DEF StartHandler, Requests, TypeInv, TypeOK
  <2>6. LastMapped(w)' = LastMapped(w)
    BY <1>b, <2>1, <2>4, <2>5 DEF LastMapped, Handling
  <2> QED
    BY <1>1, <1>a, <2>6 DEF InOrder, StartHandler
<1>2. CASE FinishHandler(w)
  <2>1. PICK new \in [id : {ServiceId(genID[w], w)}, req : {loading[w]}] :
          /\ serviceMap' = [serviceMap EXCEPT ![w] = serviceMap[w] \cup {new}]
          /\ new \notin serviceMap[w]
    BY <1>2, FinishAdds
  <2>2. serviceMap'[w] = serviceMap[w] \cup {new} /\ new.id = ServiceId(genID[w], w)
    BY <2>1 DEF TypeInv, TypeOK
  <2>3. Cardinality(serviceMap'[w]) = Cardinality(serviceMap[w]) + 1
    BY <2>1, <2>2, FS_AddElement DEF MapsFinite
  <2>4. LastMapped(w) = genID[w] - 1 /\ LastMapped(w)' = genID[w]
    BY <1>2, <1>b DEF FinishHandler, LastMapped, Handling, TypeInv, TypeOK
  <2>5. Cardinality(serviceMap'[w]) = LastMapped(w)'
    BY <1>b, <2>3, <2>4
  <2>6. ASSUME NEW e \in serviceMap'[w]
        PROVE  \E g \in 0..LastMapped(w)' : e.id = ServiceId(g, w)
    <3>1. CASE e = new
      BY <1>b, <2>2, <2>4, <3>1
    <3>2. CASE e \in serviceMap[w]
      <4>1. PICK g \in 0..LastMapped(w) : e.id = ServiceId(g, w)
        BY <3>2 DEF InOrder
      <4>2. g \in 0..LastMapped(w)'
        BY <1>b, <2>4
      <4> QED
        BY <4>1, <4>2
    <3> QED
      BY <2>2, <3>1, <3>2
  <2> QED
    BY <1>a, <2>5, <2>6 DEF InOrder
<1> QED
  BY <1>1, <1>2

LEMMA SpentNext ==
  ASSUME WorkersFit, TypeInv, TeardownInv, SpentInv, [Next]_vars
  PROVE  SpentInv'
<1>1. OneEach' /\ MapsFinite'
  BY MapSteps, MapsFiniteNext DEF SpentInv
<1>2. ASSUME NEW w \in Workers, mainPc' # "done"
      PROVE  (Spent(w) \/ InOrder(w))'
  <2>1. Spent(w) \/ InOrder(w)
    BY <1>2, StaysDone DEF SpentInv, IdsLast
  <2>2. CASE Spent(w)
    <3>1. serviceMap[w] \subseteq serviceMap'[w] /\ IsFiniteSet(serviceMap'[w])
      BY <1>1, <1>2, MapSteps DEF SpentInv, MapsFinite
    <3>2. Cardinality(serviceMap[w]) <= Cardinality(serviceMap'[w])
      BY <3>1, FS_Subset
    <3>3. Cardinality(serviceMap[w]) \in Nat /\ Cardinality(serviceMap'[w]) \in Nat
      BY <3>1, FS_CardinalityType DEF SpentInv, MapsFinite
    <3> QED
      BY <2>2, <3>2, <3>3, ConstantsOK DEF Spent
  <2>3. CASE InOrder(w) /\ ~Spent(w)
    <3>1. CASE StartHandler(w) \/ FinishHandler(w)
      BY <2>3, <3>1, OrderKept DEF SpentInv
    <3>2. CASE ~(StartHandler(w) \/ FinishHandler(w))
      <4>1. genID'[w] = genID[w] /\ loading'[w] = loading[w] /\ serviceMap'[w] = serviceMap[w]
        <5>1. ASSUME NEW v \in Workers, StartHandler(v) \/ FinishHandler(v)
              PROVE  genID'[w] = genID[w] /\ loading'[w] = loading[w]
                       /\ serviceMap'[w] = serviceMap[w]
          BY <3>2, <5>1 DEF StartHandler, FinishHandler, TypeInv, TypeOK
        <5>2. \/ UNCHANGED <<genID, loading, serviceMap>>
              \/ \E v \in Workers : StartHandler(v) \/ FinishHandler(v)
          BY <1>2 DEF Next, MainStep, Launch, Launched, Wake, Shutdown, StopWorker,
               JoinWorker, WaitAgain, Destroy, CallStep, AskService, ReadCount, Refuse,
               CountService, Post, HandlerStep, LeaveLoop, vars, workerVars
        <5> QED
          BY <5>1, <5>2
      <4>2. \A g : ServiceId(g, w)' = ServiceId(g, w)
        BY DEF ServiceId, Wrap
      <4> QED
        BY <2>3, <4>1, <4>2 DEF InOrder, LastMapped, Handling
    <3> QED
      BY <3>1, <3>2
  <2> QED
    BY <2>1, <2>2, <2>3
<1> QED
  BY <1>1, <1>2 DEF SpentInv, IdsLast

(* Whatever the number of requests, and so also when genID has wrapped into  *)
(* the worker's bits: emplace drops a service only of a worker that has at  *)
(* least as many services as there are local ids other than 0.              *)
THEOREM LossNeedsSpentIds == WorkersFit => (Spec => LostOnlyWhenSpent)
<1> SUFFICES ASSUME WorkersFit PROVE Spec => LostOnlyWhenSpent
  OBVIOUS
<1>1. Init => SpentInv
  <2> SUFFICES ASSUME Init PROVE SpentInv
    OBVIOUS
  <2>1. \A w \in Workers : serviceMap[w] = {} /\ genID[w] = 0 /\ loading[w] = 0
    BY DEF Init
  <2>2. OneEach /\ MapsFinite
    BY <2>1, FS_EmptySet DEF OneEach, MapsFinite
  <2>3. \A w \in Workers : InOrder(w)
    BY <2>1, FS_EmptySet DEF InOrder, LastMapped, Handling
  <2> QED
    BY <2>2, <2>3 DEF SpentInv, IdsLast
<1>2. TypeInv /\ TeardownInv /\ SpentInv /\ [Next]_vars => SpentInv'
  BY SpentNext
<1>3. TypeInv /\ TeardownInv /\ SpentInv /\ [Next]_vars =>
        [\A w \in Workers :
           loading[w] # 0 /\ loading'[w] = 0 =>
             \/ \E e \in serviceMap'[w] : e.req = loading[w]
             \/ Cardinality(serviceMap[w]) >= IdSpan - 1]_vars
  <2> SUFFICES ASSUME TypeInv, TeardownInv, SpentInv, Next,
                      NEW w \in Workers, loading[w] # 0, loading'[w] = 0, ~Spent(w)
               PROVE  \E e \in serviceMap'[w] : e.req = loading[w]
    BY DEF Spent
  <2>1. mainPc # "done"
    BY DEF TeardownInv, CallersSound, JoinedSound
  <2>2. InOrder(w) /\ MapsFinite
    BY <2>1 DEF SpentInv, IdsLast
  <2>3. FinishHandler(w)
    <3>1. \/ UNCHANGED loading
          \/ \E v \in Workers : StartHandler(v) \/ FinishHandler(v)
      BY DEF Next, MainStep, Launch, Launched, Wake, Shutdown, StopWorker, JoinWorker,
             WaitAgain, Destroy, CallStep, AskService, ReadCount, Refuse, CountService,
             Post, HandlerStep, LeaveLoop, vars, workerVars
    <3> QED
      BY <3>1 DEF StartHandler, FinishHandler, TypeInv, TypeOK
  <2>4. PICK new \in [id : {ServiceId(genID[w], w)}, req : {loading[w]}] :
          serviceMap' = [serviceMap EXCEPT ![w] = serviceMap[w] \cup {new}]
    BY <2>2, <2>3, FinishAdds
  <2>5. new \in serviceMap'[w] /\ new.req = loading[w]
    BY <2>4 DEF TypeInv, TypeOK
  <2> QED
    BY <2>5
<1> QED
  BY <1>1, <1>2, <1>3, TypeInit, TypeNext, TeardownInit, TeardownNext,
     PTL DEF Spec, LostOnlyWhenSpent

=============================================================================
