--------------------------- MODULE BalancerProofs ---------------------------
(* How wrong the balancer of ServerWorkers can be: the proof that callers   *)
(* which scan the counts at the same time, each seeing stale ones, overload *)
(* a worker by one service per thread at most.                              *)
EXTENDS ServerWorkersProofs, FiniteSetTheorems

-----------------------------------------------------------------------------
(* The invariant. *)

InFlight == {c \in Callers : call[c].pc # "idle"}
Scanning == {c \in Callers : call[c].pc = "pick"}

(* Until main's first request has been posted the workers have no work.     *)
QuietBoot ==
  mainPc \in {"launch", "boot", "call"} =>
    \A w \in Workers : queue[w] = <<>> /\ loading[w] = 0

(* No count passes the number of requests, so none wraps. *)
CountsFit ==
  \A w \in Workers : serviceNum[w] + Cardinality(Scanning) <= issued

(* What the balancer has placed on a worker has been counted there. *)
Counted == \A w \in Workers : placed[w] <= serviceNum[w]

(* The least count a scan remembers is at most the present count of every   *)
(* worker it has passed: counts only grow.                                  *)
ScanSound ==
  \A c \in Callers :
    call[c].pc = "pick" /\ call[c].balanced =>
      \A v \in Workers : v < call[c].next => call[c].min <= serviceNum[v]

(* The scans that are about to choose w because they saw its count at m or  *)
(* below.                                                                   *)
Aiming(w, m) ==
  {c \in Callers : /\ call[c].pc = "pick" /\ call[c].balanced
                   /\ call[c].target = w /\ call[c].min <= m}

(* Once w has been given more than v has, a scan that starts does not choose *)
(* w any more; only those that read its count before still may.             *)
AimBound ==
  \A w, v \in Workers, m \in Nat :
    serviceNum[v] <= m /\ m < placed[w] =>
      placed[w] + Cardinality(Aiming(w, m)) <= m + Threads

BalancerInv == QuietBoot /\ CountsFit /\ Counted /\ ScanSound /\ AimBound

-----------------------------------------------------------------------------
(* Finiteness of the sets of callers. *)

LEMMA CallersFinite ==
  /\ IsFiniteSet(Callers)
  /\ \A S \in SUBSET Callers : IsFiniteSet(S) /\ Cardinality(S) \in Nat
<1>1. Callers = 0..Threads
  BY ConstantsOK DEF Callers, Main, Workers
<1>2. IsFiniteSet(Callers)
  BY <1>1, ConstantsOK, FS_Interval
<1>3. ASSUME NEW S \in SUBSET Callers
      PROVE  IsFiniteSet(S) /\ Cardinality(S) \in Nat
  BY <1>2, FS_Subset, FS_CardinalityType
<1> QED
  BY <1>2, <1>3

LEMMA CardinalityGrows ==
  ASSUME NEW S \in SUBSET Callers, NEW T \in SUBSET S
  PROVE  Cardinality(T) <= Cardinality(S)
  BY CallersFinite, FS_Subset

LEMMA CardinalityWithout ==
  ASSUME NEW S \in SUBSET Callers, NEW c \in S
  PROVE  Cardinality(S \ {c}) = Cardinality(S) - 1
  BY CallersFinite, FS_RemoveElement

LEMMA CardinalityWith ==
  ASSUME NEW S \in SUBSET Callers, NEW c \in Callers \ S
  PROVE  Cardinality(S \cup {c}) = Cardinality(S) + 1
  BY CallersFinite, FS_AddElement

(* Main asks alone, before the workers have anything to do; afterwards only *)
(* they ask.                                                                *)
LEMMA OneCallPerThread ==
  ASSUME TypeInv, TeardownInv, QuietBoot, Workers # {}
  PROVE  Cardinality(InFlight) <= Threads
<1>1. Threads \in Nat /\ Threads >= 1
  BY ConstantsOK DEF Workers
<1>2. CASE call[Main].pc # "idle"
  <2>1. \A w \in Workers : call[w].pc = "idle"
    BY <1>2 DEF TeardownInv, CallersSound, QuietBoot
  <2>2. InFlight \subseteq {Main}
    BY <2>1 DEF InFlight, Callers
  <2>3. IsFiniteSet({Main}) /\ Cardinality({Main}) = 1
    BY FS_Singleton
  <2>4. Cardinality(InFlight) <= Cardinality({Main})
    BY <2>2, <2>3, FS_Subset
  <2>5. Cardinality(InFlight) \in Nat
    BY CallersFinite DEF InFlight
  <2> QED
    BY <1>1, <2>3, <2>4, <2>5
<1>3. CASE call[Main].pc = "idle"
  <2>1. InFlight \subseteq Workers
    BY <1>3 DEF InFlight, Callers
  <2>2. IsFiniteSet(Workers) /\ Cardinality(Workers) = Threads
    BY <1>1, FS_Interval DEF Workers
  <2> QED
    BY <2>1, <2>2, FS_Subset
<1> QED
  BY <1>2, <1>3

-----------------------------------------------------------------------------
(* What each step of a call does to the call's record. *)

LEMMA AskFacts ==
  ASSUME TypeInv, NEW c \in Callers, NEW id \in AskedIds \cup {0}, AskService(c, id)
  PROVE  /\ call[c].pc = "idle" /\ call'[c].pc = "pick"
         /\ call'[c].balanced => call'[c].next = 1 /\ call'[c].target = 0
         /\ \A d \in Callers \ {c} : call'[d] = call[d]
<1>1. /\ \A r : /\ ScanFrom1(r).pc = "pick"
                /\ ScanFrom1(r).next = 1 /\ ScanFrom1(r).target = 0
      /\ \A r, w : Explicit(r, w).pc = "pick" /\ Explicit(r, w).balanced = FALSE
  BY DEF ScanFrom1, Explicit, NoCall
<1>2. call'[c] = IF id \in Workers THEN Explicit(issued + 1, id) ELSE ScanFrom1(issued + 1)
  BY DEF TypeInv, TypeOK, AskService
<1> QED
  BY <1>1, <1>2 DEF TypeInv, TypeOK, AskService, MayAsk

LEMMA ReadFacts ==
  ASSUME TypeInv, NEW c \in Callers, ReadCount(c)
  PROVE  LET w == call[c].next
         IN /\ call[c].pc = "pick" /\ call'[c].pc = "pick"
            /\ w \in Workers /\ call'[c].next = w + 1
            /\ call'[c].balanced = call[c].balanced
            /\ serviceNum[w] < call[c].min =>
                 call'[c].min = serviceNum[w] /\ call'[c].target = w
            /\ ~(serviceNum[w] < call[c].min) =>
                 call'[c].min = call[c].min /\ call'[c].target = call[c].target
            /\ \A d \in Callers \ {c} : call'[d] = call[d]
<1> DEFINE w == call[c].next
<1>1. /\ call[c] \in CallStates /\ call[c].pc = "pick" /\ w \in Workers
      /\ \A d \in Callers \ {c} : call'[d] = call[d]
      /\ call'[c] = IF serviceNum[w] < call[c].min
                      THEN [call[c] EXCEPT !.next = w + 1, !.min = serviceNum[w],
                                           !.target = w]
                      ELSE [call[c] EXCEPT !.next = w + 1]
  BY DEF TypeInv, TypeOK, ReadCount
<1> HIDE DEF w
<1>2. CASE serviceNum[w] < call[c].min
  <2>1. call'[c] = [call[c] EXCEPT !.next = w + 1, !.min = serviceNum[w], !.target = w]
    BY <1>1, <1>2
  <2>2. /\ call'[c].pc = "pick" /\ call'[c].next = w + 1
        /\ call'[c].balanced = call[c].balanced
        /\ call'[c].min = serviceNum[w] /\ call'[c].target = w
    BY <1>1, <2>1 DEF CallStates
  <2> QED
    BY <1>1, <1>2, <2>2 DEF w
<1>3. CASE ~(serviceNum[w] < call[c].min)
  <2>1. call'[c] = [call[c] EXCEPT !.next = w + 1]
    BY <1>1, <1>3
  <2>2. /\ call'[c].pc = "pick" /\ call'[c].next = w + 1
        /\ call'[c].balanced = call[c].balanced
        /\ call'[c].min = call[c].min /\ call'[c].target = call[c].target
    BY <1>1, <2>1 DEF CallStates
  <2> QED
    BY <1>1, <1>3, <2>2 DEF w
<1> QED
  BY <1>2, <1>3

LEMMA CountFacts ==
  ASSUME TypeInv, NEW c \in Callers, CountService(c)
  PROVE  LET w == call[c].target
         IN /\ call[c].pc = "pick" /\ call'[c].pc = "post"
            /\ w \in Workers /\ call[c].next = Threads + 1
            /\ \A d \in Callers \ {c} : call'[d] = call[d]
            /\ serviceNum' = [serviceNum EXCEPT ![w] = Wrap(serviceNum[w] + 1)]
            /\ placed' = IF call[c].balanced THEN [placed EXCEPT ![w] = placed[w] + 1]
                                             ELSE placed
<1>1. call[c] \in CallStates /\ call[c].pc = "pick" /\ call[c].next = Threads + 1
  BY DEF TypeInv, TypeOK, CountService, Scanned
<1>2. call[c].target \in Workers
  BY <1>1, ConstantsOK DEF CountService, CallStates, Workers
<1>3. call'[c] = [call[c] EXCEPT !.pc = "post"]
  BY DEF TypeInv, TypeOK, CountService
<1>4. call'[c].pc = "post"
  BY <1>1, <1>3 DEF CallStates
<1> QED
  BY <1>1, <1>2, <1>4 DEF TypeInv, TypeOK, CountService

LEMMA ReturnFacts ==
  ASSUME TypeInv, NEW c \in Callers, Return(c)
  PROVE  call'[c].pc = "idle" /\ \A d \in Callers \ {c} : call'[d] = call[d]
  BY DEF TypeInv, TypeOK, Return, NoCall

-----------------------------------------------------------------------------
(* No word overflows if it can hold the number of requests. *)

NoOverflow == MaxRequests <= UINT32_MAX

LEMMA WrapSmall == \A n \in 0..UINT32_MAX : Wrap(n) = n
  BY ConstantsOK DEF Wrap

(* The fetch_add raises the count by one. *)
LEMMA CountRises ==
  ASSUME NoOverflow, TypeInv, CountsFit, NEW c \in Callers, CountService(c)
  PROVE  LET w == call[c].target
         IN serviceNum' = [serviceNum EXCEPT ![w] = serviceNum[w] + 1]
<1> DEFINE w == call[c].target
<1>1. c \in Scanning /\ w \in Workers
      /\ serviceNum' = [serviceNum EXCEPT ![w] = Wrap(serviceNum[w] + 1)]
  BY CountFacts DEF Scanning
<1>2. Cardinality(Scanning \ {c}) \in Nat /\ Cardinality(Scanning) \in Nat
  BY CallersFinite DEF Scanning
<1>3. Cardinality(Scanning) >= 1
  BY <1>1, <1>2, CardinalityWithout DEF Scanning
<1>4. serviceNum[w] + 1 \in 0..UINT32_MAX
  <2>1. serviceNum[w] \in Nat /\ issued \in Nat /\ issued <= UINT32_MAX
    BY <1>1, ConstantsOK DEF TypeInv, TypeOK, NoOverflow
  <2>2. serviceNum[w] + Cardinality(Scanning) <= issued
    BY <1>1 DEF CountsFit
  <2> QED
    BY <1>2, <1>3, <2>1, <2>2, ConstantsOK
<1> QED
  BY <1>1, <1>4, WrapSmall

(* Counts only grow, and only CountService makes them. *)
LEMMA CountsGrow ==
  ASSUME NoOverflow, TypeInv, CountsFit, [Next]_vars
  PROVE  \A v \in Workers : serviceNum[v] <= serviceNum'[v]
<1> USE DEF TypeInv, TypeOK
<1>1. ASSUME NEW c \in Callers, CountService(c)
      PROVE  \A v \in Workers : serviceNum[v] <= serviceNum'[v]
  <2>1. call[c].target \in Workers
    BY <1>1, CountFacts
  <2>2. serviceNum' = [serviceNum EXCEPT ![call[c].target] = serviceNum[call[c].target] + 1]
    BY <1>1, CountRises
  <2> QED
    BY <2>1, <2>2
<1>2. CASE UNCHANGED serviceNum
  BY <1>2
<1>3. (\E c \in Callers : CountService(c)) \/ UNCHANGED serviceNum
  BY DEF Next, MainStep, Launch, Launched, Wake, Shutdown, StopWorker, JoinWorker,
         WaitAgain, Destroy, CallStep, AskService, ReadCount, Refuse, Post,
         HandlerStep, StartHandler, FinishHandler, LeaveLoop, vars, countVars
<1> QED
  BY <1>1, <1>2, <1>3

-----------------------------------------------------------------------------
(* Each part of the invariant is preserved. *)

LEMMA QuietNext ==
  ASSUME TypeInv, TeardownInv, QuietBoot, [Next]_vars
  PROVE  QuietBoot'
<1> USE DEF QuietBoot
<1>1. ASSUME NEW c \in Callers, CallStep(c)
      PROVE  QuietBoot'
  <2>1. CASE \E id \in AskedIds \cup {0} : AskService(c, id)
    <3>1. PICK id \in AskedIds \cup {0} : AskService(c, id)
      BY <2>1
    <3>2. mainPc' \in {"launch", "boot", "call"} => mainPc \in {"launch", "boot", "call"}
      BY <3>1 DEF AskService, MayAsk
    <3> QED
      BY <3>1, <3>2 DEF AskService, workerVars
  <2>2. CASE ReadCount(c) \/ CountService(c)
    BY <2>2 DEF ReadCount, CountService, mainVars, workerVars
  <2>3. CASE Refuse(c)
    <3>1. mainPc' \in {mainPc, "sleep"}
      BY <2>3 DEF Refuse, Return
    <3> QED
      BY <2>3, <3>1 DEF Refuse, workerVars
  <2>4. CASE Post(c)
    <3>1. CASE c = Main
      BY <2>4, <3>1 DEF Post, Return
    <3>2. CASE c # Main
      <4>1. c \in Workers /\ loading[c] # 0 /\ mainPc' = mainPc
        BY <2>4, <3>2 DEF Post, Return, Callers, TeardownInv, CallersSound
      <4> QED
        BY <4>1
    <3> QED
      BY <3>1, <3>2
  <2> QED
    BY <1>1, <2>1, <2>2, <2>3, <2>4 DEF CallStep
<1>2. ASSUME NEW w \in Workers, HandlerStep(w)
      PROVE  QuietBoot'
  <2>1. CASE StartHandler(w)
    BY <2>1 DEF StartHandler, mainVars
  <2>2. CASE FinishHandler(w)
    BY <2>2 DEF FinishHandler, mainVars
  <2>3. CASE LeaveLoop(w)
    BY <2>3 DEF LeaveLoop, mainVars
  <2> QED
    BY <1>2, <2>1, <2>2, <2>3 DEF HandlerStep
<1>3. CASE MainStep
  BY <1>3 DEF MainStep, Launch, Launched, Wake, Shutdown, StopWorker, JoinWorker,
              WaitAgain, Destroy, workerVars
<1>4. CASE UNCHANGED vars
  BY <1>4 DEF vars, mainVars, workerVars
<1> QED
  BY <1>1, <1>2, <1>3, <1>4 DEF Next

LEMMA FitNext ==
  ASSUME NoOverflow, TypeInv, CountsFit, [Next]_vars
  PROVE  CountsFit'
<1>a. /\ Scanning \in SUBSET Callers /\ Scanning' \in SUBSET Callers
      /\ Cardinality(Scanning) \in Nat /\ Cardinality(Scanning') \in Nat
      /\ issued \in Nat /\ \A w \in Workers : serviceNum[w] \in Nat
  BY CallersFinite, ConstantsOK DEF Scanning, TypeInv, TypeOK
<1>1. ASSUME NEW c \in Callers, NEW id \in AskedIds \cup {0}, AskService(c, id)
      PROVE  CountsFit'
  <2>1. c \in Callers \ Scanning /\ Scanning' = Scanning \cup {c}
    BY <1>1, AskFacts DEF Scanning
  <2>2. Cardinality(Scanning') = Cardinality(Scanning) + 1
    BY <1>a, <2>1, CardinalityWith
  <2>3. issued' = issued + 1 /\ serviceNum' = serviceNum
    BY <1>1 DEF AskService, countVars
  <2> QED
    BY <1>a, <2>2, <2>3 DEF CountsFit
<1>2. ASSUME NEW c \in Callers, CountService(c)
      PROVE  CountsFit'
  <2>1. c \in Scanning /\ Scanning' = Scanning \ {c}
    BY <1>2, CountFacts DEF Scanning
  <2>2. Cardinality(Scanning') = Cardinality(Scanning) - 1
    BY <1>a, <2>1, CardinalityWithout
  <2>3. \A w \in Workers : serviceNum'[w] <= serviceNum[w] + 1
    <3>1. call[c].target \in Workers
          /\ serviceNum' = [serviceNum EXCEPT ![call[c].target] = serviceNum[call[c].target] + 1]
      BY <1>2, CountFacts, CountRises
    <3> QED
      BY <1>a, <3>1 DEF TypeInv, TypeOK
  <2>4. issued' = issued /\ \A w \in Workers : serviceNum'[w] \in Nat
    <3>1. TypeInv'
      BY TypeNext
    <3> QED
      BY <1>2, <3>1, ConstantsOK DEF CountService, askVars, TypeInv, TypeOK
  <2> QED
    BY <1>a, <2>2, <2>3, <2>4 DEF CountsFit
<1>3. ASSUME Scanning' \in SUBSET Scanning, UNCHANGED <<serviceNum, issued>>
      PROVE  CountsFit'
  <2>1. Cardinality(Scanning') <= Cardinality(Scanning)
    BY <1>a, <1>3, CardinalityGrows
  <2> QED
    BY <1>a, <1>3, <2>1 DEF CountsFit
<1>4. ASSUME NEW c \in Callers, ReadCount(c)
      PROVE  CountsFit'
  <2>1. Scanning' = Scanning
    BY <1>4, ReadFacts DEF Scanning
  <2> QED
    BY <1>3, <1>4, <2>1 DEF ReadCount, countVars, askVars
<1>5. ASSUME NEW c \in Callers, Refuse(c) \/ Post(c)
      PROVE  CountsFit'
  <2>1. Return(c)
    BY <1>5 DEF Refuse, Post
  <2>2. Scanning' \in SUBSET Scanning
    BY <2>1, ReturnFacts DEF Scanning
  <2> QED
    BY <1>3, <1>5, <2>2 DEF Refuse, Post, countVars, askVars
<1>6. CASE UNCHANGED <<call, serviceNum, issued>>
  BY <1>3, <1>6 DEF Scanning
<1>7. ASSUME NEW c \in Callers, CallStep(c)
      PROVE  CountsFit'
  BY <1>1, <1>2, <1>4, <1>5, <1>7 DEF CallStep
<1>8. (\E c \in Callers : CallStep(c)) \/ UNCHANGED <<call, serviceNum, issued>>
  BY DEF Next, MainStep, Launch, Launched, Wake, Shutdown, StopWorker, JoinWorker,
         WaitAgain, Destroy, HandlerStep, StartHandler, FinishHandler, LeaveLoop,
         vars, countVars, askVars
<1> QED
  BY <1>6, <1>7, <1>8

(* Every step but CountService leaves the counts alone. *)
LEMMA CountsChange ==
  ASSUME [Next]_vars
  PROVE  (\E c \in Callers : CountService(c)) \/ UNCHANGED <<serviceNum, placed>>
  BY DEF Next, MainStep, Launch, Launched, Wake, Shutdown, StopWorker, JoinWorker,
         WaitAgain, Destroy, CallStep, AskService, ReadCount, Refuse, Post,
         HandlerStep, StartHandler, FinishHandler, LeaveLoop, vars, countVars

LEMMA CountedNext ==
  ASSUME NoOverflow, TypeInv, CountsFit, Counted, [Next]_vars
  PROVE  Counted'
<1>1. ASSUME NEW c \in Callers, CountService(c)
      PROVE  Counted'
  <2> DEFINE w == call[c].target
  <2>1. /\ w \in Workers
        /\ serviceNum' = [serviceNum EXCEPT ![w] = serviceNum[w] + 1]
        /\ placed' = placed \/ placed' = [placed EXCEPT ![w] = placed[w] + 1]
    BY <1>1, CountFacts, CountRises
  <2> HIDE DEF w
  <2> QED
    BY <2>1 DEF Counted, TypeInv, TypeOK
<1>2. CASE UNCHANGED <<serviceNum, placed>>
  BY <1>2 DEF Counted
<1> QED
  BY <1>1, <1>2, CountsChange

LEMMA ScanNext ==
  ASSUME NoOverflow, TypeInv, CountsFit, ScanSound, [Next]_vars
  PROVE  ScanSound'
<1>a. /\ \A v \in Workers : v \in Int /\ serviceNum[v] \in Nat /\ serviceNum'[v] \in Nat
      /\ \A d \in Callers : call[d].min \in Nat /\ call'[d].min \in Nat
                             /\ call[d].next \in Nat /\ call'[d].next \in Nat
  <2>1. TypeInv'
    BY TypeNext
  <2>2. \A x \in CallStates : x.min \in Nat /\ x.next \in Nat
    BY ConstantsOK DEF CallStates
  <2>3. /\ call \in [Callers -> CallStates] /\ call' \in [Callers -> CallStates]
        /\ serviceNum \in [Workers -> 0..UINT32_MAX]
        /\ serviceNum' \in [Workers -> 0..UINT32_MAX]
    BY <2>1 DEF TypeInv, TypeOK
  <2>4. \A v \in Workers : v \in Int
    BY DEF Workers
  <2> QED
    BY <2>2, <2>3, <2>4, ConstantsOK
<1>b. \A v \in Workers : serviceNum[v] <= serviceNum'[v]
  BY CountsGrow
<1>1. ASSUME NEW d \in Callers, call'[d].pc = "pick", call'[d].balanced,
             call'[d] = call[d],
             NEW v \in Workers, v < call'[d].next
      PROVE  call'[d].min <= serviceNum'[v]
  BY <1>1, <1>a, <1>b DEF ScanSound
<1>2. ASSUME NEW c \in Callers, NEW id \in AskedIds \cup {0}, AskService(c, id)
      PROVE  ScanSound'
  <2>1. call'[c].balanced => \A v \in Workers : ~(v < call'[c].next)
    BY <1>2, AskFacts DEF Workers
  <2> QED
    BY <1>1, <1>2, <2>1, AskFacts DEF ScanSound
<1>3. ASSUME NEW c \in Callers, ReadCount(c)
      PROVE  ScanSound'
  <2> DEFINE w == call[c].next
  <2>1. /\ call[c].pc = "pick" /\ w \in Workers /\ call'[c].next = w + 1
        /\ call'[c].balanced = call[c].balanced
        /\ serviceNum[w] < call[c].min => call'[c].min = serviceNum[w]
        /\ ~(serviceNum[w] < call[c].min) => call'[c].min = call[c].min
        /\ \A d \in Callers \ {c} : call'[d] = call[d]
    BY <1>3, ReadFacts
  <2> HIDE DEF w
  <2>2. w = call[c].next
    BY DEF w
  <2>3. ASSUME call'[c].balanced, NEW v \in Workers, v < call'[c].next
        PROVE  call'[c].min <= serviceNum'[v]
    <3>1. v < w \/ v = w
      BY <1>a, <2>1, <2>3
    <3>2. call'[c].min <= call[c].min /\ call'[c].min <= serviceNum[w]
      BY <1>a, <2>1
    <3>3. CASE v < w
      <4>1. call[c].min <= serviceNum[v]
        BY <2>1, <2>2, <2>3, <3>3 DEF ScanSound
      <4> QED
        BY <1>a, <1>b, <3>2, <4>1
    <3>4. CASE v = w
      BY <1>a, <1>b, <2>1, <3>2, <3>4
    <3> QED
      BY <3>1, <3>3, <3>4
  <2> QED
    BY <1>1, <2>1, <2>3 DEF ScanSound
<1>4. ASSUME NEW c \in Callers, call'[c].pc # "pick",
             \A d \in Callers \ {c} : call'[d] = call[d]
      PROVE  ScanSound'
  BY <1>1, <1>4 DEF ScanSound
<1>5. CASE UNCHANGED call
  BY <1>1, <1>5 DEF ScanSound
<1>6. ASSUME NEW c \in Callers, CallStep(c)
      PROVE  ScanSound'
  <2>1. CASE \E id \in AskedIds \cup {0} : AskService(c, id)
    BY <1>2, <2>1
  <2>2. CASE ReadCount(c)
    BY <1>3, <2>2
  <2>3. CASE Refuse(c) \/ Post(c)
    <3>1. Return(c)
      BY <2>3 DEF Refuse, Post
    <3> QED
      BY <1>4, <3>1, ReturnFacts
  <2>4. CASE CountService(c)
    BY <1>4, <2>4, CountFacts
  <2> QED
    BY <1>6, <2>1, <2>2, <2>3, <2>4 DEF CallStep
<1>7. (\E c \in Callers : CallStep(c)) \/ UNCHANGED call
  BY DEF Next, MainStep, Launch, Launched, Wake, Shutdown, StopWorker, JoinWorker,
         WaitAgain, Destroy, HandlerStep, StartHandler, FinishHandler, LeaveLoop, vars
<1> QED
  BY <1>5, <1>6, <1>7

(* The heart of the proof.  A step can break AimBound for w, v and m only by *)
(* counting a balanced service on w, or by making one more call aim at w.   *)
LEMMA AimNext ==
  ASSUME NoOverflow, TypeInv, TeardownInv, BalancerInv, [Next]_vars
  PROVE  AimBound'
<1> USE DEF BalancerInv
<1>a. /\ TypeInv'
      /\ \A v \in Workers : /\ serviceNum[v] \in Nat /\ serviceNum'[v] \in Nat
                             /\ placed[v] \in Nat /\ placed'[v] \in Nat
                             /\ serviceNum[v] <= serviceNum'[v]
                             /\ v \in 1..Threads
      /\ Threads \in Nat
      /\ \A w, m : /\ Aiming(w, m) \in SUBSET Callers /\ Cardinality(Aiming(w, m)) \in Nat
                   /\ Aiming(w, m)' \in SUBSET Callers /\ Cardinality(Aiming(w, m)') \in Nat
  <2>1. TypeInv'
    BY TypeNext
  <2>2. \A v \in Workers : serviceNum[v] <= serviceNum'[v]
    BY CountsGrow
  <2>3. \A w, m : /\ Aiming(w, m) \in SUBSET Callers
                  /\ Aiming(w, m)' \in SUBSET Callers
    BY DEF Aiming
  <2>4. \A v \in Workers : /\ serviceNum[v] \in Nat /\ serviceNum'[v] \in Nat
                           /\ placed[v] \in Nat /\ placed'[v] \in Nat
    BY <2>1, ConstantsOK DEF TypeInv, TypeOK
  <2> QED
    BY <2>1, <2>2, <2>3, <2>4, CallersFinite, ConstantsOK DEF Workers
<1> SUFFICES ASSUME NEW w \in Workers, NEW v \in Workers, NEW m \in Nat,
                    serviceNum'[v] <= m, m < placed'[w]
             PROVE  placed'[w] + Cardinality(Aiming(w, m)') <= m + Threads
  BY DEF AimBound
<1>b. serviceNum[v] <= m
  BY <1>a
<1>1. ASSUME placed'[w] = placed[w], Aiming(w, m)' \subseteq Aiming(w, m)
      PROVE  placed'[w] + Cardinality(Aiming(w, m)') <= m + Threads
  <2>1. Cardinality(Aiming(w, m)') <= Cardinality(Aiming(w, m))
    BY <1>a, <1>1, CardinalityGrows
  <2>2. placed[w] + Cardinality(Aiming(w, m)) <= m + Threads
    BY <1>1, <1>b DEF AimBound
  <2> QED
    BY <1>a, <1>1, <2>1, <2>2
<1>2. ASSUME NEW c \in Callers, CountService(c), call[c].balanced, call[c].target = w
      PROVE  placed'[w] + Cardinality(Aiming(w, m)') <= m + Threads
  <2>1. /\ c \in InFlight /\ c \notin Aiming(w, m)' /\ call[c].pc = "pick"
        /\ call[c].next = Threads + 1
        /\ \A d \in Callers \ {c} : call'[d] = call[d]
        /\ placed'[w] = placed[w] + 1
    <3>1. /\ call[c].pc = "pick" /\ call'[c].pc = "post"
          /\ call[c].next = Threads + 1
          /\ \A d \in Callers \ {c} : call'[d] = call[d]
      BY <1>2, CountFacts
    <3>2. placed' = [placed EXCEPT ![w] = placed[w] + 1]
      BY <1>2 DEF CountService
    <3>3. placed'[w] = placed[w] + 1
      BY <3>2 DEF TypeInv, TypeOK
    <3>4. c \in InFlight
      BY <3>1 DEF InFlight
    <3>5. c \notin Aiming(w, m)'
      BY <3>1 DEF Aiming
    <3> QED
      BY <3>1, <3>3, <3>4, <3>5
  <2>2. Aiming(w, m)' \subseteq Aiming(w, m) \ {c} /\ Aiming(w, m)' \subseteq InFlight \ {c}
    BY <2>1 DEF Aiming, InFlight
  <2>3. CASE m < placed[w]
    <3>1. call[c].min <= m
      <4>1. call[c].min <= serviceNum[v] /\ call[c].min \in Nat
        <5>1. call[c] \in CallStates
          BY DEF TypeInv, TypeOK
        <5>2. call[c].min \in Nat
          BY <5>1, ConstantsOK DEF CallStates
        <5>3. v < call[c].next
          BY <1>a, <2>1
        <5> QED
          BY <1>2, <2>1, <5>2, <5>3 DEF ScanSound
      <4> QED
        BY <1>a, <1>b, <4>1
    <3>2. c \in Aiming(w, m)
      BY <1>2, <2>1, <3>1 DEF Aiming
    <3>3. Cardinality(Aiming(w, m) \ {c}) = Cardinality(Aiming(w, m)) - 1
      BY <1>a, <3>2, CardinalityWithout
    <3>4. Cardinality(Aiming(w, m)') <= Cardinality(Aiming(w, m) \ {c})
      BY <1>a, <2>2, CardinalityGrows
    <3>5. placed[w] + Cardinality(Aiming(w, m)) <= m + Threads
      BY <1>b, <2>3 DEF AimBound
    <3> QED
      BY <1>a, <2>1, <3>3, <3>4, <3>5
  <2>4. CASE ~(m < placed[w])
    <3>1. placed'[w] = m + 1
      BY <1>a, <2>1, <2>4
    <3>2. Cardinality(InFlight) <= Threads /\ Cardinality(InFlight) \in Nat
          /\ InFlight \in SUBSET Callers
      BY OneCallPerThread, CallersFinite DEF InFlight
    <3>3. Cardinality(InFlight \ {c}) = Cardinality(InFlight) - 1
      BY <2>1, <3>2, CardinalityWithout
    <3>4. Cardinality(Aiming(w, m)') <= Cardinality(InFlight \ {c})
      BY <2>2, <3>2, CardinalityGrows
    <3> QED
      BY <1>a, <3>1, <3>2, <3>3, <3>4
  <2> QED
    BY <2>3, <2>4
<1>3. ASSUME NEW c \in Callers, CountService(c), ~(call[c].balanced /\ call[c].target = w)
      PROVE  placed'[w] + Cardinality(Aiming(w, m)') <= m + Threads
  <2>1. placed'[w] = placed[w]
    BY <1>3, CountFacts DEF TypeInv, TypeOK
  <2>2. Aiming(w, m)' \subseteq Aiming(w, m)
    BY <1>3, CountFacts DEF Aiming
  <2> QED
    BY <1>1, <2>1, <2>2
<1>4. ASSUME NEW c \in Callers, ReadCount(c)
      PROVE  placed'[w] + Cardinality(Aiming(w, m)') <= m + Threads
  <2> DEFINE u == call[c].next
  <2>1. /\ placed'[w] = placed[w] /\ call[c].pc = "pick" /\ u \in Workers
        /\ call'[c].balanced = call[c].balanced
        /\ serviceNum[u] < call[c].min =>
             call'[c].min = serviceNum[u] /\ call'[c].target = u
        /\ ~(serviceNum[u] < call[c].min) =>
             call'[c].min = call[c].min /\ call'[c].target = call[c].target
        /\ \A d \in Callers \ {c} : call'[d] = call[d]
    BY <1>4, ReadFacts DEF ReadCount, countVars
  <2> HIDE DEF u
  <2>2. m < serviceNum[w]
    BY <1>a, <2>1 DEF Counted
  <2>3. ~(serviceNum[w] <= m)
    BY <1>a, <2>2
  <2>4. c \in Aiming(w, m)' => c \in Aiming(w, m)
    BY <2>1, <2>3 DEF Aiming
  <2>5. Aiming(w, m)' \subseteq Aiming(w, m)
    BY <2>1, <2>4 DEF Aiming
  <2> QED
    BY <1>1, <2>1, <2>5
<1>5. ASSUME NEW c \in Callers, NEW id \in AskedIds \cup {0}, AskService(c, id)
      PROVE  placed'[w] + Cardinality(Aiming(w, m)') <= m + Threads
  <2>1. placed' = placed
    BY <1>5 DEF AskService, countVars
  <2>2. w # 0
    BY <1>a
  <2>3. Aiming(w, m)' \subseteq Aiming(w, m)
    BY <1>5, <2>2, AskFacts DEF Aiming
  <2> QED
    BY <1>1, <2>1, <2>3
<1>6. ASSUME NEW c \in Callers, Refuse(c) \/ Post(c)
      PROVE  placed'[w] + Cardinality(Aiming(w, m)') <= m + Threads
  <2>1. placed' = placed /\ Return(c)
    BY <1>6 DEF Refuse, Post, countVars
  <2>2. Aiming(w, m)' \subseteq Aiming(w, m)
    BY <2>1, ReturnFacts DEF Aiming
  <2> QED
    BY <1>1, <2>1, <2>2
<1>7. ASSUME UNCHANGED <<call, placed>>
      PROVE  placed'[w] + Cardinality(Aiming(w, m)') <= m + Threads
  BY <1>1, <1>7 DEF Aiming
<1>8. (\E c \in Callers : CallStep(c)) \/ UNCHANGED <<call, placed>>
  BY DEF Next, MainStep, Launch, Launched, Wake, Shutdown, StopWorker, JoinWorker,
         WaitAgain, Destroy, HandlerStep, StartHandler, FinishHandler, LeaveLoop,
         vars, countVars
<1> QED
  BY <1>2, <1>3, <1>4, <1>5, <1>6, <1>7, <1>8 DEF CallStep

-----------------------------------------------------------------------------
LEMMA BalancerInit == Init => BalancerInv
<1> SUFFICES ASSUME Init PROVE BalancerInv
  OBVIOUS
<1>1. \A c \in Callers : call[c].pc = "idle"
  BY DEF Init, NoCall
<1>2. Scanning = {} /\ \A w, m : Aiming(w, m) = {}
  BY <1>1 DEF Scanning, Aiming
<1>3. \A w \in Workers : serviceNum[w] = 0 /\ placed[w] = 0 /\ issued = 0
  BY DEF Init
<1>4. CountsFit /\ Counted
  BY <1>2, <1>3, FS_EmptySet DEF CountsFit, Counted
<1>5. QuietBoot /\ ScanSound
  BY <1>1 DEF Init, QuietBoot, ScanSound
<1>6. AimBound
  BY <1>3 DEF AimBound
<1> QED
  BY <1>4, <1>5, <1>6 DEF BalancerInv

LEMMA BalancerNext ==
  ASSUME NoOverflow
  PROVE  TypeInv /\ TeardownInv /\ BalancerInv /\ [Next]_vars => BalancerInv'
  BY QuietNext, FitNext, CountedNext, ScanNext, AimNext DEF BalancerInv

(* nextMinWorker without a lock: if the counters can hold the number of     *)
(* requests, what the balancer puts on a worker never exceeds another       *)
(* worker's count by more than one service per thread, however the scans of *)
(* main and the workers interleave.                                         *)
THEOREM BalancerIsBounded == NoOverflow => (Spec => []BalancerBound)
<1> SUFFICES ASSUME NoOverflow PROVE Spec => []BalancerBound
  OBVIOUS
<1>1. TypeInv /\ BalancerInv => BalancerBound
  <2> SUFFICES ASSUME TypeInv, BalancerInv, NEW w \in Workers, NEW v \in Workers
               PROVE  placed[w] <= serviceNum[v] + Threads
    BY DEF BalancerBound
  <2>1. /\ placed[w] \in Nat /\ serviceNum[v] \in Nat /\ Threads \in Nat
        /\ Cardinality(Aiming(w, serviceNum[v])) \in Nat
    <3>1. Aiming(w, serviceNum[v]) \in SUBSET Callers
      BY DEF Aiming
    <3> QED
      BY <3>1, CallersFinite, ConstantsOK DEF TypeInv, TypeOK
  <2>2. serviceNum[v] < placed[w] =>
          placed[w] + Cardinality(Aiming(w, serviceNum[v])) <= serviceNum[v] + Threads
    BY <2>1 DEF BalancerInv, AimBound
  <2> QED
    BY <2>1, <2>2
<1> QED
  BY <1>1, TypeInit, TypeNext, TeardownInit, TeardownNext, BalancerInit, BalancerNext,
     PTL DEF Spec

-----------------------------------------------------------------------------
(* From the balancer's own placements to the counts. *)

(* The calls that are about to count a service on the worker a script named. *)
About(w) ==
  {c \in Callers : call[c].pc = "pick" /\ ~call[c].balanced /\ call[c].target = w}

(* Every service counted on w was put there by the balancer or asked of it.  *)
Attributed ==
  \A w \in Workers :
    serviceNum[w] + Cardinality(About(w)) <= placed[w] + Cardinality(Named(w))

(* A call for a named worker does not scan. *)
NamedSkipsScan ==
  \A c \in Callers :
    call[c].pc = "pick" /\ ~call[c].balanced => call[c].next = Threads + 1

LoadInv == Attributed /\ NamedSkipsScan

LEMMA NamedFinite ==
  ASSUME TypeInv, NEW w \in Workers
  PROVE  /\ IsFiniteSet(Named(w)) /\ Cardinality(Named(w)) \in Nat
         /\ issued + 1 \notin Named(w)
<1>1. issued \in Nat
  BY ConstantsOK DEF TypeInv, TypeOK
<1>2. IsFiniteSet(1..issued)
  BY <1>1, FS_Interval
<1>3. Named(w) \subseteq 1..issued
  BY DEF Named
<1> QED
  BY <1>1, <1>2, <1>3, FS_Subset, FS_CardinalityType

LEMMA LoadNext ==
  ASSUME NoOverflow, TypeInv, CountsFit, LoadInv, [Next]_vars
  PROVE  LoadInv'
<1>a. /\ TypeInv' /\ Threads \in Nat /\ issued \in Nat /\ 0 \notin Workers
      /\ \A w \in Workers : /\ serviceNum[w] \in Nat /\ placed[w] \in Nat
                            /\ serviceNum'[w] \in Nat /\ placed'[w] \in Nat
                            /\ Cardinality(Named(w)) \in Nat
                            /\ w < Threads + 1
      /\ \A w : /\ About(w) \in SUBSET Callers /\ Cardinality(About(w)) \in Nat
                /\ About(w)' \in SUBSET Callers /\ Cardinality(About(w)') \in Nat
  <2>1. TypeInv'
    BY TypeNext
  <2>2. \A w : About(w) \in SUBSET Callers /\ About(w)' \in SUBSET Callers
    BY DEF About
  <2>3. 0 \notin Workers /\ \A w \in Workers : w < Threads + 1
    BY ConstantsOK DEF Workers
  <2>4. \A w \in Workers : /\ serviceNum[w] \in Nat /\ placed[w] \in Nat
                           /\ serviceNum'[w] \in Nat /\ placed'[w] \in Nat
    BY <2>1, ConstantsOK DEF TypeInv, TypeOK
  <2>5. Threads \in Nat /\ issued \in Nat
    BY ConstantsOK DEF TypeInv, TypeOK
  <2> QED
    BY <2>1, <2>2, <2>3, <2>4, <2>5, CallersFinite, NamedFinite
<1>1. ASSUME NEW c \in Callers, NEW id \in AskedIds \cup {0}, AskService(c, id)
      PROVE  LoadInv'
  <2>1. /\ issued' = issued + 1 /\ UNCHANGED <<serviceNum, placed>>
        /\ option' = [option EXCEPT ![issued + 1] = id]
        /\ issued + 1 \in Requests
    BY <1>1, <1>a, ConstantsOK DEF AskService, countVars, Requests
  <2>2. /\ call'[c].pc = "pick"
        /\ IF id \in Workers
             THEN ~call'[c].balanced /\ call'[c].target = id
                  /\ call'[c].next = Threads + 1
             ELSE call'[c].balanced
    <3>1. call'[c] = IF id \in Workers THEN Explicit(issued + 1, id)
                                       ELSE ScanFrom1(issued + 1)
      BY <1>1 DEF AskService, TypeInv, TypeOK
    <3> QED
      BY <3>1 DEF Explicit, ScanFrom1, NoCall
  <2>3. call[c].pc = "idle" /\ \A d \in Callers \ {c} : call'[d] = call[d]
    BY <1>1, AskFacts
  <2>4. NamedSkipsScan'
    BY <2>2, <2>3 DEF LoadInv, NamedSkipsScan
  <2>5. ASSUME NEW w \in Workers
        PROVE  serviceNum'[w] + Cardinality(About(w)')
                 <= placed'[w] + Cardinality(Named(w)')
    <3>1. serviceNum[w] + Cardinality(About(w)) <= placed[w] + Cardinality(Named(w))
      BY DEF LoadInv, Attributed
    <3>2. /\ option'[issued + 1] = id
          /\ \A r \in 1..issued : r # issued + 1 /\ option'[r] = option[r]
      BY <1>a, <2>1 DEF TypeInv, TypeOK
    <3>3. 1..(issued + 1) = (1..issued) \cup {issued + 1}
      BY <1>a
    <3>4. Named(w)' = {r \in 1..(issued + 1) : option'[r] = w}
      BY <2>1 DEF Named
    <3>5. CASE id = w
      <4>1. About(w)' = About(w) \cup {c} /\ c \in Callers \ About(w)
        BY <2>2, <2>3, <3>5 DEF About
      <4>2. Cardinality(About(w)') = Cardinality(About(w)) + 1
        BY <1>a, <4>1, CardinalityWith
      <4>3. Named(w)' = Named(w) \cup {issued + 1}
        BY <3>2, <3>3, <3>4, <3>5 DEF Named
      <4>4. Cardinality(Named(w)') = Cardinality(Named(w)) + 1
        BY <4>3, NamedFinite, FS_AddElement
      <4> QED
        BY <1>a, <2>1, <3>1, <4>2, <4>4
    <3>6. CASE id # w
      <4>1. About(w)' = About(w)
        BY <2>2, <2>3, <3>6 DEF About
      <4>2. Named(w)' = Named(w)
        BY <3>2, <3>3, <3>4, <3>6 DEF Named
      <4> QED
        BY <2>1, <3>1, <4>1, <4>2
    <3> QED
      BY <3>5, <3>6
  <2> QED
    BY <2>4, <2>5 DEF LoadInv, Attributed
<1>2. ASSUME NEW c \in Callers, CountService(c)
      PROVE  LoadInv'
  <2> DEFINE u == call[c].target
  <2>1. /\ call[c].pc = "pick" /\ call'[c].pc = "post" /\ u \in Workers
        /\ \A d \in Callers \ {c} : call'[d] = call[d]
        /\ serviceNum' = [serviceNum EXCEPT ![u] = serviceNum[u] + 1]
        /\ placed' = IF call[c].balanced THEN [placed EXCEPT ![u] = placed[u] + 1]
                                         ELSE placed
    BY <1>2, CountFacts, CountRises
  <2> HIDE DEF u
  <2>2. u = call[c].target
    BY DEF u
  <2>3. NamedSkipsScan'
    BY <2>1 DEF LoadInv, NamedSkipsScan
  <2>4. ASSUME NEW w \in Workers
        PROVE  serviceNum'[w] + Cardinality(About(w)')
                 <= placed'[w] + Cardinality(Named(w)')
    <3>1. serviceNum[w] + Cardinality(About(w)) <= placed[w] + Cardinality(Named(w))
      BY DEF LoadInv, Attributed
    <3>2. Named(w)' = Named(w)
      BY <1>2 DEF CountService, askVars, Named
    <3>3. /\ serviceNum'[w] = IF w = u THEN serviceNum[w] + 1 ELSE serviceNum[w]
          /\ placed'[w] = IF w = u /\ call[c].balanced THEN placed[w] + 1 ELSE placed[w]
      BY <2>1 DEF TypeInv, TypeOK
    <3>4. CASE w = u /\ ~call[c].balanced
      <4>1. About(w)' = About(w) \ {c} /\ c \in About(w)
        BY <2>1, <2>2, <3>4 DEF About
      <4>2. Cardinality(About(w)') = Cardinality(About(w)) - 1
        BY <1>a, <4>1, CardinalityWithout
      <4> QED
        BY <1>a, <3>1, <3>2, <3>3, <3>4, <4>2
    <3>5. CASE ~(w = u /\ ~call[c].balanced)
      <4>1. About(w)' = About(w)
        BY <2>1, <2>2, <3>5 DEF About
      <4> QED
        BY <1>a, <3>1, <3>2, <3>3, <3>5, <4>1
    <3> QED
      BY <3>4, <3>5
  <2> QED
    BY <2>3, <2>4 DEF LoadInv, Attributed
<1>3. ASSUME UNCHANGED <<serviceNum, placed, askVars>>, NamedSkipsScan',
             \A w \in Workers : About(w)' \subseteq About(w)
      PROVE  LoadInv'
  <2>1. ASSUME NEW w \in Workers
        PROVE  serviceNum'[w] + Cardinality(About(w)')
                 <= placed'[w] + Cardinality(Named(w)')
    <3>1. Named(w)' = Named(w)
      BY <1>3 DEF askVars, Named
    <3>2. Cardinality(About(w)') <= Cardinality(About(w))
      BY <1>3, <1>a, CardinalityGrows
    <3>3. serviceNum[w] + Cardinality(About(w)) <= placed[w] + Cardinality(Named(w))
      BY DEF LoadInv, Attributed
    <3> QED
      BY <1>3, <1>a, <3>1, <3>2, <3>3
  <2> QED
    BY <1>3, <2>1 DEF LoadInv, Attributed
<1>4. ASSUME NEW c \in Callers, ReadCount(c)
      PROVE  LoadInv'
  <2>1. /\ call[c].pc = "pick" /\ call[c].next \in Workers
        /\ call'[c].balanced = call[c].balanced
        /\ \A d \in Callers \ {c} : call'[d] = call[d]
    BY <1>4, ReadFacts
  <2>2. call[c].balanced
    <3>1. call[c].next # Threads + 1
      BY <1>a, <2>1
    <3> QED
      BY <2>1, <3>1 DEF LoadInv, NamedSkipsScan
  <2>3. NamedSkipsScan' /\ \A w \in Workers : About(w)' \subseteq About(w)
    BY <2>1, <2>2 DEF LoadInv, NamedSkipsScan, About
  <2> QED
    BY <1>3, <1>4, <2>3 DEF ReadCount, countVars
<1>5. ASSUME NEW c \in Callers, Refuse(c) \/ Post(c)
      PROVE  LoadInv'
  <2>1. call'[c].pc = "idle" /\ \A d \in Callers \ {c} : call'[d] = call[d]
    BY <1>5, ReturnFacts DEF Refuse, Post
  <2>2. NamedSkipsScan' /\ \A w \in Workers : About(w)' \subseteq About(w)
    BY <2>1 DEF LoadInv, NamedSkipsScan, About
  <2> QED
    BY <1>3, <1>5, <2>2 DEF Refuse, Post, countVars
<1>6. CASE UNCHANGED <<call, serviceNum, placed, askVars>>
  BY <1>3, <1>6 DEF LoadInv, NamedSkipsScan, About
<1>7. (\E c \in Callers : CallStep(c)) \/ UNCHANGED <<call, serviceNum, placed, askVars>>
  BY DEF Next, MainStep, Launch, Launched, Wake, Shutdown, StopWorker, JoinWorker,
         WaitAgain, Destroy, HandlerStep, StartHandler, FinishHandler, LeaveLoop,
         vars, countVars
<1> QED
  BY <1>1, <1>2, <1>4, <1>5, <1>6, <1>7 DEF CallStep

(* What the races of nextMinWorker mean for the counts: while a counter can  *)
(* hold the number of requests, no worker ever has more services than       *)
(* another by more than one per thread and one per script that named it.    *)
THEOREM LoadIsBounded == NoOverflow => (Spec => []LoadBound)
<1> SUFFICES ASSUME NoOverflow PROVE Spec => []LoadBound
  OBVIOUS
<1>1. Init => LoadInv
  <2> SUFFICES ASSUME Init PROVE LoadInv
    OBVIOUS
  <2>1. \A c \in Callers : call[c].pc = "idle"
    BY DEF Init, NoCall
  <2>2. \A w \in Workers : About(w) = {} /\ serviceNum[w] = 0 /\ placed[w] = 0
    BY <2>1 DEF Init, About
  <2>3. \A w \in Workers : Cardinality(Named(w)) \in Nat
    BY TypeInit, NamedFinite
  <2> QED
    BY <2>1, <2>2, <2>3, FS_EmptySet DEF LoadInv, Attributed, NamedSkipsScan
<1>2. TypeInv /\ CountsFit /\ LoadInv /\ [Next]_vars => LoadInv'
  BY LoadNext
<1>3. TypeInv /\ CountsFit /\ [Next]_vars => CountsFit'
  BY FitNext
<1>4. Init => CountsFit
  BY BalancerInit DEF BalancerInv
<1>5. TypeInv /\ LoadInv /\ BalancerBound => LoadBound
  <2> SUFFICES ASSUME TypeInv, LoadInv, BalancerBound, NEW w \in Workers, NEW v \in Workers
               PROVE  serviceNum[w] <= serviceNum[v] + Threads + Cardinality(Named(w))
    BY DEF LoadBound
  <2>1. /\ serviceNum[w] + Cardinality(About(w)) <= placed[w] + Cardinality(Named(w))
        /\ placed[w] <= serviceNum[v] + Threads
    BY DEF LoadInv, Attributed, BalancerBound
  <2>2. /\ serviceNum[w] \in Nat /\ serviceNum[v] \in Nat /\ placed[w] \in Nat
        /\ Threads \in Nat
    BY ConstantsOK DEF TypeInv, TypeOK
  <2>3. Cardinality(About(w)) \in Nat /\ Cardinality(Named(w)) \in Nat
    BY CallersFinite, NamedFinite DEF About
  <2> QED
    BY <2>1, <2>2, <2>3
<1> QED
  BY <1>1, <1>2, <1>3, <1>4, <1>5, TypeInit, TypeNext, BalancerIsBounded, PTL DEF Spec

=============================================================================
