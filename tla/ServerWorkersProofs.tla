------------------------ MODULE ServerWorkersProofs ------------------------
(* Theorems about ServerWorkers for every value of its constants: any       *)
(* number of workers and requests, any word size, any bitwise or that is an *)
(* or.  Each is an invariance proof; the invariants are named below.        *)
EXTENDS ServerWorkers, TLAPS

-----------------------------------------------------------------------------
(* A caller inside newService carries its request, and a target once it     *)
(* has counted; main joins a worker that exists.                            *)
CallsSound ==
  \A c \in Callers :
    /\ call[c].pc # "idle" => call[c].req \in Requests
    /\ call[c].pc = "post" => call[c].target \in Workers

CursorSound == mainPc = "join" => cursor \in Workers

TypeInv == TypeOK /\ CallsSound /\ CursorSound

(* A counter of the program stays in its word. *)
LEMMA WrapInRange == \A n \in Nat : Wrap(n) \in 0..UINT32_MAX
  BY ConstantsOK DEF Wrap

LEMMA ServiceIdInRange ==
  ASSUME NEW g \in 0..UINT32_MAX, NEW w \in Workers
  PROVE  ServiceId(g, w) \in 0..UINT32_MAX
<1>1. w * IdSpan \in Nat
  BY ConstantsOK DEF Workers
<1>2. Wrap(w * IdSpan) \in 0..UINT32_MAX
  BY <1>1, WrapInRange
<1> QED
  BY <1>2, BitOrOK DEF ServiceId

LEMMA CallTypes ==
  /\ NoCall \in CallStates
  /\ \A r \in Requests : ScanFrom1(r) \in CallStates
  /\ \A r \in Requests, w \in Workers : Explicit(r, w) \in CallStates
<1>1. NoCall \in CallStates
  BY ConstantsOK DEF NoCall, CallStates
<1>2. ASSUME NEW r \in Requests
      PROVE  ScanFrom1(r) \in CallStates
  <2>1. r \in 0..MaxRequests
    BY ConstantsOK DEF Requests
  <2> QED
    BY <1>1, <2>1 DEF ScanFrom1, CallStates
<1>3. ASSUME NEW r \in Requests, NEW w \in Workers
      PROVE  Explicit(r, w) \in CallStates
  <2>1. r \in 0..MaxRequests /\ w \in 0..Threads /\ Threads + 1 \in 1..(Threads + 1)
    BY ConstantsOK DEF Requests, Workers
  <2> QED
    BY <1>1, <2>1 DEF Explicit, CallStates
<1> QED
  BY <1>1, <1>2, <1>3

LEMMA TypeInit == Init => TypeInv
<1> SUFFICES ASSUME Init PROVE TypeInv
  OBVIOUS
<1>1. CallsSound /\ CursorSound
  BY DEF Init, CallsSound, CursorSound, NoCall
<1>2. TypeOK
  BY ConstantsOK, CallTypes DEF Init, TypeOK, Workers, Requests
<1> QED
  BY <1>1, <1>2 DEF TypeInv

LEMMA TypeNext == TypeInv /\ [Next]_vars => TypeInv'
<1> SUFFICES ASSUME TypeInv, [Next]_vars PROVE TypeInv'
  OBVIOUS
<1> USE DEF TypeInv, TypeOK, CallsSound, CursorSound
<1>1. ASSUME NEW c \in Callers, NEW id \in AskedIds \cup {0}, AskService(c, id)
      PROVE  TypeInv'
  <2>1. issued + 1 \in Requests
    BY <1>1, ConstantsOK DEF AskService, Requests
  <2>2. call'[c] \in {Explicit(issued + 1, id), ScanFrom1(issued + 1)}
        /\ (id \notin Workers => call'[c] = ScanFrom1(issued + 1))
    BY <1>1 DEF AskService
  <2>3. call'[c] \in CallStates
    BY <2>1, <2>2, CallTypes
  <2>4. call'[c].req = issued + 1 /\ call'[c].pc = "pick"
    BY <2>2 DEF Explicit, ScanFrom1, NoCall
  <2>5. call' \in [Callers -> CallStates] /\ CallsSound'
    BY <1>1, <2>1, <2>3, <2>4 DEF AskService
  <2>6. mainPc' \in {mainPc, "call"}
    BY <1>1 DEF AskService
  <2> QED
    BY <1>1, <2>1, <2>5, <2>6 DEF AskService, workerVars, countVars, Requests
<1>2. ASSUME NEW c \in Callers, ReadCount(c)
      PROVE  TypeInv'
  <2> DEFINE w == call[c].next
  <2>1. w \in Workers /\ serviceNum[w] \in 0..UINT32_MAX /\ w + 1 \in 1..(Threads + 1)
    BY <1>2, ConstantsOK DEF ReadCount, Workers
  <2>2. call[c] \in CallStates /\ call[c].pc = "pick"
    BY <1>2 DEF ReadCount
  <2>3. /\ call'[c] \in CallStates
        /\ call'[c].pc = call[c].pc /\ call'[c].req = call[c].req
    <3>1. CASE serviceNum[w] < call[c].min
      <4>1. call'[c] = [call[c] EXCEPT !.next = w + 1, !.min = serviceNum[w], !.target = w]
        BY <1>2, <3>1 DEF ReadCount
      <4>2. w \in 0..Threads
        BY <2>1, ConstantsOK DEF Workers
      <4> HIDE DEF w
      <4> QED
        BY <2>1, <2>2, <4>1, <4>2 DEF CallStates
    <3>2. CASE ~(serviceNum[w] < call[c].min)
      <4>1. call'[c] = [call[c] EXCEPT !.next = w + 1]
        BY <1>2, <3>2 DEF ReadCount
      <4> HIDE DEF w
      <4> QED
        BY <2>1, <2>2, <4>1 DEF CallStates
    <3> QED
      BY <3>1, <3>2
  <2>4. call' \in [Callers -> CallStates] /\ CallsSound'
    BY <1>2, <2>2, <2>3 DEF ReadCount
  <2> QED
    BY <1>2, <2>4 DEF ReadCount, mainVars, workerVars, countVars, askVars
<1>3. ASSUME NEW c \in Callers, Return(c), UNCHANGED <<cursor, pass, workerVars, countVars, askVars>>,
             queue' \in [Workers -> Seq(Requests)]
      PROVE  TypeInv'
  <2>1. call' \in [Callers -> CallStates] /\ CallsSound'
    BY <1>3, CallTypes DEF Return, NoCall
  <2>2. mainPc' \in {mainPc, "sleep"}
    BY <1>3 DEF Return
  <2> QED
    BY <1>3, <2>1, <2>2 DEF workerVars, countVars, askVars
<1>4. ASSUME NEW c \in Callers, CountService(c)
      PROVE  TypeInv'
  <2> DEFINE w == call[c].target
  <2>1. w \in Workers
    BY <1>4, ConstantsOK DEF CountService, CallStates, Workers
  <2>2. serviceNum' \in [Workers -> 0..UINT32_MAX]
    <3>1. serviceNum[w] + 1 \in Nat
      BY <2>1, ConstantsOK
    <3> QED
      BY <1>4, <3>1, WrapInRange DEF CountService
  <2>3. placed' \in [Workers -> Nat]
    <3>1. placed[w] + 1 \in Nat
      BY <2>1
    <3> QED
      BY <1>4, <2>1, <3>1 DEF CountService
  <2>4. call[c] \in CallStates /\ call[c].pc = "pick"
    BY <1>4 DEF CountService, Scanned
  <2>5. call' = [call EXCEPT ![c] = [call[c] EXCEPT !.pc = "post"]]
    BY <1>4 DEF CountService
  <2>6. /\ [call[c] EXCEPT !.pc = "post"] \in CallStates
        /\ [call[c] EXCEPT !.pc = "post"].req = call[c].req
        /\ [call[c] EXCEPT !.pc = "post"].target = call[c].target
    BY <2>4 DEF CallStates
  <2>7. call' \in [Callers -> CallStates] /\ CallsSound'
    BY <2>1, <2>4, <2>5, <2>6
  <2> QED
    BY <1>4, <2>2, <2>3, <2>7 DEF CountService, mainVars, workerVars, askVars
<1>5. ASSUME NEW c \in Callers, CallStep(c)
      PROVE  TypeInv'
  <2>1. CASE \E id \in AskedIds \cup {0} : AskService(c, id)
    BY <1>1, <2>1
  <2>2. CASE ReadCount(c)
    BY <1>2, <2>2
  <2>3. CASE Refuse(c)
    BY <1>3, <2>3 DEF Refuse
  <2>4. CASE CountService(c)
    BY <1>4, <2>4
  <2>5. CASE Post(c)
    <3>1. call[c].target \in Workers /\ call[c].req \in Requests
      BY <2>5 DEF Post
    <3>2. queue' \in [Workers -> Seq(Requests)]
      BY <2>5, <3>1 DEF Post
    <3> QED
      BY <1>3, <2>5, <3>2 DEF Post
  <2> QED
    BY <1>5, <2>1, <2>2, <2>3, <2>4, <2>5 DEF CallStep
<1>6. ASSUME NEW w \in Workers, HandlerStep(w)
      PROVE  TypeInv'
  <2>1. CASE StartHandler(w)
    <3>1. Head(queue[w]) \in Requests /\ Tail(queue[w]) \in Seq(Requests)
      BY <2>1 DEF StartHandler
    <3>2. genID[w] + 1 \in Nat
      BY ConstantsOK
    <3>3. Wrap(genID[w] + 1) \in 0..UINT32_MAX
      BY <3>2, WrapInRange
    <3>4. loading' \in [Workers -> 0..MaxRequests]
      BY <2>1, <3>1 DEF StartHandler, Requests
    <3> QED
      BY <2>1, <3>1, <3>3, <3>4 DEF StartHandler, mainVars, countVars, askVars
  <2>2. CASE FinishHandler(w)
    <3>1. ServiceId(genID[w], w) \in 0..UINT32_MAX
      BY ServiceIdInRange
    <3>2. [id |-> ServiceId(genID[w], w), req |-> loading[w]] \in Entries
      BY <2>2, <3>1, ConstantsOK DEF FinishHandler, Entries, Requests
    <3>3. serviceMap' \in [Workers -> SUBSET Entries]
      BY <2>2, <3>2 DEF FinishHandler
    <3>4. loading' \in [Workers -> 0..MaxRequests]
      BY <2>2, ConstantsOK DEF FinishHandler
    <3> QED
      BY <2>2, <3>3, <3>4 DEF FinishHandler, mainVars, countVars, askVars
  <2>3. CASE LeaveLoop(w)
    BY <2>3 DEF LeaveLoop, mainVars, countVars, askVars
  <2> QED
    BY <1>6, <2>1, <2>2, <2>3 DEF HandlerStep
<1>7. ASSUME MainStep
      PROVE  TypeInv'
  <2> USE DEF workerVars, countVars, askVars
  <2>a. 1 \in 1..(Threads + 1) /\ (cursor \in Workers => cursor + 1 \in 1..(Threads + 1))
    BY ConstantsOK DEF Workers
  <2>1. CASE Launch
    BY <2>a, <2>1 DEF Launch
  <2>2. CASE Launched
    BY <2>2 DEF Launched
  <2>3. CASE Wake
    BY <2>a, <2>3 DEF Wake
  <2>4. CASE StopWorker
    BY <2>4 DEF StopWorker
  <2>5. CASE JoinWorker
    BY <2>a, <2>5 DEF JoinWorker
  <2>6. CASE WaitAgain
    BY <2>a, <2>6 DEF WaitAgain
  <2>7. CASE Destroy
    <3>1. queue' \in [Workers -> Seq(Requests)] /\ serviceMap' \in [Workers -> SUBSET Entries]
      BY <2>7 DEF Destroy
    <3> QED
      BY <2>7, <3>1 DEF Destroy
  <2> QED
    BY <1>7, <2>1, <2>2, <2>3, <2>4, <2>5, <2>6, <2>7 DEF MainStep, Shutdown
<1>8. CASE UNCHANGED vars
  BY <1>8 DEF vars, mainVars, workerVars, countVars, askVars
<1> QED
  BY <1>5, <1>6, <1>7, <1>8 DEF Next

(* The server's state keeps its types: counters, ids and cursors stay in    *)
(* their words, queues hold requests that were made.                        *)
THEOREM TypeCorrect == Spec => []TypeOK
<1>1. TypeInv => TypeOK
  BY DEF TypeInv
<1> QED
  BY <1>1, TypeInit, TypeNext, PTL DEF Spec

-----------------------------------------------------------------------------
(* Who may be inside newService: main only during its one call, a worker    *)
(* only while it loads a service, which only a running thread does.         *)
CallersSound ==
  /\ \A c \in Callers : call[c].pc = "idle" => call[c] = NoCall
  /\ mainPc # "call" => call[Main].pc = "idle"
  /\ \A w \in Workers : call[w].pc # "idle" => loading[w] # 0
  /\ \A w \in Workers : loading[w] # 0 => thread[w] = "run"

(* The shutdown has joined the workers behind its cursor, and by its second *)
(* pass all of them.                                                        *)
JoinedSound ==
  /\ mainPc \in {"launch", "boot", "call", "sleep"} => pass = 1
  /\ mainPc \in {"stop", "join"} =>
       \A w \in Workers : w < cursor => thread[w] = "joined"
  /\ pass = 2 => \A w \in Workers : thread[w] = "joined"
  /\ mainPc = "done" => pass = 2

TeardownInv == CallersSound /\ JoinedSound

LEMMA TeardownInit == Init => TeardownInv
  BY DEF Init, TeardownInv, CallersSound, JoinedSound, NoCall, Callers

LEMMA TeardownNext == TypeInv /\ TeardownInv /\ [Next]_vars => TeardownInv'
<1> SUFFICES ASSUME TypeInv, TeardownInv, [Next]_vars PROVE TeardownInv'
  OBVIOUS
<1> USE DEF TeardownInv, CallersSound, JoinedSound
<1>a. /\ Main \in Callers /\ \A w \in Workers : w \in Callers /\ w # Main
      /\ call \in [Callers -> CallStates]
      /\ thread \in [Workers -> {"none", "run", "exited", "joined"}]
      /\ loading \in [Workers -> 0..MaxRequests]
      /\ cursor \in 1..(Threads + 1) /\ pass \in 1..2
  <2>1. Main \in Callers /\ \A w \in Workers : w \in Callers /\ w # Main
    BY ConstantsOK DEF Callers, Main, Workers
  <2> QED
    BY <2>1 DEF TypeInv, TypeOK
<1>1. ASSUME NEW c \in Callers, NEW id \in AskedIds \cup {0}, AskService(c, id)
      PROVE  TeardownInv'
  <2>1. /\ call'[c].pc = "pick"
        /\ \A d \in Callers \ {c} : call'[d] = call[d]
    <3>1. \A r, w : ScanFrom1(r).pc = "pick" /\ Explicit(r, w).pc = "pick"
      BY DEF ScanFrom1, Explicit, NoCall
    <3> QED
      BY <1>1, <1>a, <3>1 DEF AskService
  <2>2. IF c = Main THEN mainPc = "boot" /\ mainPc' = "call"
                    ELSE loading[c] # 0 /\ mainPc' = mainPc
    BY <1>1 DEF AskService, MayAsk
  <2> QED
    BY <1>1, <1>a, <2>1, <2>2 DEF AskService, workerVars, Callers
<1>2. ASSUME NEW c \in Callers, call[c].pc # "idle", Return(c),
             UNCHANGED <<cursor, pass, workerVars>>
      PROVE  TeardownInv'
  <2>1. NoCall.pc = "idle"
    BY DEF NoCall
  <2> QED
    BY <1>2, <1>a, <2>1 DEF Return, workerVars
<1>3. ASSUME NEW c \in Callers, call[c].pc # "idle", call'[c].pc # "idle",
             \A d \in Callers \ {c} : call'[d] = call[d],
             UNCHANGED <<mainVars, workerVars>>
      PROVE  TeardownInv'
  BY <1>3, <1>a DEF mainVars, workerVars
<1>4. ASSUME NEW c \in Callers, CallStep(c)
      PROVE  TeardownInv'
  <2>1. CASE \E id \in AskedIds \cup {0} : AskService(c, id)
    BY <1>1, <2>1
  <2>2. CASE ReadCount(c)
    <3>1. call[c].pc = "pick" /\ call[c] \in CallStates
      BY <1>a, <2>2 DEF ReadCount
    <3>2. call'[c].pc = "pick"
      <4>1. \A n, m, t : /\ [call[c] EXCEPT !.next = n, !.min = m, !.target = t].pc = "pick"
                         /\ [call[c] EXCEPT !.next = n].pc = "pick"
        BY <3>1 DEF CallStates
      <4> QED
        BY <1>a, <2>2, <4>1 DEF ReadCount
    <3> QED
      BY <1>3, <1>a, <2>2, <3>1, <3>2 DEF ReadCount
  <2>3. CASE Refuse(c)
    BY <1>2, <2>3 DEF Refuse, Scanned
  <2>4. CASE CountService(c)
    <3>1. call[c].pc = "pick" /\ call[c] \in CallStates
      BY <1>a, <2>4 DEF CountService, Scanned
    <3>2. call'[c].pc = "post"
      BY <1>a, <2>4, <3>1 DEF CountService, CallStates
    <3> QED
      BY <1>3, <1>a, <2>4, <3>1, <3>2 DEF CountService
  <2>5. CASE Post(c)
    BY <1>2, <2>5 DEF Post
  <2> QED
    BY <1>4, <2>1, <2>2, <2>3, <2>4, <2>5 DEF CallStep
<1>5. ASSUME NEW w \in Workers, HandlerStep(w)
      PROVE  TeardownInv'
  <2>1. CASE StartHandler(w)
    BY <1>a, <2>1 DEF StartHandler, mainVars
  <2>2. CASE FinishHandler(w)
    BY <1>a, <2>2 DEF FinishHandler, mainVars
  <2>3. CASE LeaveLoop(w)
    BY <1>a, <2>3 DEF LeaveLoop, MayLeave, mainVars
  <2> QED
    BY <1>5, <2>1, <2>2, <2>3 DEF HandlerStep
<1>6. ASSUME MainStep
      PROVE  TeardownInv'
  <2>1. CASE Launch
    BY <1>a, <2>1 DEF Launch
  <2>2. CASE Launched
    BY <1>a, <2>2 DEF Launched, workerVars
  <2>3. CASE Wake
    BY <1>a, <2>3 DEF Wake, workerVars, Workers
  <2>4. CASE StopWorker
    BY <1>a, <2>4 DEF StopWorker
  <2>5. CASE JoinWorker
    <3>1. cursor \in Workers
      BY <2>5 DEF JoinWorker, TypeInv, CursorSound
    <3>2. \A w \in Workers : w < cursor + 1 => w < cursor \/ w = cursor
      BY <1>a DEF Workers
    <3>3. thread'[cursor] = "joined" /\ \A w \in Workers : w # cursor => thread'[w] = thread[w]
      BY <1>a, <2>5, <3>1 DEF JoinWorker
    <3>4. loading[cursor] = 0
      BY <2>5, <3>1 DEF JoinWorker
    <3> QED
      BY <2>5, <3>1, <3>2, <3>3, <3>4 DEF JoinWorker
  <2>6. CASE WaitAgain
    <3>1. \A w \in Workers : w < cursor /\ ~(w < 1)
      BY <2>6, ConstantsOK DEF WaitAgain, Workers
    <3> QED
      BY <2>6, <3>1 DEF WaitAgain, workerVars
  <2>7. CASE Destroy
    BY <1>a, <2>7 DEF Destroy
  <2> QED
    BY <1>6, <2>1, <2>2, <2>3, <2>4, <2>5, <2>6, <2>7 DEF MainStep, Shutdown
<1>7. CASE UNCHANGED vars
  BY <1>7 DEF vars, mainVars, workerVars
<1> QED
  BY <1>4, <1>5, <1>6, <1>7 DEF Next

(* When the workers are destroyed no thread of them runs and nobody is in   *)
(* newService, so the raw Server pointers of handlers and scripts are never *)
(* used after the Server.                                                   *)
THEOREM TeardownIsSafe == Spec => []TeardownSafe
<1>1. TypeInv /\ TeardownInv => TeardownSafe
  <2> SUFFICES ASSUME TypeInv, TeardownInv, mainPc = "done" PROVE TeardownSafe
    BY DEF TeardownSafe
  <2>1. \A w \in Workers : thread[w] = "joined" /\ loading[w] = 0
    BY DEF TeardownInv, CallersSound, JoinedSound
  <2>2. \A c \in Callers : call[c].pc = "idle"
    BY <2>1 DEF TeardownInv, CallersSound, Callers
  <2> QED
    BY <2>1, <2>2 DEF TeardownSafe, TeardownInv, CallersSound
<1> QED
  BY <1>1, TypeInit, TypeNext, TeardownInit, TeardownNext, PTL DEF Spec

-----------------------------------------------------------------------------
(* The thread main joins. *)

(* main joins a context it has stopped, and every thread has been started    *)
(* when the constructor's loop is over.                                     *)
StopBeforeJoin == mainPc = "join" => stopped[cursor]
StartedSound ==
  /\ mainPc # "launch" => \A w \in Workers : thread[w] # "none"
  /\ mainPc = "launch" => \A w \in Workers : w < cursor => thread[w] # "none"

JoinInv == StopBeforeJoin /\ StartedSound

LEMMA JoinInit == Init => JoinInv
  BY DEF Init, JoinInv, StopBeforeJoin, StartedSound, Workers

LEMMA JoinNext == TypeInv /\ TeardownInv /\ JoinInv /\ [Next]_vars => JoinInv'
<1> SUFFICES ASSUME TypeInv, TeardownInv, JoinInv, [Next]_vars PROVE JoinInv'
  OBVIOUS
<1> USE DEF JoinInv, StopBeforeJoin, StartedSound
<1>a. /\ thread \in [Workers -> {"none", "run", "exited", "joined"}]
      /\ stopped \in [Workers -> BOOLEAN]
      /\ cursor \in 1..(Threads + 1)
      /\ \A w \in Workers : w \in 1..Threads
  BY DEF TypeInv, TypeOK, Workers
<1>1. ASSUME NEW c \in Callers, CallStep(c)
      PROVE  JoinInv'
  <2>1. UNCHANGED <<cursor, thread, stopped>>
    BY <1>1 DEF CallStep, AskService, ReadCount, Refuse, CountService, Post, mainVars,
                workerVars
  <2>2. \/ mainPc' = mainPc
        \/ mainPc # "launch" /\ mainPc' \in {"call", "sleep"}
    <3>1. CASE \E id \in AskedIds \cup {0} : AskService(c, id)
      BY <3>1 DEF AskService, MayAsk
    <3>2. CASE ReadCount(c) \/ CountService(c)
      BY <3>2 DEF ReadCount, CountService, mainVars
    <3>3. CASE Refuse(c) \/ Post(c)
      <4>1. call[c].pc # "idle"
        BY <3>3 DEF Refuse, Scanned, Post
      <4>2. c = Main => mainPc = "call"
        BY <4>1 DEF TeardownInv, CallersSound
      <4> QED
        BY <3>3, <4>2 DEF Refuse, Post, Return
    <3> QED
      BY <1>1, <3>1, <3>2, <3>3 DEF CallStep
  <2> QED
    BY <2>1, <2>2
<1>2. ASSUME NEW w \in Workers, HandlerStep(w)
      PROVE  JoinInv'
  <2>1. UNCHANGED <<mainPc, cursor, stopped>>
    BY <1>2 DEF HandlerStep, StartHandler, FinishHandler, LeaveLoop, mainVars
  <2>2. thread' = thread \/ thread' = [thread EXCEPT ![w] = "exited"]
    BY <1>2 DEF HandlerStep, StartHandler, FinishHandler, LeaveLoop
  <2> QED
    BY <1>a, <2>1, <2>2
<1>3. CASE MainStep
  <2>1. CASE Launch
    <3>1. \A w \in Workers : w < cursor + 1 => w < cursor \/ w = cursor
      BY <1>a
    <3> QED
      BY <1>a, <2>1, <3>1 DEF Launch
  <2>2. CASE Launched
    <3>1. \A w \in Workers : w < cursor
      BY <1>a, <2>2, ConstantsOK DEF Launched
    <3> QED
      BY <2>2, <3>1 DEF Launched, workerVars
  <2>3. CASE Wake \/ WaitAgain \/ Destroy
    BY <2>3 DEF Wake, WaitAgain, Destroy, workerVars
  <2>4. CASE StopWorker
    BY <1>a, <2>4 DEF StopWorker
  <2>5. CASE JoinWorker
    BY <1>a, <2>5 DEF JoinWorker
  <2> QED
    BY <1>3, <2>1, <2>2, <2>3, <2>4, <2>5 DEF MainStep, Shutdown
<1>4. CASE UNCHANGED vars
  BY <1>4 DEF vars, mainVars, workerVars
<1> QED
  BY <1>1, <1>2, <1>3, <1>4 DEF Next

(* main never joins a thread that has nothing left to do and is not about to *)
(* exit either: for any number of workers and whatever their scripts are in *)
(* the middle of, the thread main waits for has exited or has a step to take. *)
THEOREM NobodyIsStuck == Spec => []NeverStuck
<1>1. TypeInv /\ JoinInv => NeverStuck
  <2> SUFFICES ASSUME TypeInv, JoinInv, mainPc = "join" PROVE
                 \/ thread[cursor] \in {"exited", "joined"}
                 \/ thread[cursor] = "run" /\ CanMove(cursor)
    BY DEF NeverStuck
  <2>1. /\ cursor \in Workers /\ stopped[cursor] /\ thread[cursor] # "none"
        /\ thread[cursor] \in {"none", "run", "exited", "joined"}
    BY DEF TypeInv, TypeOK, CursorSound, JoinInv, StopBeforeJoin, StartedSound
  <2>2. thread[cursor] = "run" => CanMove(cursor)
    BY <2>1 DEF CanMove, MayLeave
  <2> QED
    BY <2>1, <2>2
<1> QED
  BY <1>1, TypeInit, TypeNext, TeardownInit, TeardownNext, JoinInit, JoinNext, PTL DEF Spec

=============================================================================
