-------------------------- MODULE RefinementProofs --------------------------
(* The refinement of ServerRefinement: the proof that every step of          *)
(* ServerWorkers is a step of ServicePromise or none, as long as the ids    *)
(* fit.  The invariant it needs is that a request is in one place at a time. *)
EXTENDS ServerRefinement, IdsProofs, PlacementProofs

-----------------------------------------------------------------------------
(* One place at a time. *)

(* A request is in the hands of one caller, and in a queue once. *)
OneCall ==
  \A c, d \in Callers :
    call[c].pc # "idle" /\ call[d].pc # "idle" /\ call[c].req = call[d].req => c = d
OneSlot ==
  \A w \in Workers : \A i, j \in DOMAIN queue[w] : queue[w][i] = queue[w][j] => i = j

InCall(r) ==
  /\ Asking(r)
  /\ \A v \in Workers : ~QueuedAt(r, v) /\ loading[v] # r /\ ~LiveAt(r, v)
InQueue(r, w) ==
  /\ ~Asking(r)
  /\ \A v \in Workers : (QueuedAt(r, v) <=> v = w) /\ loading[v] # r /\ ~LiveAt(r, v)
InHandler(r, w) ==
  /\ ~Asking(r)
  /\ \A v \in Workers : ~QueuedAt(r, v) /\ (loading[v] = r <=> v = w) /\ ~LiveAt(r, v)
InMap(r, w) ==
  /\ ~Asking(r)
  /\ \A v \in Workers : ~QueuedAt(r, v) /\ loading[v] # r /\ (LiveAt(r, v) <=> v = w)
Nowhere(r) ==
  /\ ~Asking(r)
  /\ \A v \in Workers : ~QueuedAt(r, v) /\ loading[v] # r /\ ~LiveAt(r, v)

OnePlace(r) ==
  \/ InCall(r) \/ Nowhere(r)
  \/ \E w \in Workers : InQueue(r, w) \/ InHandler(r, w) \/ InMap(r, w)

PlaceInv == OneCall /\ OneSlot /\ \A r \in Requests : OnePlace(r)

(* No worker's loop is left before it was stopped. *)
StoppedSound == \A w \in Workers : thread[w] \in {"exited", "joined"} => stopped[w]

-----------------------------------------------------------------------------
(* The mapping. *)

(* A request that has not been made is nowhere. *)
LEMMA UnbornNowhere ==
  ASSUME TypeInv, Known, NEW r \in Requests, r \notin 1..issued
  PROVE  Nowhere(r)
<1>1. r # 0 /\ r \notin 0..issued
  BY ConstantsOK DEF Requests, TypeInv, TypeOK
<1> QED
  BY <1>1 DEF Known, CallsKnown, QueuesKnown, LoadsKnown, MapsKnown, Nowhere, Asking,
              QueuedAt, LiveAt

(* The stage and the home that the mapping reads off a place. *)
StageRead(r) ==
  /\ r > issued => StageOf(r) = "unborn" /\ HomeOf(r) = 0
  /\ InCall(r) => StageOf(r) = "asked" /\ HomeOf(r) = 0
  /\ \A w \in Workers :
       /\ InQueue(r, w) => StageOf(r) = "queued" /\ HomeOf(r) = w
       /\ InHandler(r, w) => StageOf(r) = "loading" /\ HomeOf(r) = w
       /\ InMap(r, w) => StageOf(r) = "live" /\ HomeOf(r) = w
  /\ ~(r > issued) /\ Nowhere(r) => StageOf(r) = "lost" /\ HomeOf(r) = 0

LEMMA HomeIs ==
  ASSUME NEW r, NEW w \in Workers,
         \A v \in Workers : (QueuedAt(r, v) \/ loading[v] = r \/ LiveAt(r, v)) <=> v = w
  PROVE  HomeOf(r) = w
<1>1. Holders(r) = {w}
  BY DEF Holders
<1> QED
  BY <1>1 DEF HomeOf

LEMMA HomeIsNone ==
  ASSUME NEW r,
         \A v \in Workers : ~(QueuedAt(r, v) \/ loading[v] = r \/ LiveAt(r, v))
  PROVE  HomeOf(r) = 0
  BY DEF HomeOf, Holders

LEMMA StageLaws == TypeInv /\ Known => \A r \in Requests : StageRead(r)
<1> SUFFICES ASSUME TypeInv, Known, NEW r \in Requests PROVE StageRead(r)
  OBVIOUS
<1>a. /\ r \in 1..issued <=> ~(r > issued)
      /\ r <= issued <=> ~(r > issued)
  BY ConstantsOK DEF Requests, TypeInv, TypeOK
<1>b. r > issued => Nowhere(r)
  BY <1>a, UnbornNowhere
<1>1. CASE Nowhere(r)
  <2>1. HomeOf(r) = 0
    BY <1>1, HomeIsNone DEF Nowhere
  <2>2. StageOf(r) = IF r > issued THEN "unborn" ELSE "lost"
    BY <1>1, <1>a DEF StageOf, Nowhere
  <2> QED
    BY <1>1, <2>1, <2>2 DEF StageRead, Nowhere, InCall, InQueue, InHandler, InMap
<1>2. ASSUME InCall(r)
      PROVE  StageOf(r) = "asked" /\ HomeOf(r) = 0
  <2>1. HomeOf(r) = 0
    BY <1>2, HomeIsNone DEF InCall
  <2>2. StageOf(r) = "asked"
    BY <1>2, <1>a, <1>b DEF StageOf, InCall, Nowhere
  <2> QED
    BY <2>1, <2>2
<1>3. ASSUME NEW w \in Workers, InQueue(r, w)
      PROVE  StageOf(r) = "queued" /\ HomeOf(r) = w
  <2>1. HomeOf(r) = w
    BY <1>3, HomeIs DEF InQueue
  <2>2. StageOf(r) = "queued"
    BY <1>3, <1>a, <1>b DEF StageOf, InQueue, Nowhere
  <2> QED
    BY <2>1, <2>2
<1>4. ASSUME NEW w \in Workers, InHandler(r, w)
      PROVE  StageOf(r) = "loading" /\ HomeOf(r) = w
  <2>1. HomeOf(r) = w
    BY <1>4, HomeIs DEF InHandler
  <2>2. StageOf(r) = "loading"
    BY <1>4, <1>a, <1>b DEF StageOf, InHandler, Nowhere
  <2> QED
    BY <2>1, <2>2
<1>5. ASSUME NEW w \in Workers, InMap(r, w)
      PROVE  StageOf(r) = "live" /\ HomeOf(r) = w
  <2>1. HomeOf(r) = w
    BY <1>5, HomeIs DEF InMap
  <2>2. StageOf(r) = "live"
    BY <1>5, <1>a, <1>b DEF StageOf, InMap, Nowhere
  <2> QED
    BY <2>1, <2>2
<1>6. CASE ~Nowhere(r)
  BY <1>b, <1>2, <1>3, <1>4, <1>5, <1>6 DEF StageRead
<1> QED
  BY <1>1, <1>6

(* A step that does not touch a request leaves its place, stage and home. *)
Untouched(r) ==
  /\ r > issued' <=> r > issued
  /\ r <= issued' <=> r <= issued
  /\ Asking(r)' <=> Asking(r)
  /\ \A v \in Workers : /\ QueuedAt(r, v)' <=> QueuedAt(r, v)
                        /\ loading'[v] = r <=> loading[v] = r
                        /\ LiveAt(r, v)' <=> LiveAt(r, v)

LEMMA UntouchedStays ==
  ASSUME NEW r, Untouched(r)
  PROVE  /\ OnePlace(r) => OnePlace(r)'
         /\ StageOf(r)' = StageOf(r)
         /\ HomeOf(r)' = HomeOf(r)
<1>1. OnePlace(r) => OnePlace(r)'
  BY DEF Untouched, OnePlace, InCall, InQueue, InHandler, InMap, Nowhere
<1>2. HomeOf(r)' = HomeOf(r)
  <2>1. Holders(r)' = Holders(r)
    BY DEF Holders, Untouched
  <2> QED
    BY <2>1 DEF HomeOf
<1>3. StageOf(r)' = StageOf(r)
  BY DEF StageOf, Untouched
<1> QED
  BY <1>1, <1>2, <1>3

-----------------------------------------------------------------------------
(* What each step moves. *)

LEMMA AskMoves ==
  ASSUME TypeInv, Known, PlaceInv,
         NEW c \in Callers, NEW id \in AskedIds \cup {0}, AskService(c, id),
         NEW r, r = issued + 1
  PROVE  /\ r \in Requests /\ ~(r > issued')
         /\ InCall(r)'
         /\ \A q \in Requests \ {r} : Untouched(q)
         /\ OneCall' /\ OneSlot'
<1>1. /\ issued \in 0..MaxRequests /\ MaxRequests \in Nat /\ issued < MaxRequests
      /\ issued' = issued + 1
      /\ UNCHANGED <<queue, loading, serviceMap>>
  BY ConstantsOK DEF AskService, workerVars, TypeInv, TypeOK
<1>2. r \in Requests /\ ~(r > issued') /\ r \notin 1..issued
  BY <1>1 DEF Requests
<1>3. /\ call[c].pc = "idle" /\ call'[c].pc = "pick" /\ call'[c].req = r
      /\ \A d \in Callers \ {c} : call'[d] = call[d]
  <2>1. call'[c] = IF id \in Workers THEN Explicit(r, id) ELSE ScanFrom1(r)
    BY DEF AskService, TypeInv, TypeOK
  <2>2. call'[c].req = r
    BY <2>1 DEF Explicit, ScanFrom1, NoCall
  <2> QED
    BY <2>2, AskFacts
<1>4. \A q \in Requests \ {r} : (q > issued' <=> q > issued) /\ (q <= issued' <=> q <= issued)
  BY <1>1 DEF Requests
<1>5. Nowhere(r)
  BY <1>2, UnbornNowhere
<1>6. InCall(r)'
  BY <1>1, <1>3, <1>5 DEF InCall, Nowhere, Asking, QueuedAt, LiveAt
<1>7. \A q \in Requests \ {r} : Untouched(q)
  BY <1>1, <1>3, <1>4 DEF Untouched, Asking, QueuedAt, LiveAt
<1>8. OneCall' /\ OneSlot'
  BY <1>1, <1>3, <1>5 DEF PlaceInv, OneCall, OneSlot, Nowhere, Asking
<1> QED
  BY <1>2, <1>6, <1>7, <1>8

(* The steps inside a call. *)
LEMMA CallKeeps ==
  ASSUME TypeInv, PlaceInv, NEW c \in Callers, ReadCount(c) \/ CountService(c)
  PROVE  (\A q \in Requests : Untouched(q)) /\ OneCall' /\ OneSlot'
<1>1. /\ call[c].pc # "idle" /\ call'[c].pc # "idle" /\ call'[c].req = call[c].req
      /\ \A d \in Callers \ {c} : call'[d] = call[d]
  BY ReadFacts, CountFacts, RequestKept
<1>2. UNCHANGED <<queue, loading, serviceMap, issued>>
  BY DEF ReadCount, CountService, workerVars, askVars
<1>3. \A q \in Requests : Untouched(q)
  BY <1>1, <1>2 DEF Untouched, Asking, QueuedAt, LiveAt
<1> QED
  BY <1>1, <1>2, <1>3 DEF PlaceInv, OneCall, OneSlot

(* A call that is open has its request to itself. *)
LEMMA CallHolds ==
  ASSUME TypeInv, PlaceInv, NEW c \in Callers, call[c].pc # "idle",
         NEW r, r = call[c].req
  PROVE  /\ r \in Requests /\ InCall(r)
         /\ \A d \in Callers : call[d].pc # "idle" /\ call[d].req = r => d = c
<1>1. r \in Requests /\ Asking(r)
  BY DEF TypeInv, CallsSound, Asking
<1>2. InCall(r)
  BY <1>1 DEF PlaceInv, OnePlace, InQueue, InHandler, InMap, Nowhere
<1> QED
  BY <1>1, <1>2 DEF PlaceInv, OneCall

LEMMA PostMoves ==
  ASSUME TypeInv, PlaceInv, NEW c \in Callers, Post(c),
         NEW r, r = call[c].req, NEW w, w = call[c].target
  PROVE  /\ r \in Requests /\ w \in Workers
         /\ InCall(r) /\ InQueue(r, w)'
         /\ \A q \in Requests \ {r} : Untouched(q)
         /\ OneCall' /\ OneSlot'
<1>1. /\ call[c].pc # "idle" /\ call'[c].pc = "idle" /\ w \in Workers
      /\ \A d \in Callers \ {c} : call'[d] = call[d]
  BY ReturnFacts DEF Post, TypeInv, CallsSound
<1>2. /\ r \in Requests /\ InCall(r)
      /\ \A d \in Callers : call[d].pc # "idle" /\ call[d].req = r => d = c
  BY <1>1, CallHolds
<1>3. UNCHANGED <<loading, serviceMap, issued>>
  BY DEF Post, workerVars, askVars
<1>4. \A u \in Workers : queue[u] \in Seq(Requests)
  BY DEF TypeInv, TypeOK
<1>5. \A u \in Workers :
        queue'[u] = IF u = w THEN Append(queue[w], r) ELSE queue[u]
  BY <1>1 DEF Post, TypeInv, TypeOK
<1>6. /\ \A i \in DOMAIN queue[w] : i \in DOMAIN queue'[w] /\ queue'[w][i] = queue[w][i]
      /\ \A i \in DOMAIN queue'[w] :
           i \in DOMAIN queue[w] \/ (i = Len(queue[w]) + 1 /\ queue'[w][i] = r)
      /\ Len(queue[w]) + 1 \in DOMAIN queue'[w] /\ queue'[w][Len(queue[w]) + 1] = r
      /\ Len(queue[w]) + 1 \notin DOMAIN queue[w]
  <2>1. queue[w] \in Seq(Requests) /\ queue'[w] = Append(queue[w], r)
    BY <1>1, <1>4, <1>5
  <2>2. /\ Len(queue[w]) \in Nat /\ DOMAIN queue[w] = 1..Len(queue[w])
        /\ DOMAIN queue'[w] = 1..(Len(queue[w]) + 1)
        /\ \A i \in 1..Len(queue[w]) : queue'[w][i] = queue[w][i]
        /\ queue'[w][Len(queue[w]) + 1] = r
    BY <1>2, <2>1
  <2>3. \A i \in 1..(Len(queue[w]) + 1) : i \in 1..Len(queue[w]) \/ i = Len(queue[w]) + 1
    BY <2>2
  <2>4. /\ Len(queue[w]) + 1 \in 1..(Len(queue[w]) + 1)
        /\ Len(queue[w]) + 1 \notin 1..Len(queue[w])
        /\ \A i \in 1..Len(queue[w]) : i \in 1..(Len(queue[w]) + 1)
    BY <2>2
  <2> QED
    BY <2>2, <2>3, <2>4
<1>7. \A q \in Requests : \A u \in Workers :
        QueuedAt(q, u)' <=> QueuedAt(q, u) \/ (q = r /\ u = w)
  BY <1>5, <1>6 DEF QueuedAt
<1>8. \A q \in Requests : Asking(q)' <=> Asking(q) /\ q # r
  BY <1>1, <1>2 DEF Asking
<1>9. InQueue(r, w)'
  BY <1>2, <1>3, <1>7, <1>8 DEF InQueue, InCall, LiveAt
<1>10. \A q \in Requests \ {r} : Untouched(q)
  BY <1>3, <1>7, <1>8 DEF Untouched, LiveAt
<1>11. OneCall'
  BY <1>1 DEF PlaceInv, OneCall
<1>12. OneSlot'
  <2>1. \A i \in DOMAIN queue[w] : queue[w][i] # r
    BY <1>1, <1>2 DEF InCall, QueuedAt
  <2> QED
    BY <1>5, <1>6, <2>1 DEF PlaceInv, OneSlot
<1> QED
  BY <1>1, <1>2, <1>9, <1>10, <1>11, <1>12

LEMMA RefuseMoves ==
  ASSUME TypeInv, PlaceInv, Workers = {}, NEW c \in Callers, Refuse(c),
         NEW r, r = call[c].req
  PROVE  /\ r \in Requests
         /\ InCall(r) /\ Nowhere(r)'
         /\ \A q \in Requests \ {r} : Untouched(q)
         /\ OneCall' /\ OneSlot'
<1>1. /\ call[c].pc # "idle" /\ call'[c].pc = "idle"
      /\ \A d \in Callers \ {c} : call'[d] = call[d]
  BY ReturnFacts DEF Refuse, Scanned
<1>2. /\ r \in Requests /\ InCall(r)
      /\ \A d \in Callers : call[d].pc # "idle" /\ call[d].req = r => d = c
  BY <1>1, CallHolds
<1>3. issued' = issued
  BY DEF Refuse, askVars
<1>4. \A q \in Requests : Asking(q)' <=> Asking(q) /\ q # r
  BY <1>1, <1>2 DEF Asking
<1>5. Nowhere(r)' /\ \A q \in Requests \ {r} : Untouched(q)
  BY <1>2, <1>3, <1>4 DEF Nowhere, Untouched
<1>6. OneCall' /\ OneSlot'
  BY <1>1 DEF PlaceInv, OneCall, OneSlot
<1> QED
  BY <1>2, <1>5, <1>6

LEMMA StartMoves ==
  ASSUME TypeInv, PlaceInv, NEW v \in Workers, StartHandler(v),
         NEW r, r = Head(queue[v])
  PROVE  /\ r \in Requests
         /\ InQueue(r, v) /\ InHandler(r, v)'
         /\ \A q \in Requests \ {r} : Untouched(q)
         /\ OneCall' /\ OneSlot'
<1>1. queue[v] \in Seq(Requests) /\ queue[v] # <<>> /\ loading[v] = 0
  BY DEF StartHandler, TypeInv, TypeOK
<1>2. /\ r \in Requests /\ 1 \in DOMAIN queue[v] /\ queue[v][1] = r
      /\ Len(queue[v]) \in Nat /\ DOMAIN queue[v] = 1..Len(queue[v])
      /\ DOMAIN Tail(queue[v]) = 1..(Len(queue[v]) - 1)
      /\ \A i \in 1..(Len(queue[v]) - 1) : Tail(queue[v])[i] = queue[v][i + 1]
  BY <1>1
<1>3. /\ \A u \in Workers : queue'[u] = IF u = v THEN Tail(queue[v]) ELSE queue[u]
      /\ \A u \in Workers : loading'[u] = IF u = v THEN r ELSE loading[u]
      /\ UNCHANGED <<call, serviceMap, issued>>
  BY DEF StartHandler, TypeInv, TypeOK, askVars
<1>4. \A q \in Requests : q # 0
  BY DEF Requests
<1>5. InQueue(r, v)
  <2>1. QueuedAt(r, v) /\ OnePlace(r)
    BY <1>2 DEF QueuedAt, PlaceInv
  <2> QED
    BY <2>1 DEF OnePlace, InCall, InQueue, InHandler, InMap, Nowhere
<1>6. \A i \in 1..(Len(queue[v]) - 1) :
        i + 1 \in DOMAIN queue[v] /\ i + 1 # 1 /\ queue'[v][i] = queue[v][i + 1]
  <2>1. queue'[v] = Tail(queue[v])
    BY <1>3
  <2>2. \A i \in 1..(Len(queue[v]) - 1) : i + 1 \in 1..Len(queue[v]) /\ i + 1 # 1
    BY <1>2
  <2> QED
    BY <1>2, <2>1, <2>2
<1>7. \A k \in DOMAIN queue[v] : k = 1 \/ (k - 1 \in 1..(Len(queue[v]) - 1) /\ (k - 1) + 1 = k)
  BY <1>2
<1>8. DOMAIN queue'[v] = 1..(Len(queue[v]) - 1)
  BY <1>2, <1>3
<1>9. \A i \in DOMAIN queue[v] : queue[v][i] = r => i = 1
  BY <1>2 DEF PlaceInv, OneSlot
<1>10. \A q \in Requests : QueuedAt(q, v)' <=> QueuedAt(q, v) /\ q # r
  <2>1. ASSUME NEW q \in Requests, QueuedAt(q, v)'
        PROVE  QueuedAt(q, v) /\ q # r
    <3>1. PICK i \in 1..(Len(queue[v]) - 1) : queue'[v][i] = q
      BY <1>8, <2>1 DEF QueuedAt
    <3> QED
      BY <1>6, <1>9, <3>1 DEF QueuedAt
  <2>2. ASSUME NEW q \in Requests, QueuedAt(q, v), q # r
        PROVE  QueuedAt(q, v)'
    <3>1. PICK k \in DOMAIN queue[v] : queue[v][k] = q
      BY <2>2 DEF QueuedAt
    <3>2. k - 1 \in 1..(Len(queue[v]) - 1) /\ (k - 1) + 1 = k
      BY <1>2, <1>7, <2>2, <3>1
    <3>3. queue'[v][k - 1] = q
      BY <1>6, <3>1, <3>2
    <3> QED
      BY <1>8, <3>2, <3>3 DEF QueuedAt
  <2> QED
    BY <2>1, <2>2
<1>11. \A q \in Requests : \A u \in Workers :
         QueuedAt(q, u)' <=> QueuedAt(q, u) /\ q # r
  <2>1. ASSUME NEW u \in Workers \ {v}, NEW q \in Requests
        PROVE  QueuedAt(q, u)' <=> QueuedAt(q, u) /\ q # r
    BY <1>3, <1>5 DEF QueuedAt, InQueue
  <2> QED
    BY <1>10, <2>1
<1>12. \A q \in Requests : Asking(q)' <=> Asking(q)
  BY <1>3 DEF Asking
<1>13. InHandler(r, v)'
  BY <1>2, <1>3, <1>5, <1>11, <1>12 DEF InHandler, InQueue, LiveAt
<1>14. \A q \in Requests \ {r} : Untouched(q)
  BY <1>1, <1>3, <1>4, <1>11, <1>12 DEF Untouched, LiveAt
<1>15. OneCall'
  BY <1>3 DEF PlaceInv, OneCall
<1>16. OneSlot'
  <2>1. ASSUME NEW i \in DOMAIN queue'[v], NEW j \in DOMAIN queue'[v],
               queue'[v][i] = queue'[v][j]
        PROVE  i = j
    <3>1. i + 1 = j + 1
      BY <1>6, <1>8, <2>1 DEF PlaceInv, OneSlot
    <3> QED
      BY <1>2, <1>8, <3>1
  <2> QED
    BY <1>3, <2>1 DEF PlaceInv, OneSlot
<1> QED
  BY <1>2, <1>5, <1>13, <1>14, <1>15, <1>16

LEMMA FinishMoves ==
  ASSUME IdsFit, TypeInv, GenFit, Drawn, PlaceInv, NEW v \in Workers, FinishHandler(v),
         NEW r, r = loading[v]
  PROVE  /\ r \in Requests
         /\ InHandler(r, v) /\ InMap(r, v)'
         /\ \A q \in Requests \ {r} : Untouched(q)
         /\ OneCall' /\ OneSlot'
<1> DEFINE new == [id |-> ServiceId(genID[v], v), req |-> loading[v]]
<1>1. r \in Requests /\ r # 0
  BY ConstantsOK DEF FinishHandler, TypeInv, TypeOK, Requests
<1>2. /\ \A u \in Workers : loading'[u] = IF u = v THEN 0 ELSE loading[u]
      /\ UNCHANGED <<call, queue, issued>>
  BY DEF FinishHandler, TypeInv, TypeOK, askVars
<1>3. \A u \in Workers :
        serviceMap'[u] = IF u = v THEN serviceMap[v] \cup {new} ELSE serviceMap[u]
  <2>1. \A e \in serviceMap[v] : e.id # ServiceId(genID[v], v)
    BY <1>1, FreshId
  <2>2. serviceMap' = [serviceMap EXCEPT ![v] = serviceMap[v] \cup {new}]
    BY <2>1 DEF FinishHandler
  <2> QED
    BY <2>2 DEF TypeInv, TypeOK
<1>4. new.req = r
  OBVIOUS
<1> HIDE DEF new
<1>5. InHandler(r, v)
  <2>1. loading[v] = r /\ OnePlace(r)
    BY <1>1 DEF PlaceInv
  <2> QED
    BY <2>1 DEF OnePlace, InCall, InQueue, InHandler, InMap, Nowhere
<1>6. \A q \in Requests : \A u \in Workers :
        LiveAt(q, u)' <=> LiveAt(q, u) \/ (q = r /\ u = v)
  BY <1>3, <1>4 DEF LiveAt
<1>7. \A q \in Requests : \A u \in Workers :
        (Asking(q)' <=> Asking(q)) /\ (QueuedAt(q, u)' <=> QueuedAt(q, u))
  BY <1>2 DEF Asking, QueuedAt
<1>8. \A q \in Requests : Asking(q)' <=> Asking(q)
  BY <1>2 DEF Asking
<1>9. \A q \in Requests : q # 0
  BY DEF Requests
<1>10. InMap(r, v)'
  BY <1>1, <1>2, <1>5, <1>6, <1>7, <1>8 DEF InMap, InHandler
<1>11. \A q \in Requests \ {r} : Untouched(q)
  BY <1>1, <1>2, <1>6, <1>7, <1>8, <1>9 DEF Untouched
<1>12. OneCall' /\ OneSlot'
  BY <1>2 DEF PlaceInv, OneCall, OneSlot
<1> QED
  BY <1>1, <1>5, <1>10, <1>11, <1>12

(* Steps that leave calls, queues, handlers and maps alone. *)
LEMMA IdleKeeps ==
  ASSUME PlaceInv, UNCHANGED <<call, queue, loading, serviceMap, issued>>
  PROVE  (\A q \in Requests : Untouched(q)) /\ OneCall' /\ OneSlot'
  BY DEF PlaceInv, OneCall, OneSlot, Untouched, Asking, QueuedAt, LiveAt

-----------------------------------------------------------------------------
(* The invariant is preserved. *)

LEMMA MovedPlaces ==
  ASSUME PlaceInv, NEW r \in Requests, OnePlace(r)',
         \A q \in Requests \ {r} : Untouched(q), OneCall', OneSlot'
  PROVE  PlaceInv'
  BY UntouchedStays DEF PlaceInv

LEMMA PlaceNext ==
  ASSUME IdsFit, TypeInv, Known, CountsFit, ScanSound, Untargeted, GenFit, Drawn,
         PlaceInv, [Next]_vars
  PROVE  PlaceInv'
<1>a. NoOverflow
  BY IdsFitWords
<1>1. ASSUME NEW c \in Callers, NEW id \in AskedIds \cup {0}, AskService(c, id)
      PROVE  PlaceInv'
  <2>1. PICK r : r = issued + 1
    OBVIOUS
  <2> QED
    BY <1>1, <2>1, AskMoves, MovedPlaces DEF OnePlace
<1>2. ASSUME NEW c \in Callers, ReadCount(c) \/ CountService(c)
      PROVE  PlaceInv'
  BY <1>2, CallKeeps, UntouchedStays DEF PlaceInv
<1>3. ASSUME NEW c \in Callers, Post(c)
      PROVE  PlaceInv'
  <2>1. PICK r, w : r = call[c].req /\ w = call[c].target
    OBVIOUS
  <2>2. /\ r \in Requests /\ w \in Workers /\ InQueue(r, w)'
        /\ \A q \in Requests \ {r} : Untouched(q)
        /\ OneCall' /\ OneSlot'
    BY <1>3, <2>1, PostMoves
  <2>3. OnePlace(r)'
    BY <2>2 DEF OnePlace
  <2> QED
    BY <2>2, <2>3, MovedPlaces
<1>4. ASSUME NEW c \in Callers, Refuse(c)
      PROVE  PlaceInv'
  <2>1. PICK r : r = call[c].req
    OBVIOUS
  <2> QED
    BY <1>4, <1>a, <2>1, RefusedWithoutWorkers, RefuseMoves, MovedPlaces DEF OnePlace
<1>5. ASSUME NEW v \in Workers, StartHandler(v)
      PROVE  PlaceInv'
  <2>1. PICK r : r = Head(queue[v])
    OBVIOUS
  <2> QED
    BY <1>5, <2>1, StartMoves, MovedPlaces DEF OnePlace
<1>6. ASSUME NEW v \in Workers, FinishHandler(v)
      PROVE  PlaceInv'
  <2>1. PICK r : r = loading[v]
    OBVIOUS
  <2> QED
    BY <1>6, <2>1, FinishMoves, MovedPlaces DEF OnePlace
<1>7. CASE Destroy
  <2>1. /\ UNCHANGED <<call, loading>>
        /\ \A w \in Workers : queue'[w] = <<>> /\ serviceMap'[w] = {}
    BY <1>7 DEF Destroy
  <2>2. ASSUME NEW r \in Requests
        PROVE  /\ Asking(r)' <=> Asking(r)
               /\ \A w \in Workers : ~QueuedAt(r, w)' /\ ~LiveAt(r, w)'
    BY <2>1 DEF Asking, QueuedAt, LiveAt
  <2>3. ASSUME NEW r \in Requests
        PROVE  OnePlace(r)'
    <3>1. CASE InCall(r)
      BY <2>1, <2>2, <3>1 DEF InCall, OnePlace
    <3>2. ASSUME NEW w \in Workers, InHandler(r, w)
          PROVE  OnePlace(r)'
      <4>1. InHandler(r, w)'
        BY <2>1, <2>2, <3>2 DEF InHandler
      <4> QED
        BY <4>1 DEF OnePlace
    <3>3. ASSUME ~Asking(r), \A w \in Workers : loading[w] # r
          PROVE  OnePlace(r)'
      <4>1. Nowhere(r)'
        BY <2>1, <2>2, <3>3 DEF Nowhere
      <4> QED
        BY <4>1 DEF OnePlace
    <3> QED
      BY <3>1, <3>2, <3>3 DEF PlaceInv, OnePlace, InQueue, InMap, Nowhere
  <2> QED
    BY <2>1, <2>3 DEF PlaceInv, OneCall, OneSlot
<1>8. CASE UNCHANGED <<call, queue, loading, serviceMap, issued>>
  BY <1>8, IdleKeeps, UntouchedStays DEF PlaceInv
<1>9. \/ \E c \in Callers : CallStep(c)
      \/ \E v \in Workers : StartHandler(v) \/ FinishHandler(v)
      \/ Destroy
      \/ UNCHANGED <<call, queue, loading, serviceMap, issued>>
  BY DEF Next, MainStep, Launch, Launched, Wake, Shutdown, StopWorker, JoinWorker,
         WaitAgain, HandlerStep, LeaveLoop, vars, workerVars, askVars
<1> QED
  BY <1>1, <1>2, <1>3, <1>4, <1>5, <1>6, <1>7, <1>8, <1>9 DEF CallStep

LEMMA StoppedNext ==
  ASSUME TypeInv, StoppedSound, [Next]_vars
  PROVE  StoppedSound'
<1> USE DEF StoppedSound, TypeInv, TypeOK
<1>1. CASE StopWorker
  BY <1>1 DEF StopWorker
<1>2. CASE JoinWorker
  <2>1. cursor \in Workers
    BY <1>2 DEF JoinWorker, CursorSound
  <2> QED
    BY <1>2, <2>1 DEF JoinWorker
<1>3. CASE Launch
  BY <1>3 DEF Launch
<1>4. ASSUME NEW w \in Workers, LeaveLoop(w)
      PROVE  StoppedSound'
  BY <1>4 DEF LeaveLoop, MayLeave
<1>5. CASE UNCHANGED <<thread, stopped>>
  BY <1>5
<1>6. \/ StopWorker \/ JoinWorker \/ Launch
      \/ \E w \in Workers : LeaveLoop(w)
      \/ UNCHANGED <<thread, stopped>>
  BY DEF Next, MainStep, Launched, Wake, Shutdown, WaitAgain, Destroy, CallStep,
         AskService, ReadCount, Refuse, CountService, Post, HandlerStep, StartHandler,
         FinishHandler, vars, workerVars
<1> QED
  BY <1>1, <1>2, <1>3, <1>4, <1>5, <1>6

RefInv ==
  /\ TypeInv /\ TeardownInv /\ Known /\ MeantInv
  /\ CountsFit /\ ScanSound /\ Untargeted /\ GenFit /\ Drawn
  /\ StoppedSound /\ PlaceInv

LEMMA RefInit == Init => RefInv
<1> SUFFICES ASSUME Init PROVE RefInv
  OBVIOUS
<1>1. StoppedSound /\ Untargeted
  BY DEF Init, StoppedSound, Untargeted, NoCall
<1>2. /\ \A c \in Callers : call[c].pc = "idle"
      /\ \A w \in Workers : queue[w] = <<>> /\ loading[w] = 0 /\ serviceMap[w] = {}
  BY DEF Init, NoCall
<1>3. \A r \in Requests : r # 0
  BY DEF Requests
<1>4. PlaceInv
  BY <1>2, <1>3 DEF PlaceInv, OneCall, OneSlot, OnePlace, Nowhere, Asking, QueuedAt, LiveAt
<1> QED
  BY <1>1, <1>4, TypeInit, TeardownInit, PlacementInit, BalancerInit, IdsInit
     DEF RefInv, BalancerInv

LEMMA RefNext ==
  ASSUME IdsFit
  PROVE  RefInv /\ [Next]_vars => RefInv'
<1>1. NoOverflow
  BY IdsFitWords
<1> QED
  BY <1>1, TypeNext, TeardownNext, KnownNext, MeantNext, FitNext, ScanNext,
     UntargetedNext, GenNext, DrawnNext, StoppedNext, PlaceNext DEF RefInv

-----------------------------------------------------------------------------
(* Every step is a step of the promise. *)

Stage == [q \in Requests |-> StageOf(q)]
Home  == [q \in Requests |-> HomeOf(q)]
Open  == [w \in Workers |-> ~stopped[w]]

(* The mapped functions after a step that moves one request. *)
LEMMA MovedStage ==
  ASSUME NEW r \in Requests, \A q \in Requests \ {r} : Untouched(q),
         NEW to, StageOf(r)' = to, NEW at, HomeOf(r)' = at
  PROVE  /\ Stage' = [Stage EXCEPT ![r] = to]
         /\ Home' = [Home EXCEPT ![r] = at]
<1>1. \A q \in Requests \ {r} : StageOf(q)' = StageOf(q) /\ HomeOf(q)' = HomeOf(q)
  BY UntouchedStays
<1> QED
  BY <1>1 DEF Stage, Home

LEMMA KeptStage ==
  ASSUME \A q \in Requests : Untouched(q)
  PROVE  Stage' = Stage /\ Home' = Home
<1>1. \A q \in Requests : StageOf(q)' = StageOf(q) /\ HomeOf(q)' = HomeOf(q)
  BY UntouchedStays
<1> QED
  BY <1>1 DEF Stage, Home

Readings == \A r \in Requests : StageRead(r)

LEMMA StageLawsNext == TypeInv' /\ Known' => \A r \in Requests : StageRead(r)'
<1>1. TypeInv /\ Known => Readings
  BY StageLaws DEF Readings
<1>2. TypeInv' /\ Known' => Readings'
  BY <1>1, PTL
<1> QED
  BY <1>2 DEF Readings

PromiseNext == [Promise!Next]_(Promise!vars)

LEMMA AskIsAsk ==
  ASSUME RefInv, RefInv', NEW c \in Callers, NEW id \in AskedIds \cup {0},
         AskService(c, id)
  PROVE  PromiseNext
<1>1. PICK r : r = issued + 1
  OBVIOUS
<1>2. /\ r \in Requests /\ ~(r > issued') /\ InCall(r)'
      /\ \A q \in Requests \ {r} : Untouched(q)
  BY <1>1, AskMoves DEF RefInv
<1>3. StageOf(r) = "unborn" /\ HomeOf(r) = 0
  BY <1>1, <1>2, StageLaws DEF RefInv, StageRead, TypeInv, TypeOK
<1>4. StageOf(r)' = "asked" /\ HomeOf(r)' = 0
  BY <1>2, StageLawsNext DEF RefInv, StageRead
<1>5. /\ Stage' = [Stage EXCEPT ![r] = "asked"] /\ Home' = [Home EXCEPT ![r] = 0]
      /\ Stage[r] = "unborn" /\ Home[r] = 0
  BY <1>2, <1>3, <1>4, MovedStage DEF Stage, Home
<1>6. Home' = Home
  BY <1>2, <1>5 DEF Home
<1>7. option' = [option EXCEPT ![r] = id] /\ Open' = Open
  BY <1>1 DEF AskService, workerVars, Open
<1>8. Promise!Ask(r)
  BY <1>5, <1>6, <1>7 DEF Promise!Ask, Promise!Moves, Stage, Home, Open
<1> QED
  BY <1>2, <1>8 DEF PromiseNext, Promise!Next

LEMMA PostIsAccept ==
  ASSUME RefInv, RefInv', NEW c \in Callers, Post(c)
  PROVE  PromiseNext
<1>1. PICK r, w : r = call[c].req /\ w = call[c].target
  OBVIOUS
<1>2. /\ r \in Requests /\ w \in Workers /\ InCall(r) /\ InQueue(r, w)'
      /\ \A q \in Requests \ {r} : Untouched(q)
  BY <1>1, PostMoves DEF RefInv
<1>3. StageOf(r) = "asked"
  BY <1>2, StageLaws DEF RefInv, StageRead
<1>4. StageOf(r)' = "queued" /\ HomeOf(r)' = w
  BY <1>2, StageLawsNext DEF RefInv, StageRead
<1>5. /\ Stage' = [Stage EXCEPT ![r] = "queued"] /\ Home' = [Home EXCEPT ![r] = w]
      /\ Stage[r] = "asked"
  BY <1>2, <1>3, <1>4, MovedStage DEF Stage, Home
<1>6. option' = option /\ Open' = Open
  BY DEF Post, workerVars, askVars, Open
<1>7. option[r] \in Workers => w = option[r]
  BY <1>1 DEF RefInv, MeantInv, PostsMeant, Meant, Post
<1>8. Promise!Accept(r, w)
  BY <1>5, <1>6, <1>7 DEF Promise!Accept, Promise!Moves, Stage, Home, Open
<1> QED
  BY <1>2, <1>8 DEF PromiseNext, Promise!Next

LEMMA RefuseIsRefuse ==
  ASSUME NoOverflow, RefInv, RefInv', NEW c \in Callers, Refuse(c)
  PROVE  PromiseNext
<1>1. PICK r : r = call[c].req
  OBVIOUS
<1>a. Workers = {}
  BY RefusedWithoutWorkers DEF RefInv
<1>2. /\ r \in Requests /\ InCall(r) /\ Nowhere(r)'
      /\ \A q \in Requests \ {r} : Untouched(q)
  BY <1>1, <1>a, RefuseMoves DEF RefInv
<1>3. ~(r > issued) /\ issued' = issued
  <2>1. ~Nowhere(r)
    BY <1>2 DEF InCall, Nowhere
  <2> QED
    BY <1>2, <2>1, UnbornNowhere, ConstantsOK DEF RefInv, Requests, TypeInv, TypeOK,
       Refuse, askVars
<1>4. StageOf(r) = "asked" /\ HomeOf(r) = 0
  BY <1>2, StageLaws DEF RefInv, StageRead
<1>5. StageOf(r)' = "lost" /\ HomeOf(r)' = 0
  BY <1>2, <1>3, StageLawsNext DEF RefInv, StageRead
<1>6. /\ Stage' = [Stage EXCEPT ![r] = "lost"] /\ Home' = [Home EXCEPT ![r] = 0]
      /\ Stage[r] = "asked" /\ Home[r] = 0
  BY <1>2, <1>4, <1>5, MovedStage DEF Stage, Home
<1>7. Home' = Home /\ option' = option /\ Open' = Open
  BY <1>2, <1>6 DEF Refuse, workerVars, askVars, Open, Home
<1>8. Promise!Refuse(r)
  BY <1>6, <1>7, <1>a DEF Promise!Refuse, Promise!Moves, Stage, Home, Open
<1> QED
  BY <1>2, <1>8 DEF PromiseNext, Promise!Next

(* What a stage says of where the request is. *)
LEMMA LoadingIsInHandler ==
  ASSUME RefInv, NEW q \in Requests, StageOf(q) = "loading"
  PROVE  \E w \in Workers : loading[w] = q /\ HomeOf(q) = w
<1>1. StageRead(q) /\ OnePlace(q)
  BY StageLaws DEF RefInv, PlaceInv
<1>2. ~InCall(q) /\ ~Nowhere(q)
  BY <1>1 DEF StageRead
<1>3. \A w \in Workers : ~InQueue(q, w) /\ ~InMap(q, w)
  BY <1>1 DEF StageRead
<1>4. PICK w \in Workers : InHandler(q, w)
  BY <1>1, <1>2, <1>3 DEF OnePlace
<1> QED
  BY <1>1, <1>4 DEF StageRead, InHandler

LEMMA StartIsLoad ==
  ASSUME RefInv, RefInv', NEW v \in Workers, StartHandler(v)
  PROVE  PromiseNext
<1>1. PICK r : r = Head(queue[v])
  OBVIOUS
<1>2. /\ r \in Requests /\ InQueue(r, v) /\ InHandler(r, v)'
      /\ \A q \in Requests \ {r} : Untouched(q)
  BY <1>1, StartMoves DEF RefInv
<1>3. StageOf(r) = "queued" /\ HomeOf(r) = v
  BY <1>2, StageLaws DEF RefInv, StageRead
<1>4. StageOf(r)' = "loading" /\ HomeOf(r)' = v
  BY <1>2, StageLawsNext DEF RefInv, StageRead
<1>5. /\ Stage' = [Stage EXCEPT ![r] = "loading"] /\ Home' = [Home EXCEPT ![r] = v]
      /\ Stage[r] = "queued" /\ Home[r] = v
  BY <1>2, <1>3, <1>4, MovedStage DEF Stage, Home
<1>6. Home' = Home
  BY <1>2, <1>5 DEF Home
<1>7. option' = option /\ Open' = Open /\ Open[v]
  BY DEF StartHandler, askVars, Open
<1>8. \A q \in Requests : Stage[q] = "loading" => Home[q] # Home[r]
  <2> SUFFICES ASSUME NEW q \in Requests, Stage[q] = "loading" PROVE Home[q] # v
    BY <1>5
  <2>1. PICK w \in Workers : loading[w] = q /\ HomeOf(q) = w
    BY LoadingIsInHandler DEF Stage
  <2>2. loading[v] = 0 /\ q # 0
    BY DEF StartHandler, Requests
  <2> QED
    BY <2>1, <2>2 DEF Home
<1>9. Promise!Load(r)
  BY <1>5, <1>6, <1>7, <1>8 DEF Promise!Load, Promise!Moves, Stage, Home, Open
<1> QED
  BY <1>2, <1>9 DEF PromiseNext, Promise!Next

LEMMA FinishIsComplete ==
  ASSUME IdsFit, RefInv, RefInv', NEW v \in Workers, FinishHandler(v)
  PROVE  PromiseNext
<1>1. PICK r : r = loading[v]
  OBVIOUS
<1>2. /\ r \in Requests /\ InHandler(r, v) /\ InMap(r, v)'
      /\ \A q \in Requests \ {r} : Untouched(q)
  BY <1>1, FinishMoves DEF RefInv
<1>3. StageOf(r) = "loading" /\ HomeOf(r) = v
  BY <1>2, StageLaws DEF RefInv, StageRead
<1>4. StageOf(r)' = "live" /\ HomeOf(r)' = v
  BY <1>2, StageLawsNext DEF RefInv, StageRead
<1>5. /\ Stage' = [Stage EXCEPT ![r] = "live"] /\ Home' = [Home EXCEPT ![r] = v]
      /\ Stage[r] = "loading" /\ Home[r] = v
  BY <1>2, <1>3, <1>4, MovedStage DEF Stage, Home
<1>6. Home' = Home
  BY <1>2, <1>5 DEF Home
<1>7. option' = option /\ Open' = Open
  BY DEF FinishHandler, askVars, Open
<1>8. Promise!Complete(r)
  BY <1>5, <1>6, <1>7 DEF Promise!Complete, Promise!Moves, Stage, Home, Open
<1> QED
  BY <1>2, <1>8 DEF PromiseNext, Promise!Next

(* Stopping a worker a second time, in the destructor, is no step. *)
LEMMA StopIsClose ==
  ASSUME RefInv, StopWorker
  PROVE  PromiseNext
<1>1. PICK v \in Workers : v = cursor
  BY DEF StopWorker
<1>2. Stage' = Stage /\ Home' = Home
  <2>1. UNCHANGED <<call, queue, loading, serviceMap, issued>>
    BY DEF StopWorker, askVars
  <2> QED
    BY <2>1, IdleKeeps, KeptStage DEF RefInv
<1>3. option' = option /\ Open' = [Open EXCEPT ![v] = FALSE]
  BY <1>1 DEF StopWorker, askVars, Open, RefInv, TypeInv, TypeOK
<1>4. CASE stopped[v]
  <2>1. Open' = Open
    BY <1>3, <1>4 DEF Open
  <2> QED
    BY <1>2, <1>3, <2>1 DEF PromiseNext, Promise!vars, Stage, Home, Open
<1>5. CASE ~stopped[v]
  <2>1. Open[v]
    BY <1>5 DEF Open
  <2>2. Promise!Close(v)
    BY <1>2, <1>3, <2>1 DEF Promise!Close, Stage, Home, Open
  <2> QED
    BY <2>2 DEF PromiseNext, Promise!Next
<1> QED
  BY <1>4, <1>5

LEMMA DestroyIsEnd ==
  ASSUME RefInv, RefInv', Destroy
  PROVE  PromiseNext
<1>1. \A w \in Workers : stopped[w] /\ loading[w] = 0
  BY DEF RefInv, TeardownInv, JoinedSound, CallersSound, StoppedSound, Destroy
<1>2. \A c \in Callers : call[c].pc = "idle"
  BY <1>1 DEF Destroy, RefInv, TeardownInv, CallersSound, Callers
<1>3. /\ UNCHANGED <<call, loading, issued, option, stopped>>
      /\ \A w \in Workers : queue'[w] = <<>> /\ serviceMap'[w] = {}
  BY DEF Destroy, askVars
<1>4. ASSUME NEW r \in Requests
      PROVE  /\ StageOf(r) \notin {"asked", "loading"}
             /\ StageOf(r)' = IF StageOf(r) = "unborn" THEN "unborn" ELSE "lost"
             /\ HomeOf(r)' = 0
  <2>1. r # 0 /\ ~Asking(r) /\ ~Asking(r)'
    BY <1>2, <1>3 DEF Requests, Asking
  <2>2. Nowhere(r)'
    BY <1>1, <1>3, <2>1 DEF Nowhere, QueuedAt, LiveAt
  <2>3. StageOf(r) # "asked" /\ (StageOf(r) = "unborn" <=> r > issued)
    <3>1. StageRead(r) /\ OnePlace(r)
      BY StageLaws DEF RefInv, PlaceInv
    <3> QED
      BY <2>1, <3>1 DEF StageRead, OnePlace, InCall
  <2>4. StageOf(r) # "loading"
    BY <1>1, <2>1, LoadingIsInHandler
  <2>5. /\ HomeOf(r)' = 0
        /\ StageOf(r)' = IF r > issued THEN "unborn" ELSE "lost"
    BY <1>3, <2>2, StageLawsNext DEF RefInv, StageRead
  <2> QED
    BY <2>3, <2>4, <2>5
<1>5. /\ \A r \in Requests : Stage[r] \notin {"asked", "loading"}
      /\ Stage' = [r \in Requests |-> IF Stage[r] = "unborn" THEN "unborn" ELSE "lost"]
      /\ Home' = [r \in Requests |-> 0]
  BY <1>4 DEF Stage, Home
<1>6. option' = option /\ Open' = Open /\ \A w \in Workers : ~Open[w]
  BY <1>1, <1>3 DEF Open
<1>7. Promise!End
  BY <1>5, <1>6 DEF Promise!End, Stage, Home, Open
<1> QED
  BY <1>7 DEF PromiseNext, Promise!Next

(* The remaining steps do not show. *)
LEMMA OthersStutter ==
  ASSUME RefInv,
         \/ \E c \in Callers : ReadCount(c) \/ CountService(c)
         \/ UNCHANGED <<call, queue, loading, serviceMap, issued, option, stopped>>
  PROVE  PromiseNext
<1>1. \A q \in Requests : Untouched(q)
  BY CallKeeps, IdleKeeps DEF RefInv
<1>2. option' = option /\ Open' = Open
  BY DEF ReadCount, CountService, askVars, workerVars, Open
<1> QED
  BY <1>1, <1>2, KeptStage DEF PromiseNext, Promise!vars, Stage, Home, Open

LEMMA StepIsPromised ==
  ASSUME IdsFit
  PROVE  RefInv /\ RefInv' /\ [Next]_vars => PromiseNext
<1> SUFFICES ASSUME RefInv, RefInv', [Next]_vars PROVE PromiseNext
  OBVIOUS
<1>1. NoOverflow
  BY IdsFitWords
<1>2. \/ \E c \in Callers : CallStep(c)
      \/ \E v \in Workers : StartHandler(v) \/ FinishHandler(v)
      \/ StopWorker \/ Destroy
      \/ UNCHANGED <<call, queue, loading, serviceMap, issued, option, stopped>>
  BY DEF Next, MainStep, Launch, Launched, Wake, Shutdown, JoinWorker, WaitAgain,
         HandlerStep, LeaveLoop, vars, workerVars, askVars
<1> QED
  BY <1>1, <1>2, AskIsAsk, PostIsAccept, RefuseIsRefuse, StartIsLoad, FinishIsComplete,
     StopIsClose, DestroyIsEnd, OthersStutter DEF CallStep

LEMMA PromiseInit == Init => Promise!Init
<1> SUFFICES ASSUME Init PROVE Promise!Init
  OBVIOUS
<1>1. \A r \in Requests : r > issued
  BY ConstantsOK DEF Init, Requests
<1>2. \A r \in Requests : StageOf(r) = "unborn" /\ HomeOf(r) = 0
  BY <1>1, RefInit, StageLaws DEF RefInv, StageRead
<1>3. /\ [r \in Requests |-> StageOf(r)] = [r \in Requests |-> "unborn"]
      /\ [r \in Requests |-> HomeOf(r)] = [r \in Requests |-> 0]
  BY <1>2
<1>4. [w \in Workers |-> ~stopped[w]] = [w \in Workers |-> TRUE]
  BY DEF Init
<1> QED
  BY <1>3, <1>4 DEF Promise!Init, Init

(* Whatever the number of threads and requests, as long as ids and words    *)
(* are wide enough for the requests made, the server keeps the promise of   *)
(* ServicePromise: each newService is taken up by one worker, loaded there  *)
(* once at most and never after the worker was stopped, and stays until the *)
(* server ends.                                                             *)
THEOREM PromiseIsKept == IdsFit => (Spec => PromiseSafe)
<1> SUFFICES ASSUME IdsFit PROVE Spec => PromiseSafe
  OBVIOUS
<1>1. Init => RefInv
  BY RefInit
<1>2. RefInv /\ [Next]_vars => RefInv'
  BY RefNext
<1>3. RefInv /\ RefInv' /\ [Next]_vars => [Promise!Next]_(Promise!vars)
  BY StepIsPromised DEF PromiseNext
<1>4. Init => Promise!Init
  BY PromiseInit
<1> QED
  BY <1>1, <1>2, <1>3, <1>4, PTL DEF Spec, PromiseSafe, Promise!Safe

=============================================================================
