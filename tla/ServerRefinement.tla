-------------------------- MODULE ServerRefinement --------------------------
(* The server implements ServicePromise: where a request is in the calls,   *)
(* queues and maps of ServerWorkers is the stage it has reached.            *)
EXTENDS ServerWorkers

Asking(r)   == \E c \in Callers : call[c].pc # "idle" /\ call[c].req = r
QueuedAt(r, w) == \E i \in DOMAIN queue[w] : queue[w][i] = r
LiveAt(r, w)   == \E e \in serviceMap[w] : e.req = r

StageOf(r) ==
  CASE r > issued -> "unborn"
    [] r <= issued /\ Asking(r) -> "asked"
    [] \E w \in Workers : QueuedAt(r, w) -> "queued"
    [] \E w \in Workers : loading[w] = r -> "loading"
    [] \E w \in Workers : LiveAt(r, w) -> "live"
    [] OTHER -> "lost"

Holders(r) == {w \in Workers : QueuedAt(r, w) \/ loading[w] = r \/ LiveAt(r, w)}

HomeOf(r) == IF Holders(r) = {} THEN 0 ELSE CHOOSE w \in Holders(r) : TRUE

Promise == INSTANCE ServicePromise WITH
  stage <- [r \in Requests |-> StageOf(r)],
  wish  <- option,
  home  <- [r \in Requests |-> HomeOf(r)],
  open  <- [w \in Workers |-> ~stopped[w]]

(* Every request to newService is taken up by one worker, the one asked for *)
(* if it exists, loaded once at most and never on a stopped worker, and is  *)
(* then live; only the end of the server, or a server without workers,      *)
(* drops it.                                                                *)
PromiseSafe == Promise!Safe

(* Whoever asked newService for a service gets it: as long as main has not   *)
(* begun to stop the workers, every call comes out of nextMinWorker with a  *)
(* worker, its handler is run there, and the service reaches the map.  No   *)
(* fairness of the shutdown is assumed, so it may stay away for ever.       *)
PromiseSettled == Promise!Settled

=============================================================================
