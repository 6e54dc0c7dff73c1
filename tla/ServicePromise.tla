--------------------------- MODULE ServicePromise ---------------------------
(***************************************************************************)
(* What the server promises to whoever calls newService, without threads,  *)
(* counters, queues or ids: a request that has been taken is given to one  *)
(* worker, the worker asked for if there is one, is loaded there at most   *)
(* once, while that worker is open and has no other service to load;        *)
(* while the server serves it becomes live.                                *)
(***************************************************************************)
EXTENDS Integers

CONSTANTS Workers, Requests, AskedIds

VARIABLES
  stage,   \* of each request
  wish,    \* the worker each request asks for; any other value: no wish
  home,    \* the worker each request was given to, 0 before and after
  open     \* the worker takes requests up

vars == <<stage, wish, home, open>>

Stages == {"unborn", "asked", "queued", "loading", "live", "lost"}

TypeOK ==
  /\ stage \in [Requests -> Stages]
  /\ wish \in [Requests -> AskedIds \cup {0}]
  /\ home \in [Requests -> Workers \cup {0}]
  /\ open \in [Workers -> BOOLEAN]

Init ==
  /\ stage = [r \in Requests |-> "unborn"]
  /\ wish = [r \in Requests |-> 0]
  /\ home = [r \in Requests |-> 0]
  /\ open = [w \in Workers |-> TRUE]

Moves(r, from, to) ==
  /\ stage[r] = from
  /\ stage' = [stage EXCEPT ![r] = to]

Ask(r) ==
  /\ Moves(r, "unborn", "asked")
  /\ \E id \in AskedIds \cup {0} : wish' = [wish EXCEPT ![r] = id]
  /\ UNCHANGED <<home, open>>

Accept(r, w) ==
  /\ wish[r] \in Workers => w = wish[r]
  /\ Moves(r, "asked", "queued")
  /\ home' = [home EXCEPT ![r] = w]
  /\ UNCHANGED <<wish, open>>

(* Only a server without workers turns a request down. *)
Refuse(r) ==
  /\ Workers = {}
  /\ Moves(r, "asked", "lost")
  /\ UNCHANGED <<wish, home, open>>

Load(r) ==
  /\ Moves(r, "queued", "loading")
  /\ open[home[r]]
  /\ \A q \in Requests : stage[q] = "loading" => home[q] # home[r]
  /\ UNCHANGED <<wish, home, open>>

Complete(r) ==
  /\ Moves(r, "loading", "live")
  /\ UNCHANGED <<wish, home, open>>

Close(w) ==
  /\ open[w]
  /\ open' = [open EXCEPT ![w] = FALSE]
  /\ UNCHANGED <<stage, wish, home>>

(* The end of the server: nobody is asking and no script is running. *)
End ==
  /\ \A w \in Workers : ~open[w]
  /\ \A r \in Requests : stage[r] \notin {"asked", "loading"}
  /\ stage' = [r \in Requests |->
                 IF stage[r] = "unborn" THEN "unborn" ELSE "lost"]
  /\ home' = [r \in Requests |-> 0]
  /\ UNCHANGED <<wish, open>>

Next ==
  \/ \E r \in Requests :
       \/ Ask(r) \/ Refuse(r) \/ Load(r) \/ Complete(r)
       \/ \E w \in Workers : Accept(r, w)
  \/ \E w \in Workers : Close(w)
  \/ End

(* The promise without its liveness. *)
Safe == Init /\ [][Next]_vars

(* Nobody who asked waits for ever, and nobody is turned down, until the     *)
(* server begins to close.                                                  *)
Serving == Workers # {} /\ \A w \in Workers : open[w]
Settled == \A r \in Requests : stage[r] = "asked" ~> (stage[r] = "live" \/ ~Serving)

Spec == Safe /\ Settled

=============================================================================
