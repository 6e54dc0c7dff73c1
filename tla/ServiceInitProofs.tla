------------------------- MODULE ServiceInitProofs -------------------------
(* The creation of one service, for any scripts, directories and arguments  *)
(* and any number of callbacks and requests.                                *)
EXTENDS ServiceInit, SequenceTheorems, TLAPS

(* The stack, the status and the script's fate at each statement of init.   *)
StackAt ==
  /\ pc \in {"made", "init"} => stack = <<>>
  /\ pc \in {"env", "load", "script"} => stack = <<"traceback">>
  /\ pc = "check" =>
       \/ stack = <<"traceback">> /\ status = "ok" /\ ran = "ended"
       \/ stack = <<"traceback", "error">> /\ ran # "ended"
  /\ pc \in {"made", "init", "env", "load", "script"} => ran = "no"
  /\ pc \in {"made", "init", "env", "load", "script", "check"} => verdict = "none"

(* The service points to the context the registry keeps, and that one is    *)
(* allocated.                                                               *)
CallbackKept ==
  /\ callback = registry
  /\ registry # NoContext => registry \in contexts

InitInv == TypeOK /\ StackAt /\ CallbackKept /\ VerdictExact /\ InitLeaves

(* A worker id that is passed on is in its word. *)
LEMMA WorkerIdInRange ==
  ASSUME NEW a \in Arguments, UInt32Ok(a.workerid)
  PROVE  UInt32Of(a.workerid) \in 0..UINT32_MAX
<1>1. CASE a.workerid.t = "nil"
  BY <1>1, WordOK DEF UInt32Of
<1>2. CASE a.workerid.t \in {"integer", "numeral"}
  <2>1. PICK n \in Int : n = a.workerid.n
    BY <1>2, ArgumentsOK
  <2>2. n % (UINT32_MAX + 1) \in 0..UINT32_MAX
    BY WordOK
  <2> QED
    BY <1>2, <2>1, <2>2 DEF UInt32Of, Cast
<1> QED
  BY <1>1, <1>2 DEF UInt32Ok

(* Steps outside of the callback's bookkeeping. *)
LEMMA CallbackRests == InitInv /\ UNCHANGED <<contexts, made, registry, callback>> => CallbackKept'
  BY DEF InitInv, CallbackKept

OnStack == {"traceback", "error"}

(* The stacks that occur. *)
LEMMA Stacks ==
  /\ <<>> \in Seq(OnStack) /\ <<"traceback">> \in Seq(OnStack)
  /\ <<"traceback", "error">> \in Seq(OnStack)
  /\ Len(<<"traceback">>) = 1 /\ Len(<<"traceback", "error">>) = 2
  BY DEF OnStack

LEMMA ErrorReturned ==
  ASSUME stack = <<"traceback">>, NEW how, ReturnError(how)
  PROVE  stack' = <<"traceback", "error">>
<1>1. <<"traceback">> \in Seq(OnStack) /\ Len(<<"traceback">>) = 1 /\ <<"traceback">>[1] = "traceback"
  BY DEF OnStack
<1>2. stack' = Append(<<"traceback">>, "error")
  BY DEF ReturnError
<1>3. stack' \in Seq(OnStack) /\ Len(stack') = 2 /\ stack'[1] = "traceback" /\ stack'[2] = "error"
  BY <1>1, <1>2 DEF OnStack
<1> QED
  BY <1>3

(* What init takes off the stack is the message handler. *)
LEMMA HandlerPopped ==
  ASSUME stack = <<"traceback">>
  PROVE  Len(stack) = 1 /\ SubSeq(stack, 1, Len(stack) - 1) = <<>>
<1>1. Len(stack) = 1
  OBVIOUS
<1>2. SubSeq(stack, 1, 0) = <<>>
  BY SubSeqEmpty
<1>3. Len(stack) - 1 = 0
  BY <1>1
<1> QED
  BY <1>1, <1>2, <1>3

LEMMA InitInit == Init => InitInv
  BY BoundsOK DEF Init, InitInv, TypeOK, StackAt, CallbackKept, VerdictExact, InitLeaves,
     NoContext

(* A step that ends in a stack with given types. *)
LEMMA TypesStay ==
  ASSUME TypeOK, UNCHANGED <<luaFile, luaVars>>, stack' \in Seq(OnStack),
         pc' \in {"init", "env", "load", "script", "check", "emplace"},
         status' \in {"none", "ok", "error"}, gc' \in {"running", "stopped"},
         verdict' \in {"none", "true", "false"}, ran' \in {"no", "ended", "failed"}
  PROVE  TypeOK'
  BY DEF TypeOK, OnStack, luaVars

(* An error that lua_pcall returns. *)
LEMMA ErrorKeeps ==
  ASSUME InitInv, pc \in {"env", "load", "script"}, NEW how \in {"ok", "error"},
         ReturnError(how), UNCHANGED <<luaFile, gc, luaVars, verdict>>,
         ran' \in {ran, "failed"}
  PROVE  InitInv'
<1>1. /\ stack = <<"traceback">> /\ ran = "no" /\ verdict = "none" /\ TypeOK
      /\ pc' = "check" /\ status' = how
  BY DEF InitInv, StackAt, ReturnError
<1>2. stack' = <<"traceback", "error">>
  BY <1>1, ErrorReturned
<1>3. stack' \in Seq(OnStack)
  BY <1>2, Stacks
<1>4. TypeOK'
  BY <1>1, <1>3, TypesStay DEF TypeOK
<1>5. CallbackKept'
  BY CallbackRests DEF luaVars
<1>6. StackAt' /\ VerdictExact' /\ InitLeaves'
  BY <1>1, <1>2 DEF StackAt, VerdictExact, InitLeaves
<1> QED
  BY <1>4, <1>5, <1>6 DEF InitInv

(* Before the script runs. *)
LEMMA BeforeKeeps == InitInv /\ (SetContext \/ BeginInit \/ RunEnvPath \/ LoadFile) => InitInv'
<1> SUFFICES ASSUME InitInv, SetContext \/ BeginInit \/ RunEnvPath \/ LoadFile
             PROVE  InitInv'
  OBVIOUS
<1>1. CallbackKept' /\ TypeOK
  BY CallbackRests DEF SetContext, BeginInit, RunEnvPath, LoadFile, luaVars, InitInv
<1>2. CASE SetContext
  <2>1. TypeOK'
    BY <1>1, <1>2 DEF SetContext, TypeOK, luaVars
  <2>2. StackAt' /\ VerdictExact' /\ InitLeaves'
    BY <1>2 DEF SetContext, InitInv, StackAt, VerdictExact, InitLeaves
  <2> QED
    BY <1>1, <2>1, <2>2 DEF InitInv
<1>3. CASE BeginInit
  <2>1. TypeOK'
    BY <1>1, <1>3, Stacks, TypesStay DEF BeginInit, TypeOK
  <2>2. StackAt' /\ VerdictExact' /\ InitLeaves'
    BY <1>3 DEF BeginInit, InitInv, StackAt, VerdictExact, InitLeaves
  <2> QED
    BY <1>1, <2>1, <2>2 DEF InitInv
<1>4. CASE RunEnvPath
  <2>1. CASE ReturnError("ok")
    BY <1>4, <2>1, ErrorKeeps DEF RunEnvPath
  <2>2. CASE pc' = "load" /\ UNCHANGED <<stack, status>>
    <3>1. TypeOK'
      BY <1>1, <1>4, <2>2 DEF RunEnvPath, TypeOK, luaVars
    <3>2. StackAt' /\ VerdictExact' /\ InitLeaves'
      BY <1>4, <2>2 DEF RunEnvPath, InitInv, StackAt, VerdictExact, InitLeaves
    <3> QED
      BY <1>1, <3>1, <3>2 DEF InitInv
  <2> QED
    BY <1>4, <2>1, <2>2 DEF RunEnvPath
<1>5. CASE LoadFile
  <2>1. CASE ReturnError("ok")
    BY <1>5, <2>1, ErrorKeeps DEF LoadFile
  <2>2. CASE pc' = "script" /\ UNCHANGED <<stack, status>>
    <3>1. TypeOK'
      BY <1>1, <1>5, <2>2 DEF LoadFile, TypeOK, luaVars
    <3>2. StackAt' /\ VerdictExact' /\ InitLeaves'
      BY <1>5, <2>2 DEF LoadFile, InitInv, StackAt, VerdictExact, InitLeaves
    <3> QED
      BY <1>1, <3>1, <3>2 DEF InitInv
  <2> QED
    BY <1>5, <2>1, <2>2 DEF LoadFile
<1> QED
  BY <1>2, <1>3, <1>4, <1>5

(* The end of the script. *)
LEMMA EndKeeps == InitInv /\ (EndScript \/ FailScript) => InitInv'
<1> SUFFICES ASSUME InitInv, EndScript \/ FailScript PROVE InitInv'
  OBVIOUS
<1>1. CallbackKept' /\ TypeOK
  BY CallbackRests DEF EndScript, FailScript, luaVars, InitInv
<1>2. CASE EndScript
  <2>1. TypeOK'
    BY <1>1, <1>2 DEF EndScript, TypeOK, luaVars
  <2>2. StackAt' /\ VerdictExact' /\ InitLeaves'
    BY <1>2 DEF EndScript, InitInv, StackAt, VerdictExact, InitLeaves
  <2> QED
    BY <1>1, <2>1, <2>2 DEF InitInv
<1>3. CASE FailScript
  BY <1>3, ErrorKeeps DEF FailScript
<1> QED
  BY <1>2, <1>3

(* What the script calls. *)
LEMMA ScriptKeeps ==
  InitInv /\ (SetCallback \/ NewService \/ CollectGarbage \/ SwitchCollector) => InitInv'
<1> SUFFICES ASSUME InitInv, SetCallback \/ NewService \/ CollectGarbage \/ SwitchCollector
             PROVE  InitInv'
  OBVIOUS
<1>1. pc = "script" /\ UNCHANGED <<pc, luaFile, stack, status, verdict, ran>>
  BY DEF SetCallback, NewService, CollectGarbage, SwitchCollector
<1>2. StackAt' /\ VerdictExact' /\ InitLeaves'
  BY <1>1 DEF InitInv, StackAt, VerdictExact, InitLeaves
<1>3. CASE SetCallback
  <2>1. made \in 0..MaxContexts /\ made < MaxContexts /\ MaxContexts \in Nat
    BY <1>3, BoundsOK DEF SetCallback, InitInv, TypeOK
  <2>2. made + 1 \in Contexts /\ made + 1 \in 0..MaxContexts /\ made + 1 # NoContext
    BY <2>1 DEF Contexts, NoContext
  <2>3. CallbackKept'
    BY <1>3 DEF SetCallback, CallbackKept
  <2>4. TypeOK'
    BY <1>1, <1>3, <2>2 DEF SetCallback, InitInv, TypeOK
  <2> QED
    BY <1>2, <2>3, <2>4 DEF InitInv
<1>4. CASE NewService
  <2>1. PICK a \in Arguments :
          /\ UInt32Ok(a.workerid)
          /\ asked' = Append(asked, [given |-> a.workerid, workerID |-> UInt32Of(a.workerid),
                                     luaFile |-> IF a.luafile.t = "nil" THEN "" ELSE "name"])
    BY <1>4 DEF NewService
  <2>2. UInt32Of(a.workerid) \in 0..UINT32_MAX
    BY <2>1, WorkerIdInRange
  <2>3. PICK field \in {x.workerid : x \in Arguments}, id \in 0..UINT32_MAX, file \in {"", "name"} :
          asked' = Append(asked, [given |-> field, workerID |-> id, luaFile |-> file])
    BY <2>1, <2>2
  <2>4. asked' \in Seq(AskedOptions)
    <3>1. [given |-> field, workerID |-> id, luaFile |-> file] \in AskedOptions
      BY <2>3 DEF AskedOptions
    <3>2. asked \in Seq(AskedOptions)
      BY DEF InitInv, TypeOK
    <3> QED
      BY <2>3, <3>1, <3>2, AppendProperties
  <2>5. TypeOK'
    BY <1>1, <1>4, <2>4 DEF NewService, InitInv, TypeOK
  <2>6. CallbackKept'
    BY <1>4 DEF NewService, InitInv, CallbackKept
  <2> QED
    BY <1>2, <2>5, <2>6 DEF InitInv
<1>5. CASE CollectGarbage
  <2>1. TypeOK' /\ CallbackKept'
    BY <1>1, <1>5 DEF CollectGarbage, InitInv, TypeOK, CallbackKept
  <2> QED
    BY <1>2, <2>1 DEF InitInv
<1>6. CASE SwitchCollector
  <2>1. TypeOK' /\ CallbackKept'
    BY <1>1, <1>6 DEF SwitchCollector, InitInv, TypeOK, CallbackKept, luaVars
  <2> QED
    BY <1>2, <2>1 DEF InitInv
<1> QED
  BY <1>3, <1>4, <1>5, <1>6

(* The end of init, where it tells how the script went. *)
LEMMA CheckKeeps == InitInv /\ CheckResult => InitInv'
<1> SUFFICES ASSUME InitInv, CheckResult PROVE InitInv'
  OBVIOUS
<1>1. /\ CallbackKept' /\ TypeOK
      /\ pc = "check" /\ pc' = "emplace" /\ UNCHANGED <<luaFile, status, luaVars, ran>>
  BY CallbackRests DEF CheckResult, luaVars, InitInv
<1>2. CASE stack = <<"traceback">> /\ status = "ok" /\ ran = "ended"
  <2>1. Len(stack) = 1 /\ SubSeq(stack, 1, Len(stack) - 1) = <<>>
    BY <1>2, HandlerPopped
  <2>2. verdict' = "true" /\ stack' = <<>> /\ gc' = "running"
    BY <1>2, <2>1 DEF CheckResult
  <2>3. TypeOK'
    BY <1>1, <2>2, Stacks, TypesStay DEF TypeOK
  <2>4. StackAt' /\ VerdictExact' /\ InitLeaves'
    BY <1>1, <1>2, <2>2 DEF StackAt, VerdictExact, InitLeaves
  <2> QED
    BY <1>1, <2>3, <2>4 DEF InitInv
<1>3. CASE stack = <<"traceback", "error">> /\ ran # "ended"
  <2>1. Len(stack) > 1
    BY <1>3
  <2>2. verdict' = "false" /\ UNCHANGED <<stack, gc>>
    BY <2>1 DEF CheckResult
  <2>3. TypeOK'
    BY <1>1, <1>3, <2>2, Stacks, TypesStay DEF TypeOK
  <2>4. StackAt' /\ VerdictExact' /\ InitLeaves'
    BY <1>1, <1>3, <2>2 DEF StackAt, VerdictExact, InitLeaves
  <2> QED
    BY <1>1, <2>3, <2>4 DEF InitInv
<1> QED
  BY <1>1, <1>2, <1>3 DEF InitInv, StackAt

(* After init. *)
LEMMA AfterKeeps == InitInv /\ (Emplace \/ Destroy) => InitInv'
<1> SUFFICES ASSUME InitInv, Emplace \/ Destroy PROVE InitInv'
  OBVIOUS
<1> USE DEF InitInv, TypeOK, StackAt, VerdictExact, InitLeaves
<1>1. CASE Free
  BY <1>1 DEF Free, CallbackKept
<1>2. CASE pc' = "mapped" /\ UNCHANGED <<luaFile, stack, status, gc, luaVars, verdict, ran>>
  <2>1. CallbackKept'
    BY <1>2, CallbackRests DEF luaVars
  <2> QED
    BY <1>2, <2>1 DEF luaVars
<1> QED
  BY <1>1, <1>2 DEF Emplace, Destroy

LEMMA InitNext == InitInv /\ [Next]_vars => InitInv'
<1>1. InitInv /\ UNCHANGED vars => InitInv'
  BY DEF vars, luaVars, InitInv, TypeOK, StackAt, CallbackKept, VerdictExact, InitLeaves
<1> QED
  BY <1>1, BeforeKeeps, EndKeeps, ScriptKeeps, CheckKeeps, AfterKeeps DEF Next

-----------------------------------------------------------------------------

(* The service's pointer to its callback context never dangles, whatever    *)
(* callbacks the script sets and whenever the collector runs.               *)
THEOREM CallbackIsAlive == Spec => []CallbackAlive
<1>1. InitInv => CallbackAlive
  BY DEF InitInv, CallbackKept, CallbackAlive
<1> QED
  BY <1>1, InitInit, InitNext, PTL DEF Spec

(* init returns true exactly when the script ran to its end. *)
THEOREM VerdictIsExact == Spec => []VerdictExact
<1>1. InitInv => VerdictExact
  BY DEF InitInv
<1> QED
  BY <1>1, InitInit, InitNext, PTL DEF Spec

(* The assertion at the end of init (service.cpp:92) never fails, and a     *)
(* failed service keeps handler and message on its stack.                   *)
THEOREM InitLeavesStack == Spec => []InitLeaves
<1>1. InitInv => InitLeaves
  BY DEF InitInv
<1> QED
  BY <1>1, InitInit, InitNext, PTL DEF Spec

(* The state of the handler keeps its types; worker ids asked for are in    *)
(* their word.                                                              *)
THEOREM ServiceTypeCorrect == Spec => []TypeOK
<1>1. InitInv => TypeOK
  BY DEF InitInv
<1> QED
  BY <1>1, InitInit, InitNext, PTL DEF Spec

-----------------------------------------------------------------------------
(* The check in getLuaValue lets only values through that the cast keeps.    *)
LEMMA CastKeepsMeaning ==
  ASSUME NEW v, UInt32Ok(v)
  PROVE  Meant(v, UInt32Of(v))
  BY DEF UInt32Ok, UInt32Of, Fits, Meant

(* The requests after another one. *)
LEMMA AskedAfter ==
  ASSUME NEW S, asked \in Seq(S), NEW x \in S, asked' = Append(asked, x)
  PROVE  \A i \in DOMAIN asked' :
           asked'[i] = x \/ (i \in DOMAIN asked /\ asked'[i] = asked[i])
  BY AppendProperties, LenProperties

LEMMA AskedMeant == InitInv /\ WorkerIdExact /\ [Next]_vars => WorkerIdExact'
<1> SUFFICES ASSUME InitInv, WorkerIdExact, [Next]_vars PROVE WorkerIdExact'
  OBVIOUS
<1>1. CASE UNCHANGED asked
  BY <1>1 DEF WorkerIdExact
<1>2. CASE NewService
  <2>1. PICK a \in Arguments :
          /\ UInt32Ok(a.workerid)
          /\ asked' = Append(asked, [given |-> a.workerid,
                                     workerID |-> UInt32Of(a.workerid),
                                     luaFile |-> IF a.luafile.t = "nil" THEN "" ELSE "name"])
    BY <1>2 DEF NewService
  <2>2. UInt32Of(a.workerid) \in 0..UINT32_MAX /\ Meant(a.workerid, UInt32Of(a.workerid))
    BY <2>1, WorkerIdInRange, CastKeepsMeaning
  <2>3. PICK id \in 0..UINT32_MAX, file \in {"", "name"} :
          /\ Meant(a.workerid, id)
          /\ asked' = Append(asked, [given |-> a.workerid, workerID |-> id, luaFile |-> file])
    BY <2>1, <2>2
  <2>4. PICK option \in AskedOptions :
          /\ option.workerID = id /\ option.given = a.workerid
          /\ asked' = Append(asked, option)
    BY <2>3 DEF AskedOptions
  <2>5. asked \in Seq(AskedOptions)
    BY DEF InitInv, TypeOK
  <2>6. \A i \in DOMAIN asked' :
          asked'[i] = option \/ (i \in DOMAIN asked /\ asked'[i] = asked[i])
    BY <2>4, <2>5, AskedAfter
  <2> QED
    BY <2>3, <2>4, <2>6 DEF WorkerIdExact
<1> QED
  BY <1>1, <1>2 DEF Next, vars, luaVars, SetContext, BeginInit, RunEnvPath, LoadFile,
     SetCallback, CollectGarbage, SwitchCollector, EndScript, FailScript, CheckResult,
     Emplace, Destroy, Free

(* For every word size: a script gets the worker it wrote or an error, never *)
(* the worker that a truncated id happens to name.                          *)
THEOREM WorkerIdsAreExact == Spec => []WorkerIdExact
<1>1. Init => WorkerIdExact
  BY DEF Init, WorkerIdExact
<1> QED
  BY <1>1, InitInit, InitNext, AskedMeant, PTL DEF Spec

=============================================================================
