---------------------------- MODULE ServiceInit ----------------------------
(***************************************************************************)
(* The handler of Worker::newService in detail, for one service: its       *)
(* LuaService is made, given its context, initialised by a protected call  *)
(* of loadLuaFile, and put into the map whatever init returns.  While the  *)
(* script runs it may set the message callback, ask for services, collect  *)
(* garbage and switch the collector.                                       *)
(*                                                                         *)
(* A callback context is the userdata that setCallback allocates; it lives *)
(* until the collector finds that the registry does not refer to it, but   *)
(* LuaService keeps a plain pointer to it.                                 *)
(***************************************************************************)
EXTENDS LuaFields, Sequences, FiniteSets

CONSTANTS
  Names,        \* names of script files
  Dirs,         \* Server::luaDirs
  Present,      \* pairs <<dir, name>> of the files that exist
  Arguments,    \* the option tables scripts pass to core.new_service
  MaxContexts,  \* bound: successful calls of core.callback
  MaxAsked      \* bound: successful calls of core.new_service

ASSUME BoundsOK == MaxContexts \in Nat /\ MaxAsked \in Nat

(* The integers of Lua are integers. *)
ASSUME ArgumentsOK ==
  \A a \in Arguments : a.workerid.t \in {"integer", "numeral"} => a.workerid.n \in Int

VARIABLES
  pc,        \* the statement the handler has reached
  luaFile,   \* ServiceOption::luaFile
  stack,     \* the stack of the service's main thread
  status,    \* what lua_pcall returned
  gc,        \* the collector: running, stopped
  contexts,  \* callback contexts that are allocated
  made,      \* callback contexts made so far
  registry,  \* registry["callback_context"], 0 if nil
  callback,  \* LuaService::callback, 0 if null
  asked,     \* the options passed on to Server::newService; history: `given`,
             \* the field workerid of that call's argument
  verdict,   \* what init returned: none, true, false
  ran        \* history: how the script went: no, ended, failed

luaVars == <<contexts, made, registry, callback, asked>>
vars == <<pc, luaFile, stack, status, gc, luaVars, verdict, ran>>

NoContext == 0
Contexts == 1..MaxContexts

AskedOptions ==
  [given : {a.workerid : a \in Arguments}, workerID : 0..UINT32_MAX, luaFile : {"", "name"}]

TypeOK ==
  /\ pc \in {"made", "init", "env", "load", "script", "check", "emplace", "mapped", "gone"}
  /\ luaFile \in Names
  /\ stack \in Seq({"traceback", "error"})
  /\ status \in {"none", "ok", "error"}
  /\ gc \in {"running", "stopped"}
  /\ contexts \subseteq Contexts /\ made \in 0..MaxContexts
  /\ registry \in Contexts \cup {NoContext}
  /\ callback \in Contexts \cup {NoContext}
  /\ asked \in Seq(AskedOptions)
  /\ verdict \in {"none", "true", "false"}
  /\ ran \in {"no", "ended", "failed"}

(* make_unique<LuaService>: a new lua_State, whose extra space points back  *)
(* to the service.                                                          *)
Init ==
  /\ pc = "made" /\ luaFile \in Names
  /\ stack = <<>> /\ status = "none" /\ gc = "running"
  /\ contexts = {} /\ made = 0 /\ registry = NoContext /\ callback = NoContext
  /\ asked = <<>> /\ verdict = "none" /\ ran = "no"

(* The service gets its pointer to the server, before any script runs.      *)
SetContext ==
  /\ pc = "made" /\ pc' = "init"
  /\ UNCHANGED <<luaFile, stack, status, gc, luaVars, verdict, ran>>

(* init up to lua_pcall: the collector stops, the message handler is pushed *)
(* and stays under the call; loadLuaFile opens the libraries.               *)
BeginInit ==
  /\ pc = "init" /\ pc' = "env"
  /\ gc' = "stopped"
  /\ stack' = <<"traceback">>
  /\ UNCHANGED <<luaFile, status, luaVars, verdict, ran>>

-----------------------------------------------------------------------------
(* loadLuaFile, under lua_pcall with LUA_MULTRET.                           *)

(* lua_pcall returns with one value: the error message, be it what          *)
(* loadLuaFile returned or what traceback made of a raised error.           *)
ReturnError(how) ==
  /\ pc' = "check" /\ status' = how
  /\ stack' = Append(stack, "error")

(* luaL_dostring(envPath) *)
RunEnvPath ==
  /\ pc = "env"
  /\ \/ pc' = "load" /\ UNCHANGED <<stack, status>>
     \/ ReturnError("ok")
  /\ UNCHANGED <<luaFile, gc, luaVars, verdict, ran>>

(* getFileRealPath *)
RealPath(name) == \E dir \in Dirs : <<dir, name>> \in Present

(* luaL_loadfile of the path, of "" if there is none *)
LoadFile ==
  /\ pc = "load"
  /\ \/ RealPath(luaFile) /\ pc' = "script" /\ UNCHANGED <<stack, status>>
     \/ ReturnError("ok")
  /\ UNCHANGED <<luaFile, gc, luaVars, verdict, ran>>

EndScript ==
  /\ pc = "script" /\ pc' = "check"
  /\ status' = "ok" /\ ran' = "ended"
  /\ UNCHANGED <<luaFile, stack, gc, luaVars, verdict>>

(* An error that no pcall of the script catches, also one that the calls     *)
(* below raise for a bad argument.                                          *)
FailScript ==
  /\ pc = "script"
  /\ ReturnError("error") /\ ran' = "failed"
  /\ UNCHANGED <<luaFile, gc, luaVars, verdict>>

(* Variant: the userdata is not stored in the registry. *)
SetCallbackUnanchored ==
  /\ pc = "script" /\ made < MaxContexts
  /\ made' = made + 1
  /\ contexts' = contexts \cup {made + 1}
  /\ callback' = made + 1
  /\ UNCHANGED <<pc, luaFile, stack, status, gc, registry, asked, verdict, ran>>

(* core.callback(f): a new context with f on a thread of its own; the       *)
(* registry lets go of the context before it.                               *)
SetCallback ==
  /\ pc = "script" /\ made < MaxContexts
  /\ made' = made + 1
  /\ contexts' = contexts \cup {made + 1}
  /\ registry' = made + 1
  /\ callback' = made + 1
  /\ UNCHANGED <<pc, luaFile, stack, status, gc, asked, verdict, ran>>

(* core.new_service(session, option), when neither field raises an error.   *)
NewService ==
  /\ pc = "script" /\ Len(asked) < MaxAsked
  /\ \E a \in Arguments :
       /\ UInt32Ok(a.workerid) /\ StringOk(a.luafile)
       /\ asked' = Append(asked,
                     [given |-> a.workerid,
                      workerID |-> UInt32Of(a.workerid),
                      luaFile |-> IF a.luafile.t = "nil" THEN "" ELSE "name"])
  /\ UNCHANGED <<pc, luaFile, stack, status, gc, contexts, made, registry,
                 callback, verdict, ran>>

(* collectgarbage of the script, or the collector by itself *)
CollectGarbage ==
  /\ pc = "script" /\ contexts # {}
  /\ contexts' = contexts \cap {registry}
  /\ UNCHANGED <<pc, luaFile, stack, status, gc, made, registry, callback,
                 asked, verdict, ran>>

(* collectgarbage("stop") and collectgarbage("restart") *)
SwitchCollector ==
  /\ pc = "script"
  /\ gc' \in {"running", "stopped"}
  /\ UNCHANGED <<pc, luaFile, stack, status, luaVars, verdict, ran>>

-----------------------------------------------------------------------------
(* Variant: only the status of lua_pcall is looked at. *)
CheckStatusOnly ==
  /\ pc = "check" /\ pc' = "emplace"
  /\ IF status # "ok"
       THEN verdict' = "false" /\ UNCHANGED <<stack, gc>>
       ELSE /\ verdict' = "true"
            /\ stack' = SubSeq(stack, 1, Len(stack) - 1)
            /\ gc' = "running"
  /\ UNCHANGED <<luaFile, status, luaVars, ran>>

(* Variant: the message handler stays on the stack. *)
CheckResultKeepsHandler ==
  /\ pc = "check" /\ pc' = "emplace"
  /\ IF status # "ok" \/ Len(stack) > 1
       THEN verdict' = "false" /\ UNCHANGED gc
       ELSE verdict' = "true" /\ gc' = "running"
  /\ UNCHANGED <<luaFile, stack, status, luaVars, ran>>

(* The end of init, after lua_pcall.  On failure the collector stays as it   *)
(* is and the values stay on the stack.                                     *)
CheckResult ==
  /\ pc = "check" /\ pc' = "emplace"
  /\ IF status # "ok" \/ Len(stack) > 1
       THEN verdict' = "false" /\ UNCHANGED <<stack, gc>>
       ELSE /\ verdict' = "true"
            /\ stack' = SubSeq(stack, 1, Len(stack) - 1)
            /\ gc' = "running"
  /\ UNCHANGED <<luaFile, status, luaVars, ran>>

(* ~LuaService: lua_close frees everything the state has allocated. *)
Free ==
  /\ pc' = "gone"
  /\ contexts' = {} /\ registry' = NoContext /\ callback' = NoContext
  /\ UNCHANGED <<luaFile, stack, status, gc, made, asked, verdict, ran>>

(* serviceMap.emplace, which frees the service if its id is in the map.     *)
Emplace ==
  /\ pc = "emplace"
  /\ \/ /\ pc' = "mapped"
        /\ UNCHANGED <<luaFile, stack, status, gc, luaVars, verdict, ran>>
     \/ Free

(* The worker, and with it its map, is destroyed. *)
Destroy == pc = "mapped" /\ Free

Next ==
  \/ SetContext \/ BeginInit \/ RunEnvPath \/ LoadFile
  \/ SetCallback \/ NewService \/ CollectGarbage \/ SwitchCollector
  \/ EndScript \/ FailScript
  \/ CheckResult \/ Emplace \/ Destroy

Spec == Init /\ [][Next]_vars

-----------------------------------------------------------------------------
(* Properties. *)

(* The service's pointer to its callback context is never dangling, however *)
(* often scripts set callbacks and collect garbage in between: the context  *)
(* it points to is the one the registry keeps.                              *)
CallbackAlive == callback # NoContext => callback \in contexts

(* init says true exactly for a service whose script ran to its end.  A bad *)
(* package.path or file makes lua_pcall succeed with one value, so it takes *)
(* both halves of init's check to tell.                                     *)
VerdictExact ==
  verdict # "none" => (verdict = "true" <=> ran = "ended")

(* The assertion at the end of init, service.cpp:92: a service that was      *)
(* initialised has nothing on its stack, and its collector runs, whatever   *)
(* the script has done to it; a failed one keeps the message handler and    *)
(* the error message.                                                       *)
InitLeaves ==
  /\ verdict = "true" => stack = <<>> /\ gc = "running"
  /\ verdict = "false" => stack = <<"traceback", "error">>

(* The worker id that a script means by a field. *)
Meant(v, id) ==
  \/ v.t = "nil" /\ id = 0
  \/ v.t \in {"integer", "numeral"} /\ id = v.n

(* A worker id reaches Server::newService only as the script wrote it in the *)
(* same call: none that the cast to uint32_t would change gets past the     *)
(* check, and so none becomes the id of another worker.  0, no wish, is     *)
(* what a missing field means.                                              *)
WorkerIdExact ==
  \A i \in DOMAIN asked : Meant(asked[i].given, asked[i].workerID)

=============================================================================
