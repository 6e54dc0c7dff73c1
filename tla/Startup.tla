------------------------------ MODULE Startup ------------------------------
(***************************************************************************)
(* main() up to Server::run: it runs the configuration script, reads the   *)
(* fields threads and path_table from the table the script returns, builds *)
(* the server and asks for the first service.  The fields are read with    *)
(* lua_utility.h on the stack of an unprotected lua_State, where an error   *)
(* ends the program.                                                       *)
(***************************************************************************)
EXTENDS LuaFields, Sequences, FiniteSets

CONSTANT Configs   \* what the configuration script may return

(* A table of the script has the two fields, be they absent; its integers   *)
(* are integers and its directories are finitely many.                      *)
ASSUME ConfigsOK ==
  \A c \in Configs : c.t = "table" =>
    /\ c.threads.t \in {"integer", "numeral"} => c.threads.n \in Int
    /\ c.path_table.t = "table" =>
         /\ DOMAIN c.path_table.items \subseteq Nat
         /\ IsFiniteSet(DOMAIN c.path_table.items)

VARIABLES
  pc,       \* the statement main has reached
  config,   \* the value the script returned
  stack,    \* what is on the Lua stack, by kind
  unread,   \* indices of path_table that lua_next has not yet met
  threads,  \* main's variable
  strVec,   \* the LuaVector being filled, then pathTable of main
  workers,  \* workers of the server, -1 before it is built
  envPath,  \* Server::envPath: the directories package.path names
  luaDirs,  \* Server::luaDirs
  posted    \* the first service has been asked for

vars == <<pc, config, stack, unread, threads, strVec, workers, envPath, luaDirs,
          posted>>

NoServer == -1

Running == {"script", "type", "threads", "number", "paths", "vector", "next",
            "entry", "build", "path", "dirs", "first", "run"}

(* The entries of a table of directories that name one. *)
Strings(c) ==
  IF c.path_table.t = "table"
    THEN {i \in DOMAIN c.path_table.items : IsString(c.path_table.items[i])}
    ELSE {}

DirNames ==
  UNION {{c.path_table.items[i] : i \in Strings(c)} : c \in {d \in Configs : d.t = "table"}}

TypeOK ==
  /\ pc \in Running \cup {"exit", "abort"}
  /\ config \in Configs \cup {Absent}
  /\ stack \in Seq({"config", "field", "key", "value"})
  /\ unread \subseteq Nat
  /\ threads \in 0..UINT32_MAX
  /\ workers \in {NoServer} \cup 0..UINT32_MAX
  /\ {strVec, envPath, luaDirs} \subseteq Seq(DirNames)
  /\ posted \in BOOLEAN

Init ==
  /\ pc = "script" /\ config = Absent /\ stack = <<>>
  /\ unread = {} /\ threads = 0 /\ strVec = <<>>
  /\ workers = NoServer /\ envPath = <<>> /\ luaDirs = <<>> /\ posted = FALSE

Push(x)   == stack' = Append(stack, x)
Popped(n) == SubSeq(stack, 1, Len(stack) - n)
Pop(n)    == stack' = Popped(n)

Goto(to) == pc' = to

(* lua.script_file: a script that fails ends the program with an uncaught   *)
(* exception.                                                               *)
RunScript ==
  /\ pc = "script"
  /\ \E c \in Configs :
       IF c.t = "error" THEN Goto("abort") /\ UNCHANGED <<config, stack>>
       ELSE Goto("type") /\ config' = c /\ Push("config")
  /\ UNCHANGED <<unread, threads, strVec, workers, envPath, luaDirs, posted>>

CheckType ==
  /\ pc = "type"
  /\ IF config.t = "table" THEN Goto("threads") ELSE Goto("exit")
  /\ UNCHANGED <<config, stack, unread, threads, strVec, workers, envPath, luaDirs,
                 posted>>

(* getLuaField up to lua_rawget: the key is replaced by the field's value.  *)
OpenField(at, to) ==
  /\ pc = at
  /\ Push("field") /\ Goto(to)
  /\ UNCHANGED <<config, unread, threads, strVec, workers, envPath, luaDirs, posted>>

(* getLuaValue<uint32_t> or the default, and the pop of LuaScopePop.  An     *)
(* error of luaL_checkinteger or luaL_argcheck meets no pcall.              *)
ReadThreads ==
  /\ pc = "number"
  /\ IF UInt32Ok(config.threads)
       THEN threads' = UInt32Of(config.threads) /\ Pop(1) /\ Goto("paths")
       ELSE Goto("abort") /\ UNCHANGED <<threads, stack>>
  /\ UNCHANGED <<config, unread, strVec, workers, envPath, luaDirs, posted>>

(* getLuaValue<LuaVector> starts; for what is no table it returns an empty   *)
(* vector.                                                                  *)
StartVector ==
  /\ pc = "vector"
  /\ IF config.path_table.t = "table"
       THEN Push("key") /\ Goto("next") /\ unread' = DOMAIN config.path_table.items
       ELSE Pop(1) /\ Goto("build") /\ UNCHANGED unread
  /\ UNCHANGED <<config, threads, strVec, workers, envPath, luaDirs, posted>>

TopIs(s) == Len(stack) >= Len(s) /\ SubSeq(stack, Len(stack) - Len(s) + 1, Len(stack)) = s

(* lua_next(L, -2): it needs the table under the key, replaces the key by    *)
(* the next one and pushes its value, or pops the key at the end.           *)
NextEntry ==
  /\ pc = "next"
  /\ IF ~TopIs(<<"field", "key">>)
       THEN Goto("abort") /\ UNCHANGED <<stack, unread, strVec>>
       ELSE \/ /\ unread = {}
               /\ Pop(2) /\ Goto("build")
               /\ UNCHANGED <<unread, strVec>>
            \/ \E i \in unread :
                 /\ unread' = unread \ {i}
                 /\ strVec' = IF IsString(config.path_table.items[i])
                                THEN Append(strVec, config.path_table.items[i]) ELSE strVec
                 /\ Push("value") /\ Goto("entry")
  /\ UNCHANGED <<config, threads, workers, envPath, luaDirs, posted>>

(* Variant: the lua_pop at the end of the loop's body is only in the default *)
(* case of the switch, so the value of a string entry stays on the stack.   *)
PopEntryIfSkipped ==
  /\ pc = "entry"
  /\ IF Len(strVec) > 0 THEN UNCHANGED stack ELSE Pop(1)
  /\ Goto("next")
  /\ UNCHANGED <<config, unread, threads, strVec, workers, envPath, luaDirs, posted>>

PopEntry ==
  /\ pc = "entry"
  /\ Pop(1) /\ Goto("next")
  /\ UNCHANGED <<config, unread, threads, strVec, workers, envPath, luaDirs, posted>>

BuildServer ==
  /\ pc = "build"
  /\ workers' = threads /\ Goto("path")
  /\ UNCHANGED <<config, stack, unread, threads, strVec, envPath, luaDirs, posted>>

SetEnvPath ==
  /\ pc = "path"
  /\ envPath' = strVec /\ Goto("dirs")
  /\ UNCHANGED <<config, stack, unread, threads, strVec, workers, luaDirs, posted>>

SetLuaDirs ==
  /\ pc = "dirs"
  /\ luaDirs' = strVec /\ Goto("first")
  /\ UNCHANGED <<config, stack, unread, threads, strVec, workers, envPath, posted>>

(* Variant: the first service is asked for as soon as the server is there.  *)
FirstServiceEarly ==
  /\ pc \in {"path", "dirs", "first"} /\ ~posted
  /\ posted' = TRUE
  /\ IF pc = "first" THEN Goto("run") ELSE UNCHANGED pc
  /\ UNCHANGED <<config, stack, unread, threads, strVec, workers, envPath, luaDirs>>

(* server->newService(server.lua); the workers' threads run since the server *)
(* was built and read luaDirs and envPath, without a lock, from here on.     *)
FirstService ==
  /\ pc = "first"
  /\ posted' = TRUE /\ Goto("run")
  /\ UNCHANGED <<config, stack, unread, threads, strVec, workers, envPath, luaDirs>>

Next ==
  \/ RunScript \/ CheckType
  \/ OpenField("threads", "number") \/ ReadThreads
  \/ OpenField("paths", "vector") \/ StartVector \/ NextEntry \/ PopEntry
  \/ BuildServer \/ SetEnvPath \/ SetLuaDirs \/ FirstService

Spec == Init /\ [][Next]_vars

-----------------------------------------------------------------------------
(* Properties. *)

(* Whatever the fields hold, a read that returns leaves the Lua stack as it  *)
(* was, so the next getLuaField(L, -1, ...) finds the table again, and the   *)
(* loop over path_table meets its table under the key at every lua_next:    *)
(* startup fails only when the script does or the thread count is bad.      *)
StackKept ==
  /\ pc \in {"type", "threads", "paths", "build", "path", "dirs", "first", "run"} =>
       stack = <<"config">>
  /\ pc = "abort" => config = Absent \/ ~UInt32Ok(config.threads)

(* The number of workers the configuration means, if it means one. *)
Wanted ==
  LET v == config.threads
  IN CASE v.t = "nil" -> {0}
       [] v.t \in {"integer", "numeral"} -> {v.n} \cap 0..UINT32_MAX
       [] OTHER -> {}

(* A server is built only from a configuration whose thread count fits its  *)
(* word, with that many workers and never with a truncated count.           *)
WorkersAsConfigured == workers # NoServer => workers \in Wanted

Occurrences(s, x) == Cardinality({i \in DOMAIN s : s[i] = x})

(* Before any worker can be given a service the search path and package.path *)
(* hold every directory of the configuration, each as often as it is there. *)
DirsBeforeService ==
  posted =>
    /\ luaDirs = envPath
    /\ Len(luaDirs) = Cardinality(Strings(config))
    /\ \A i \in Strings(config) :
         LET d == config.path_table.items[i]
         IN Occurrences(luaDirs, d) =
              Cardinality({j \in Strings(config) : config.path_table.items[j] = d})

=============================================================================
