------------------------------- MODULE Message -------------------------------
(***************************************************************************)
(* lua_scripts/message.lua: the protocol table and server.send, on the     *)
(* module table that the C++ library and the scripts share (`server` is    *)
(* `core` in every script).  _default_dispatch is left out: the C++ side   *)
(* does not call it yet, and with its session fixed to 0 it changes no     *)
(* state.                                                                  *)
(***************************************************************************)
EXTENDS Integers, Sequences

CONSTANTS
  NumTypes,   \* bound: message types that scripts register
  MaxNested   \* nested calls before Lua raises "stack overflow"

MSG_LUA  == 1
Types    == 1..NumTypes
NoType   == 0              \* any value that is no registered type
Fields   == {"callback", "new_service", "send"}

VARIABLES
  core,      \* who provides each field of the module table
  protocol,  \* of each type: not registered, or whether its entry can pack
  nested,    \* the `type` arguments of the calls of server.send in progress
  outcome    \* of the last finished send

vars == <<core, protocol, nested, outcome>>

(* The functions that luaopen_core registers. *)
Library == {"callback", "new_service"}

Init ==
  /\ core = [f \in Fields |-> IF f \in Library THEN "library" ELSE "nil"]
  /\ protocol = [t \in Types \cup {NoType} |-> "none"]
  /\ nested = <<>>
  /\ outcome = "none"

Loaded == core["send"] = "script"
Quiet  == Loaded /\ nested = <<>>

(* The chunk: it registers MSG_LUA with the pack function of the module      *)
(* table, which has none, and defines server.send in that same table.       *)
RunChunk ==
  /\ ~Loaded
  /\ protocol' = [protocol EXCEPT ![MSG_LUA] = "no pack"]
  /\ core' = [core EXCEPT !["send"] = "script"]
  /\ UNCHANGED <<nested, outcome>>

(* server.register, called by a script. *)
Register(t, entry) ==
  /\ Quiet
  /\ protocol' = [protocol EXCEPT ![t] = entry]
  /\ UNCHANGED <<core, nested, outcome>>

(* server.send(t, receiver, ...), called by a script. *)
Send(t) ==
  /\ Quiet
  /\ nested' = <<t>>
  /\ outcome' = "none"
  /\ UNCHANGED <<core, protocol>>

(* `p` of the innermost call. *)
Entry == protocol[nested[Len(nested)]]

(* core.send(receiver, p.pack(...)): the library's function would take the   *)
(* message; server.send takes the receiver for a type, and what pack        *)
(* returned for the receiver.                                               *)
CallCore(receiver) ==
  /\ nested # <<>> /\ Entry = "pack"
  /\ \/ /\ core["send"] = "library"
        /\ nested' = <<>> /\ outcome' = "sent"
     \/ /\ core["send"] = "script" /\ Len(nested) < MaxNested
        /\ nested' = Append(nested, receiver) /\ UNCHANGED outcome
  /\ UNCHANGED <<core, protocol>>

(* A type that is not registered is reported and then indexed all the same; *)
(* an entry without pack is called all the same; calls nest too deep.  The  *)
(* error leaves all the calls in progress.                                  *)
RaiseError ==
  /\ nested # <<>>
  /\ \/ Entry # "pack"
     \/ core["send"] = "script" /\ Len(nested) = MaxNested
  /\ nested' = <<>> /\ outcome' = "error"
  /\ UNCHANGED <<core, protocol>>

Next ==
  \/ RunChunk \/ RaiseError
  \/ \E t \in Types : Send(t) \/ \E entry \in {"no pack", "pack"} : Register(t, entry)
  \/ \E receiver \in Types \cup {NoType} : CallCore(receiver)

Spec == Init /\ [][Next]_vars

-----------------------------------------------------------------------------
(* message.lua:57 says of server.send that it sends the message: a send of   *)
(* a type that is registered with a pack function hands the packed message   *)
(* to the core library.                                                     *)
SendSends ==
  [][nested # <<>> /\ nested' = <<>> /\ protocol[nested[1]] = "pack"
       => outcome' = "sent"]_vars

=============================================================================
