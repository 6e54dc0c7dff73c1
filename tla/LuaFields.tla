----------------------------- MODULE LuaFields -----------------------------
(***************************************************************************)
(* The conversions of lua_utility.h: getLuaValue<T> of a Lua value, and    *)
(* getLuaField<T>, which gives the default of T for a field that is absent.*)
(* A Lua value is a record whose field `t` is what the conversions look at: *)
(* nil, boolean, integer, numeral (a string that Lua reads as an integer), *)
(* string, float (without an integer value) or table.                      *)
(***************************************************************************)
EXTENDS Integers

CONSTANT UINT32_MAX

ASSUME WordOK == UINT32_MAX \in Nat

Absent == [t |-> "nil"]
Integer(k) == [t |-> "integer", n |-> k]
Numeral(k) == [t |-> "numeral", n |-> k]
OfType(t) == [t |-> t]

(* Variant: the field has the width of a lua_Integer. *)
CastWide(n) == n

(* static_cast<T>(v) of a lua_Integer, for T = uint32_t *)
Cast(n) == n % (UINT32_MAX + 1)

(* Variant: the check for an integer that does not fit is left out. *)
FitsUnchecked(n) == TRUE

(* luaL_argcheck: the cast value is the value. *)
Fits(n) == Cast(n) = n

(* getLuaField<uint32_t> returns; otherwise it raises a Lua error. *)
UInt32Ok(v) ==
  \/ v.t = "nil"
  \/ v.t \in {"integer", "numeral"} /\ Fits(v.n)

UInt32Of(v) == IF v.t = "nil" THEN 0 ELSE Cast(v.n)

(* getLuaField<std::string> returns: Lua converts numbers to strings. *)
StringOk(v) == v.t \in {"nil", "string", "numeral", "integer", "float"}

(* An entry getLuaValue<LuaVector> keeps; it prints and skips the others. *)
IsString(v) == v.t \in {"string", "numeral"}

=============================================================================
