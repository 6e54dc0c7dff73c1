--------------------------- MODULE MCServiceInit ---------------------------
(* ServiceInit with arguments of core.new_service of every kind.            *)
EXTENDS ServiceInit

Files == {<<"scripts", "server">>, <<"test", "testservice">>}

SomeArguments ==
  {[workerid |-> w, luafile |-> f] :
     w \in {Absent, Integer(2), Integer(-1), Integer(UINT32_MAX + 1), Numeral(1),
            OfType("boolean")},
     f \in {Absent, OfType("string"), OfType("table")}}

=============================================================================
