----------------------------- MODULE MCStartup -----------------------------
(* Startup with tables, thread counts and directory lists of every kind.    *)
EXTENDS Startup

Dir(name) == [t |-> "string", s |-> name]

Counts ==
  {Absent, OfType("boolean"), OfType("float"), OfType("string")}
    \cup {Integer(k) : k \in {-1, 0, 2, UINT32_MAX, UINT32_MAX + 1}} \cup {Numeral(2)}

Entries == {Dir("test"), Dir("scripts"), Integer(1), OfType("table")}

Tables ==
  {[t |-> "table", items |-> s] :
     s \in UNION {[1..n -> Entries] : n \in 0..2}
             \cup {<<Dir("test"), Integer(1), Dir("test")>>}}
    \cup {Absent, OfType("string")}

AllConfigs ==
  {OfType("error"), Absent}
    \cup {[t |-> "table", threads |-> n, path_table |-> p] : n \in Counts, p \in Tables}

=============================================================================
