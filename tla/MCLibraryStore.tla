--------------------------- MODULE MCLibraryStore ---------------------------
(* An entity E (source e), an architecture A of it that e or a may define, *)
(* a user U of E (source u) and a user V of U (source v); U's object and   *)
(* the entity's have the same base name.  n is a SystemC source.           *)
EXTENDS LibraryStore

CONSTANTS x, y

Separate == [c \in Contenders |-> c]
Attempts == [c \in Contenders |-> IF c = x THEN 2 ELSE 1]
Unit(u, s, base) == [kind |-> "hdl", sources |-> {s}, units |-> {<<u, s>>}, base |-> base]
MCOutputs == {Unit("E", "e", "top"), Unit("A", "e", "top-A"), Unit("A", "a", "top-A"),
              Unit("U", "u", "top"), Unit("V", "v", "V"),
              [kind |-> "object", sources |-> {"n"}, units |-> {}, base |-> "n"]}
Units == {"E", "A", "U", "V"}
MCNeedsOf == [unit \in Units |-> CASE unit = "E" -> {} [] unit = "V" -> {"E", "U"}
                                 [] OTHER -> {"E"}]
MCVhdl == Units
MCPrimaryOf == [unit \in Units |-> IF unit = "A" THEN "E" ELSE unit]
MCGroupings == {{"e"}, {"a"}, {"e", "u"}, {"e", "v"}, {"n"}}
=============================================================================
