----------------------------- MODULE MCExtract -----------------------------
(***************************************************************************)
(* Modules of three functions, one a declaration or a definition, with     *)
(* every direct call graph among two callers, a table that refers to a     *)
(* function, a data segment that may be missing, and an alias.             *)
(***************************************************************************)
EXTENDS Extract

MCFunction == {"f", "g", "h"}
MCVariable == {"data", "table"}
MCAlias == {"alias"}
MCPieceOf == [x \in MCFunction |-> CASE x = "f" -> "f.block"
                                     [] x = "g" -> "g.block"
                                     [] x = "h" -> "h.block"]

MCModules ==
  {m \in [names    : {{"f", "g", "h", "table", "alias"} \cup x :
                        x \in SUBSET {"data"}},
          defs     : {{"f", "g", "table", "alias"} \cup x :
                        x \in SUBSET {"data", "h"}},
          constant : {{"data"}},
          calls    : {{"f", "g"} \X {"g"}, {<<"f", "h">>, <<"h", "g">>},
                      {<<"f", "g">>, <<"g", "f">>}, {<<"g", "h">>},
                      {<<"f", "g">>, <<"g", "h">>, <<"h", "f">>}},
          uses     : {{<<"table", "h">>, <<"alias", "f">>},
                      {<<"f", "data">>, <<"f", "table">>, <<"alias", "g">>}},
          blocks   : {{"g"}, {"f", "g"}}] : WellFormed(m)}

MCRequests ==
  [aliases    : {{}, {"alias"}},
   raliases   : {{}},
   globals    : {{"table"}},
   rglobals   : {{}, {{"data"}}},
   functions  : {{"f"}, {"f", "h"}},
   rfunctions : {{}},
   blocks     : {{}, {"f"}},
   recursive  : BOOLEAN,
   delete     : BOOLEAN,
   keepConst  : BOOLEAN]
  \cup
  [aliases    : {{}},
   raliases   : {{{"alias"}}, {{"alias"}, {}}},
   globals    : {{}, {"data"}},
   rglobals   : {{{"data", "table"}}},
   functions  : {{"f"}, {"h"}},
   rfunctions : {{{"g", "h"}}, {{"g"}}, {{"g"}, {}}},
   blocks     : {{}, {"h"}},
   recursive  : BOOLEAN,
   delete     : {FALSE},
   keepConst  : {FALSE}]
=============================================================================
