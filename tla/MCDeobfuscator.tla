--------------------------- MODULE MCDeobfuscator ---------------------------
(***************************************************************************)
(* A wasm2c module of two program functions f and g, one load helper, the  *)
(* instantiate function and a runtime function: one or two names given to  *)
(* -f (also twice the same, a declaration, a helper, a runtime function),  *)
(* with and without data segments, compiled with and without -O0.          *)
(***************************************************************************)
EXTENDS Deobfuscator

MCFunction == {"f", "g", "load", "instantiate", "rt"}
MCVariable == {"data", "table"}
MCPieceOf == [x \in MCFunction |-> "no piece"]

AllButRuntime == MCFunction \ {"rt"}

MCModules ==
  {m \in [names    : {MCFunction \cup {"table"} \cup x : x \in SUBSET {"data"}},
          defs     : {{"f", "load", "table"} \cup x :
                        x \in {{"g", "instantiate"}, {"g", "instantiate", "data"},
                               {"instantiate", "data"}, {"g"}}},
          constant : {{}},
          calls    : {{<<"f", "load">>, <<"f", "g">>, <<"load", "rt">>},
                      {<<"f", "load">>, <<"f", "g">>, <<"g", "load">>},
                      {<<"f", "load">>, <<"g", "load">>, <<"g", "f">>},
                      {<<"f", "load">>, <<"load", "load">>}},
          uses     : {{<<"table", "g">>, <<"f", "table">>}},
          blocks   : {{}}] :
     m.calls \subseteq m.defs \X m.names /\ ("data" \in m.names => "data" \in m.defs)}

(* With instantiate defined, it calls the runtime and fills the table.     *)
WithInstantiate(m) ==
  IF "instantiate" \in m.defs
  THEN [m EXCEPT !.calls = @ \cup {<<"instantiate", "rt">>},
                 !.uses  = @ \cup {<<"instantiate", "table">>}]
  ELSE m

(* clang -O0 marks every function it defines, and only those.              *)
Fitting ==
  {in \in [module   : {WithInstantiate(m) : m \in MCModules},
           noinline : SUBSET AllButRuntime,
           optnone  : SUBSET AllButRuntime,
           local    : {{}, {"g", "load"}},
           params   : {2},
           first    : {[x \in MCFunction |-> "pointer"]},
           wasmName : {"squanchy", "other"}] :
     /\ in.optnone = in.noinline
     /\ in.noinline \in {{}, in.module.defs \cap MCFunction}
     /\ WellFormed(in.module)}

(* Initializers of one and of three parameters; an f that takes an integer *)
(* or nothing.                                                             *)
Misfits ==
  LET plain == {in \in Fitting : in.noinline = {} /\ in.local = {} /\ in.wasmName = "squanchy"}
  IN  {[in EXCEPT !.params = n] : in \in plain, n \in {1, 3}}
      \cup {[in EXCEPT !.first["f"] = x] : in \in plain, x \in {"other", "none"}}

MCInputs == Fitting \cup Misfits

MCCommands ==
  {c \in [functions  : {<<"f">>, <<"f", "g">>, <<"g", "f">>, <<"f", "f">>, <<"f", "rt">>},
          moduleName : {"squanchy"},
          list       : {FALSE},
          extract    : BOOLEAN,
          recursive  : BOOLEAN,
          inject     : BOOLEAN,
          refs       : BOOLEAN,
          optimize   : BOOLEAN,
          writable   : {TRUE}] :
     (c.recursive => c.extract) /\ (c.refs => c.inject)}
  \cup
  [functions  : {<<"f">>, <<"load">>},
   moduleName : {"squanchy", "other"},
   list       : BOOLEAN,
   extract    : {TRUE},
   recursive  : {FALSE},
   inject     : BOOLEAN,
   refs       : {TRUE},
   optimize   : {TRUE},
   writable   : BOOLEAN]
=============================================================================
