-------------------------- MODULE MCPluginManager --------------------------
(***************************************************************************)
(* Three clients of the plugin manager and one of another singleton.  Two  *)
(* directories exist; both have an importer named "tlb", one a library     *)
(* that does not open and one without entry point.                         *)
(***************************************************************************)
EXTENDS PluginManager, TLC

CONSTANTS reg, call, hold, other

MCTy == [u \in Use |-> IF u = other THEN "Other" ELSE "PluginManager"]
Jobs == reg :> "registry" @@ call :> "call" @@ hold :> "hold" @@ other :> "hold"
MCJob == [u \in Use |-> Jobs[u]]

A == <<"a">>
B == <<"b">>
MCEnv == {Unset, <<>>, A, A \o <<":">> \o B, B \o <<":">> \o A, A \o <<":">>, <<"none", ":">> \o A}
MCHardcodedPath == A
Directories == A :> {"tlb.so", "csupport.so", "text.so"} @@ B :> {"other.so", "noentry.so"}
MCLibraries == Directories

Lib(opens, entry, imp, exp, defines, cont) ==
    [opens |-> opens, entry |-> entry, importers |-> imp, exporters |-> exp,
     defines |-> defines, containers |-> cont]
Catalog ==
    "tlb.so" :> Lib(TRUE, TRUE, {"tlb"}, {"tlb"}, FALSE, {}) @@
    "csupport.so" :> Lib(TRUE, TRUE, {}, {}, FALSE, {"vector"}) @@
    "text.so" :> Lib(FALSE, TRUE, {"text"}, {}, FALSE, {}) @@
    "other.so" :> Lib(TRUE, TRUE, {"tlb"}, {"idl"}, TRUE, {"vector"}) @@
    "noentry.so" :> Lib(TRUE, FALSE, {"no"}, {}, FALSE, {})
MCLibrary == Catalog
=============================================================================
