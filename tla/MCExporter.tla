----------------------------- MODULE MCExporter -----------------------------
(* All the dependency graphs on three types in two namespaces, with two      *)
(* aliases, and any set of persistent entries.                               *)
EXTENDS Exporter, TLC

CONSTANTS t1, t2, t3, a1, a2

MCTarget == a1 :> t1 @@ a2 :> t3
MCNsOf == t1 :> "/" @@ t2 :> "/z/" @@ t3 :> "/" @@ a1 :> "/z/" @@ a2 :> "/"
MCRank == t1 :> 1 @@ a2 :> 2 @@ t3 :> 3 @@ a1 :> 4 @@ t2 :> 5
AllDependencies == [Type -> SUBSET Type]
AllPersistence == SUBSET Entry
=============================================================================
