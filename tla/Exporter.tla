------------------------------ MODULE Exporter ------------------------------
(***************************************************************************)
(* Exporter::save(stream, config, registry) of typelib/exporter.cc: the    *)
(* order in which the entries of a registry are handed to the save() of a  *)
(* concrete exporter.                                                      *)
(*                                                                         *)
(* An entry of the registry is a type, under its own name, or an alias.    *)
(* The registry is chosen once, in Init: what the types depend on, and     *)
(* which entries are persistent.  The body of the main loop is cut at the  *)
(* places where it calls save(), so that an exporter can do its own part.  *)
(***************************************************************************)
EXTENDS Naturals, Sequences

CONSTANTS
    Type,         \* entries that hold a type under its own name
    Alias,        \* entries that hold it under another one
    Target,       \* [Alias -> Type]
    NsOf,         \* [Entry -> namespaces], RegistryIterator::getNamespace()
    Rank,         \* [Entry -> Nat], the order of nameSort() on the entries
    NoNs,         \* the empty string
    Dependencies, \* the dependency graphs [Type -> SUBSET Type] considered
    Persistence   \* the sets of persistent entries considered

Entry == Type \cup Alias

ASSUME EntryAssumption ==
    /\ Type \cap Alias = {}
    /\ Target \in [Alias -> Type]
    /\ Rank \in [Entry -> Nat]
    /\ Dependencies \subseteq [Type -> SUBSET Type]
    /\ Persistence \subseteq SUBSET Entry

VARIABLES
    deps, persistent,  \* the registry
    types,             \* entries that wait for their dependencies
    free_types,        \* entries that may be saved
    saved_types,       \* types that other entries may refer to
    last_namespace,    \* namespace of the last entry that was really saved
    cursor,            \* save_it, between two calls to save()
    output,            \* history: the entries given to save(), in order
    pc

registry == <<deps, persistent>>
vars == <<deps, persistent, types, free_types, saved_types, last_namespace, cursor, output, pc>>

\* The type of an entry, and the types that have to be saved before it.
TypeOf(e) == IF e \in Type THEN e ELSE Target[e]
Requires(e) == IF e \in Type THEN deps[e] ELSE {Target[e]}

\* Mutant: one saved dependency is enough.
some_dependency(e) == Requires(e) = {} \/ Requires(e) \cap saved_types # {}

done_dependencies(e) == Requires(e) \subseteq saved_types

\* The first of a set of entries, in the order of the map.
IsFirst(e, S) == e \in S /\ \A f \in S : Rank[e] =< Rank[f]

After(e, S) == {f \in S : Rank[e] < Rank[f]}

-----------------------------------------------------------------------------
Init ==
    /\ deps \in Dependencies
    /\ persistent \in Persistence
    /\ types = Entry
    /\ free_types = {}
    /\ saved_types = {}
    /\ last_namespace = NoNs
    /\ cursor = {}
    /\ output = <<>>
    /\ pc = "collect"

\* Move what has its dependencies saved from types to free_types.
Collect ==
    /\ pc = "collect" /\ types # {}
    /\ LET done == {e \in types : done_dependencies(e)} IN
        /\ free_types' = free_types \cup done
        /\ types' = types \ done
        /\ pc' = IF free_types' = {} THEN "ExportError" ELSE "flush"
    /\ UNCHANGED <<registry, saved_types, last_namespace, cursor, output>>

\* Mutant: entries that are not persistent do not count as saved.
FlushUnsaved ==
    /\ pc = "flush" /\ ~(free_types \subseteq persistent)
    /\ free_types' = free_types \cap persistent
    /\ pc' = "collect"
    /\ UNCHANGED <<registry, types, saved_types, last_namespace, cursor, output>>

\* Mutant: they are not erased from free_types.
FlushKept ==
    /\ pc = "flush" /\ ~(free_types \subseteq persistent)
    /\ saved_types' = saved_types \cup {TypeOf(e) : e \in free_types \ persistent}
    /\ pc' = "collect"
    /\ UNCHANGED <<registry, types, free_types, last_namespace, cursor, output>>

\* Entries that are not persistent count as saved, and the loop starts again.
Flush ==
    /\ pc = "flush" /\ ~(free_types \subseteq persistent)
    /\ saved_types' = saved_types \cup {TypeOf(e) : e \in free_types \ persistent}
    /\ free_types' = free_types \cap persistent
    /\ pc' = "collect"
    /\ UNCHANGED <<registry, types, last_namespace, cursor, output>>

\* Otherwise a run of entries is saved, from the last namespace if possible.
Select ==
    /\ pc = "flush" /\ free_types \subseteq persistent
    /\ LET same == {e \in free_types : NsOf[e] = last_namespace} IN
       \E e \in free_types :
          /\ IsFirst(e, IF same # {} THEN same ELSE free_types)
          /\ cursor' = {e}
    /\ pc' = "save"
    /\ UNCHANGED <<registry, types, free_types, saved_types, last_namespace, output>>

\* One turn of the loop on save_it.  saved is what save() returns; the run goes
\* on as long as the next entry is in the same namespace.
SaveOne(e, saved) ==
    /\ pc = "save" /\ e \in cursor
    /\ saved_types' = saved_types \cup {TypeOf(e)}
    /\ output' = Append(output, e)
    /\ last_namespace' = IF saved THEN NsOf[e] ELSE last_namespace
    /\ free_types' = free_types \ {e}
    /\ cursor' = {f \in After(e, free_types) :
                    IsFirst(f, After(e, free_types)) /\ NsOf[f] = NsOf[e]}
    /\ pc' = IF cursor' = {} THEN "collect" ELSE "save"
    /\ UNCHANGED <<registry, types>>

\* After the main loop: what is left in free_types, in order.
Drain(e) ==
    /\ pc = "collect" /\ types = {} /\ IsFirst(e, free_types)
    /\ output' = IF e \in persistent THEN Append(output, e) ELSE output
    /\ free_types' = free_types \ {e}
    /\ UNCHANGED <<registry, types, saved_types, last_namespace, cursor, pc>>

\* Mutant: what is left in free_types is forgotten.
EndEarly ==
    /\ pc = "collect" /\ types = {}
    /\ pc' = "done"
    /\ UNCHANGED <<registry, types, free_types, saved_types, last_namespace, cursor, output>>

End ==
    /\ pc = "collect" /\ types = {} /\ free_types = {}
    /\ pc' = "done"
    /\ UNCHANGED <<registry, types, free_types, saved_types, last_namespace, cursor, output>>

Next ==
    \/ Collect \/ Flush \/ Select \/ End
    \/ \E e \in Entry : Drain(e) \/ \E saved \in BOOLEAN : SaveOne(e, saved)

Spec == Init /\ [][Next]_vars
FairSpec == Spec /\ WF_vars(Next)

-----------------------------------------------------------------------------
(* Properties *)

\* The control state is consistent with the sets it works on.
TypeOK ==
    /\ deps \in [Type -> SUBSET Type] /\ persistent \subseteq Entry
    /\ types \subseteq Entry /\ free_types \subseteq Entry /\ saved_types \subseteq Type
    /\ cursor \subseteq free_types
    /\ output \in Seq(Entry)
    /\ pc \in {"collect", "flush", "save", "ExportError", "done"}

\* D holds all that the i-th entry refers to, directly or through types that are
\* not persistent, and what is persistent in D was handed to save() before it.
RefersTo(i, D) ==
    /\ Requires(output[i]) \subseteq D
    /\ \A d \in D : deps[d] \subseteq D
    /\ \A d \in D \cap persistent : \E j \in 1..(i - 1) : output[j] = d

\* "A type will be serialized before another type which references it", be it
\* through types that are not serialized.
DependenciesFirst == \A i \in 1..Len(output) : \E D \in SUBSET Type : RefersTo(i, D)

\* No entry is handed to save() twice, and none that is not persistent.
SavedOnce ==
    \A i \in 1..Len(output) :
        output[i] \in persistent /\ \A j \in 1..(i - 1) : output[j] # output[i]

\* Every persistent entry is in the output when save() returns.
Complete == pc = "done" => \A e \in persistent : \E i \in 1..Len(output) : output[i] = e

\* What save() leaves in the stream when it returns: the persistent entries, each
\* of them once, though entries are erased from the maps that it iterates on.
ExactlyOnce == SavedOnce /\ Complete

\* save() only gives up on recursive types: in a registry without a cycle of
\* dependencies no ExportError is thrown.
Recursive == \E S \in SUBSET Type : S # {} /\ \A t \in S : deps[t] \cap S # {}
ErrorMeansRecursive == pc = "ExportError" => Recursive

\* Conversely a registry with recursive types is never exported.
RecursiveMeansError == pc = "done" => ~Recursive

\* save() throws ExportError for the registries with a cycle of dependencies, and
\* for those only: entries that are skipped do not hide or make one.
ErrorIffRecursive == ErrorMeansRecursive /\ RecursiveMeansError

\* save() ends, whatever the registry: every turn of its loops handles an entry.
SaveTerminates == <>(pc \in {"done", "ExportError"})
=============================================================================
