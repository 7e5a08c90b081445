--------------------------- MODULE ExporterProofs ---------------------------
(***************************************************************************)
(* Proofs about the exporters.  First Exporter::save(), with any exporter: *)
(* the order of the entries, and when it fails.  Then the IDL exporter:    *)
(* the invariant that its steps keep, and the lemmas about the names it    *)
(* gives to types, what it can express, and what a call of its save()      *)
(* knows of the entry it is given.                                         *)
(***************************************************************************)
EXTENDS IDLExport, TLAPS

Emitted(e) == \E i \in 1..Len(output) : output[i] = e
Cyclic(S) == \A t \in S : deps[t] \cap S # {}

\* What saved_types stands for: it is closed under dependencies, it holds what
\* the free entries refer to, and what is persistent in it has been emitted.
SavedInv ==
    /\ \A d \in saved_types : deps[d] \subseteq saved_types
    /\ \A e \in free_types : Requires(e) \subseteq saved_types
    /\ \A d \in saved_types : d \in persistent => Emitted(d)

\* Where an entry is: it waits, it is free, it is emitted, or it is not persistent
\* and has been skipped.  The types of a cycle never leave the waiting set.
EntryInv ==
    /\ types \cap free_types = {}
    /\ types \cap saved_types = {}
    /\ \A e \in types \cup free_types : ~Emitted(e)
    /\ \A e \in persistent : e \in types \cup free_types \/ Emitted(e)
    /\ types # {} => \A d \in Type : d \in types \cup free_types \cup saved_types
    /\ \A S \in SUBSET Type : Cyclic(S) => S \subseteq types

ControlInv ==
    /\ IF pc = "save" THEN free_types \subseteq persistent ELSE cursor = {}
    /\ pc = "ExportError" => /\ free_types = {} /\ types # {}
                             /\ \A e \in types : ~(Requires(e) \subseteq saved_types)
    /\ pc = "done" => types = {} /\ free_types = {}

ExportInv == TypeOK /\ DependenciesFirst /\ SavedOnce /\ SavedInv /\ EntryInv /\ ControlInv

\* In the initial state every entry waits.
LEMMA ExportInit == Init => ExportInv
<1> SUFFICES ASSUME Init PROVE ExportInv
  BY Zenon
<1> USE EntryAssumption DEF Init
<1>1. Len(output) = 0 /\ output \in Seq(Entry)
  OBVIOUS
<1>2. TypeOK
  BY <1>1, Zenon DEF TypeOK, Entry
<1>3. DependenciesFirst /\ SavedOnce /\ \A e : ~Emitted(e)
  BY <1>1 DEF DependenciesFirst, SavedOnce, Emitted
<1>4. SavedInv /\ ControlInv
  BY Zenon DEF SavedInv, ControlInv
<1>5. EntryInv
  BY <1>2, <1>3, Zenon DEF EntryInv, TypeOK, Entry
<1> QED BY <1>2, <1>3, <1>4, <1>5, Zenon DEF ExportInv

\* Handing one more entry to save() keeps the order right, when what the entry
\* refers to was saved before.
LEMMA AppendInv ==
    ASSUME TypeOK, DependenciesFirst, SavedOnce, SavedInv,
           NEW e \in free_types, e \in persistent, ~Emitted(e),
           output' = Append(output, e), UNCHANGED registry
    PROVE  /\ output' \in Seq(Entry)
           /\ DependenciesFirst' /\ SavedOnce'
           /\ \A f : Emitted(f)' <=> Emitted(f) \/ f = e
<1> DEFINE n == Len(output)
<1>1. /\ n \in Nat /\ output' \in Seq(Entry) /\ Len(output') = n + 1
      /\ output'[n + 1] = e /\ \A i \in 1..n : output'[i] = output[i]
  BY DEF TypeOK
<1>0. deps' = deps /\ persistent' = persistent
  BY Zenon DEF registry
<1> HIDE DEF n
<1>2. \A f : Emitted(f)' <=> Emitted(f) \/ f = e
  <2> TAKE f
  <2>1. Emitted(f) <=> \E i \in 1..n : output[i] = f
    BY Zenon DEF Emitted, n
  <2>2. Emitted(f)' <=> \E i \in 1..(n + 1) : output'[i] = f
    BY <1>1, Zenon DEF Emitted
  <2> QED BY <1>1, <2>1, <2>2
<1>4. DependenciesFirst'
  <2> DEFINE Before(i, D) ==
        /\ Requires(output'[i]) \subseteq D
        /\ \A d \in D : deps[d] \subseteq D
        /\ \A d \in D \cap persistent : \E j \in 1..(i - 1) : output'[j] = d
  <2>0. ASSUME NEW i, NEW D, Before(i, D) PROVE RefersTo(i, D)'
    BY <2>0, <1>0, Zenon DEF RefersTo, Requires
  <2> HIDE DEF Before
  <2> SUFFICES ASSUME NEW i \in 1..(n + 1)
               PROVE  \E D \in SUBSET Type : Before(i, D)
    BY <2>0, <1>1, Zenon DEF DependenciesFirst
  <2>1. CASE i \in 1..n
    <3>1. PICK D \in SUBSET Type : RefersTo(i, D)
      BY <2>1, Zenon DEF DependenciesFirst, n
    <3>2. Before(i, D)
      BY <2>1, <3>1, <1>1 DEF RefersTo, Before
    <3> QED BY <3>2, Zenon
  <2>2. CASE i = n + 1
    <3>1. /\ Requires(e) \subseteq saved_types /\ saved_types \in SUBSET Type
          /\ \A d \in saved_types : deps[d] \subseteq saved_types
      BY Zenon DEF SavedInv, TypeOK
    <3>2. \A d \in saved_types \cap persistent : \E j \in 1..n : output[j] = d
      BY Zenon DEF SavedInv, Emitted, n
    <3>3. Before(i, saved_types)
      BY <3>1, <3>2, <2>2, <1>1 DEF Before
    <3> QED BY <3>1, <3>3, Zenon
  <2>3. i \in 1..n \/ i = n + 1
    BY <1>1
  <2> QED BY <2>1, <2>2, <2>3, Zenon
<1>5. SavedOnce'
  <2> SUFFICES ASSUME NEW i \in 1..(n + 1)
               PROVE  output'[i] \in persistent /\ \A j \in 1..(i - 1) : output'[j] # output'[i]
    BY <1>0, <1>1, Zenon DEF SavedOnce
  <2>1. CASE i \in 1..n
    BY <2>1, <1>1 DEF SavedOnce, n
  <2>2. CASE i = n + 1
    BY <2>2, <1>1 DEF Emitted, n
  <2> QED BY <2>1, <2>2, <1>1
<1> QED BY <1>1, <1>2, <1>4, <1>5, Zenon

\* A step that emits nothing.
LEMMA SameOutput ==
    ASSUME DependenciesFirst, SavedOnce, UNCHANGED <<registry, output>>
    PROVE  /\ DependenciesFirst' /\ SavedOnce'
           /\ \A f : Emitted(f)' <=> Emitted(f)
           /\ \A f : Requires(f)' = Requires(f)
           /\ \A S : Cyclic(S)' <=> Cyclic(S)
<1>1. deps' = deps /\ persistent' = persistent /\ output' = output
  BY Zenon DEF registry
<1>2. \A i, D : RefersTo(i, D)' <=> RefersTo(i, D)
  BY <1>1, ZenonT(60) DEF RefersTo, Requires
<1>3. DependenciesFirst'
  BY <1>1, <1>2, Zenon DEF DependenciesFirst
<1> QED BY <1>1, <1>3, Zenon DEF SavedOnce, Emitted, Requires, Cyclic

\* Collecting the entries whose dependencies are saved.
LEMMA CollectInv == ExportInv /\ Collect => ExportInv'
<1> SUFFICES ASSUME ExportInv, Collect PROVE ExportInv'
  BY Zenon
<1> DEFINE F == {e \in types : Requires(e) \subseteq saved_types}
<1>1. /\ pc = "collect" /\ types # {} /\ free_types' = free_types \cup F /\ types' = types \ F
      /\ pc' = IF free_types' = {} THEN "ExportError" ELSE "flush"
      /\ UNCHANGED <<registry, saved_types, cursor, output>>
      /\ deps' = deps /\ persistent' = persistent /\ output' = output
  BY Zenon DEF Collect, done_dependencies, registry
<1>2. \A e : e \in F <=> e \in types /\ Requires(e) \subseteq saved_types
  BY Zenon
<1> HIDE DEF F
<1> USE DEF ExportInv
<1>3. /\ DependenciesFirst' /\ SavedOnce'
      /\ \A f : (Emitted(f)' <=> Emitted(f)) /\ Requires(f)' = Requires(f)
      /\ \A S : Cyclic(S)' <=> Cyclic(S)
  BY <1>1, SameOutput, Zenon
<1>4. TypeOK'
  BY <1>1, <1>2, Zenon DEF TypeOK
<1>5. SavedInv'
  BY <1>1, <1>2, <1>3, Zenon DEF SavedInv
<1>6. \A S \in SUBSET Type : Cyclic(S) => S \subseteq types'
  <2> SUFFICES ASSUME NEW S \in SUBSET Type, Cyclic(S), NEW t \in S, t \in F PROVE FALSE
    BY <1>1, Zenon DEF EntryInv
  <2>1. deps[t] \subseteq saved_types /\ S \subseteq types
    BY <1>2, Zenon DEF Requires, EntryInv
  <2> QED BY <2>1 DEF Cyclic, EntryInv
<1>7. EntryInv'
  BY <1>1, <1>2, <1>3, <1>6, Zenon DEF EntryInv
<1>8. ControlInv'
  BY <1>1, <1>2, <1>3, Zenon DEF ControlInv
<1> QED BY <1>3, <1>4, <1>5, <1>7, <1>8, Zenon

\* The type of a free entry is not waiting, and it depends on saved types only.
LEMMA FreeFacts ==
    ASSUME TypeOK, SavedInv, EntryInv, NEW e \in free_types
    PROVE  /\ TypeOf(e) \in Type \ types
           /\ deps[TypeOf(e)] \subseteq saved_types
           /\ e \in persistent \/ TypeOf(e) \in saved_types \/ TypeOf(e) \notin persistent
           /\ TypeOf(e) = e \/ TypeOf(e) \in saved_types
<1> USE EntryAssumption DEF Entry, TypeOK, SavedInv, EntryInv, TypeOf, Requires
<1>1. CASE e \in Type
  BY <1>1, Zenon
<1>2. CASE e \notin Type
  <2>1. e \in Alias /\ Target[e] \in Type /\ Target[e] \in saved_types
    BY <1>2, Zenon
  <2> QED BY <1>2, <2>1, Zenon
<1> QED BY <1>1, <1>2, Zenon

\* Skipping the entries that are not persistent.
LEMMA FlushInv == ExportInv /\ Flush => ExportInv'
<1> SUFFICES ASSUME ExportInv, Flush PROVE ExportInv'
  BY Zenon
<1> DEFINE T == {TypeOf(e) : e \in free_types \ persistent}
<1>1. /\ pc = "flush" /\ free_types' = free_types \cap persistent /\ types' = types
      /\ saved_types' = saved_types \cup T /\ pc' = "collect" /\ cursor' = cursor
      /\ UNCHANGED <<registry, output>>
      /\ deps' = deps /\ persistent' = persistent /\ output' = output
  BY Zenon DEF Flush, registry
<1> USE DEF ExportInv
<1>2. /\ \A t \in T : /\ t \in Type \ types /\ deps[t] \subseteq saved_types
                      /\ t \in saved_types \/ t \notin persistent
      /\ \A e \in free_types \ persistent : TypeOf(e) \in T
  BY FreeFacts, Zenon
<1> HIDE DEF T
<1>3. /\ DependenciesFirst' /\ SavedOnce'
      /\ \A f : (Emitted(f)' <=> Emitted(f)) /\ Requires(f)' = Requires(f)
      /\ \A S : Cyclic(S)' <=> Cyclic(S)
  BY <1>1, SameOutput, Zenon
<1>4. TypeOK'
  BY <1>1, <1>2, Zenon DEF TypeOK, ControlInv
<1>5. SavedInv'
  BY <1>1, <1>2, <1>3, Zenon DEF SavedInv
<1>6. EntryInv'
  <2>1. \A e \in free_types : e \in free_types' \/ e \in saved_types' \/ e \notin Type
    BY <1>1, <1>2, FreeFacts, Zenon DEF TypeOf
  <2> QED BY <1>1, <1>2, <1>3, <2>1, Zenon DEF EntryInv
<1>7. ControlInv'
  BY <1>1, Zenon DEF ControlInv
<1> QED BY <1>3, <1>4, <1>5, <1>6, <1>7, Zenon

\* Choosing where to start: only the cursor moves.
LEMMA SelectInv == ExportInv /\ Select => ExportInv'
<1> SUFFICES ASSUME ExportInv, Select PROVE ExportInv'
  BY Zenon
<1>1. /\ pc = "flush" /\ free_types \subseteq persistent /\ pc' = "save"
      /\ cursor' \subseteq free_types
      /\ UNCHANGED <<registry, types, free_types, saved_types, output>>
  BY Zenon DEF Select
<1>2. deps' = deps /\ persistent' = persistent
  BY <1>1, Zenon DEF registry
<1> USE DEF ExportInv
<1>3. /\ DependenciesFirst' /\ SavedOnce'
      /\ \A f : (Emitted(f)' <=> Emitted(f)) /\ Requires(f)' = Requires(f)
      /\ \A S : Cyclic(S)' <=> Cyclic(S)
  BY <1>1, SameOutput, Zenon
<1>4. TypeOK' /\ SavedInv' /\ ControlInv'
  BY <1>1, <1>2, <1>3, Zenon DEF TypeOK, SavedInv, ControlInv
<1>5. EntryInv'
  BY <1>1, <1>2, <1>3, Zenon DEF EntryInv
<1> QED BY <1>3, <1>4, <1>5, Zenon

\* Saving one entry of a run.
LEMMA SaveOneInv ==
    ASSUME ExportInv, NEW e \in Entry, NEW saved \in BOOLEAN, SaveOne(e, saved)
    PROVE  ExportInv'
<1>1. /\ pc = "save" /\ e \in cursor /\ saved_types' = saved_types \cup {TypeOf(e)}
      /\ output' = Append(output, e) /\ free_types' = free_types \ {e} /\ types' = types
      /\ cursor' \subseteq After(e, free_types)
      /\ pc' = IF cursor' = {} THEN "collect" ELSE "save"
      /\ UNCHANGED registry
  BY Zenon DEF SaveOne
<1>2. deps' = deps /\ persistent' = persistent
  BY <1>1, Zenon DEF registry
<1>3. After(e, free_types) \subseteq free_types \ {e}
  BY EntryAssumption DEF After
<1> USE DEF ExportInv
<1>4. e \in free_types /\ e \in persistent /\ ~Emitted(e)
  BY <1>1, Zenon DEF TypeOK, ControlInv, EntryInv
<1>5. /\ output' \in Seq(Entry) /\ DependenciesFirst' /\ SavedOnce'
      /\ \A f : Emitted(f)' <=> Emitted(f) \/ f = e
  BY <1>1, <1>4, AppendInv, Zenon
<1>6. /\ \A f : Requires(f)' = Requires(f)
      /\ \A S : Cyclic(S)' <=> Cyclic(S)
  BY <1>2, Zenon DEF Requires, Cyclic
<1>7. /\ TypeOf(e) \in Type \ types /\ deps[TypeOf(e)] \subseteq saved_types
      /\ TypeOf(e) = e \/ TypeOf(e) \in saved_types
  BY <1>4, FreeFacts, Zenon
<1>8. TypeOK'
  BY <1>1, <1>2, <1>3, <1>5, <1>7, Zenon DEF TypeOK
<1>9. SavedInv'
  BY <1>1, <1>2, <1>5, <1>6, <1>7, Zenon DEF SavedInv
<1>10. EntryInv'
  <2>1. e \in saved_types' \/ e \notin Type
    BY <1>1, Zenon DEF TypeOf
  <2> QED BY <1>1, <1>2, <1>4, <1>5, <1>6, <1>7, <2>1, Zenon DEF EntryInv
<1>11. ControlInv'
  BY <1>1, <1>2, <1>3, Zenon DEF ControlInv
<1> QED BY <1>5, <1>8, <1>9, <1>10, <1>11, Zenon

\* Saving what is left when no entry waits any more.
LEMMA DrainInv ==
    ASSUME ExportInv, NEW e \in Entry, Drain(e)
    PROVE  ExportInv'
<1>1. /\ pc = "collect" /\ types = {} /\ e \in free_types
      /\ output' = IF e \in persistent THEN Append(output, e) ELSE output
      /\ free_types' = free_types \ {e}
      /\ UNCHANGED <<registry, types, saved_types, cursor, pc>>
  BY Zenon DEF Drain, IsFirst
<1>2. deps' = deps /\ persistent' = persistent
  BY <1>1, Zenon DEF registry
<1> USE DEF ExportInv
<1>3. /\ output' \in Seq(Entry) /\ DependenciesFirst' /\ SavedOnce'
      /\ \A f : Emitted(f)' <=> Emitted(f) \/ (f = e /\ e \in persistent)
  <2>1. CASE e \in persistent
    <3>1. ~Emitted(e)
      BY <1>1, Zenon DEF EntryInv
    <3> QED BY <1>1, <2>1, <3>1, AppendInv, Zenon
  <2>2. CASE e \notin persistent
    <3>1. output' = output
      BY <1>1, <2>2, Zenon
    <3> QED BY <1>1, <2>2, <3>1, SameOutput, Zenon DEF TypeOK
  <2> QED BY <2>1, <2>2, Zenon
<1>4. /\ \A f : Requires(f)' = Requires(f)
      /\ \A S : Cyclic(S)' <=> Cyclic(S)
  BY <1>2, Zenon DEF Requires, Cyclic
<1>5. TypeOK' /\ ControlInv'
  BY <1>1, <1>2, <1>3, Zenon DEF TypeOK, ControlInv
<1>6. SavedInv'
  BY <1>1, <1>2, <1>3, <1>4, Zenon DEF SavedInv
<1>7. EntryInv'
  BY <1>1, <1>2, <1>3, <1>4, Zenon DEF EntryInv
<1> QED BY <1>3, <1>5, <1>6, <1>7, Zenon

\* Every step of save() preserves the invariant.
LEMMA ExportNext == ExportInv /\ [Next]_vars => ExportInv'
<1> SUFFICES ASSUME ExportInv, [Next]_vars PROVE ExportInv'
  BY Zenon
<1>1. ASSUME UNCHANGED <<registry, types, free_types, saved_types, cursor, output>>,
             pc' = pc \/ (pc' = "done" /\ pc = "collect" /\ types = {} /\ free_types = {})
      PROVE  ExportInv'
  <2>1. deps' = deps /\ persistent' = persistent
    BY <1>1, Zenon DEF registry
  <2> USE DEF ExportInv
  <2>2. /\ DependenciesFirst' /\ SavedOnce'
        /\ \A f : (Emitted(f)' <=> Emitted(f)) /\ Requires(f)' = Requires(f)
        /\ \A S : Cyclic(S)' <=> Cyclic(S)
    BY <1>1, SameOutput, Zenon
  <2>3. TypeOK' /\ SavedInv' /\ ControlInv'
    BY <1>1, <2>1, <2>2, Zenon DEF TypeOK, SavedInv, ControlInv
  <2>4. EntryInv'
    BY <1>1, <2>1, <2>2, Zenon DEF EntryInv
  <2> QED BY <2>2, <2>3, <2>4, Zenon
<1>2. CASE End
  BY <1>1, <1>2, Zenon DEF End
<1>3. CASE UNCHANGED vars
  BY <1>1, <1>3, Zenon DEF vars, registry
<1> QED
  BY <1>2, <1>3, CollectInv, FlushInv, SelectInv, SaveOneInv, DrainInv, Zenon DEF Next

\* Every reachable state of save() satisfies the invariant.
THEOREM ExportSafe == Spec => []ExportInv
BY ExportInit, ExportNext, PTL DEF Spec

\* The variables of save() keep their types, and the cursor stays on a free entry.
THEOREM ExportTypeCorrect == Spec => []TypeOK
<1>1. ExportInv => TypeOK
  BY Zenon DEF ExportInv
<1> QED BY <1>1, ExportSafe, PTL

\* A type is serialized before another type which references it.
THEOREM ExportOrder == Spec => []DependenciesFirst
<1>1. ExportInv => DependenciesFirst
  BY Zenon DEF ExportInv
<1> QED BY <1>1, ExportSafe, PTL

\* No entry is saved twice, and none that is not persistent is saved.
THEOREM ExportOnce == Spec => []SavedOnce
<1>1. ExportInv => SavedOnce
  BY Zenon DEF ExportInv
<1> QED BY <1>1, ExportSafe, PTL

\* When save() returns, every persistent entry has been saved, once.
THEOREM ExportExact == Spec => []ExactlyOnce
<1>1. ExportInv => ExactlyOnce
  BY Zenon DEF ExportInv, ExactlyOnce, Complete, ControlInv, EntryInv, Emitted
<1> QED BY <1>1, ExportSafe, PTL

\* An ExportError means that the types left over form a cycle: each of them
\* refers to another one that is left over.
THEOREM ErrorOnlyIfRecursive == Spec => []ErrorMeansRecursive
<1>1. ExportInv => ErrorMeansRecursive
  <2> SUFFICES ASSUME ExportInv, pc = "ExportError" PROVE Recursive
    BY Zenon DEF ErrorMeansRecursive
  <2> USE EntryAssumption DEF ExportInv
  <2> DEFINE S == types \cap Type
  <2>1. /\ free_types = {} /\ types # {} /\ types \subseteq Entry
        /\ \A e \in types : ~(Requires(e) \subseteq saved_types)
        /\ \A d \in Type : d \in types \/ d \in saved_types
    BY Zenon DEF ControlInv, EntryInv, TypeOK
  <2>2. \A e \in types : Requires(e) \subseteq Type
    BY <2>1 DEF Requires, TypeOK, Entry
  <2>3. \A e \in types : Requires(e) \cap S # {}
    BY <2>1, <2>2, Zenon
  <2>4. S \in SUBSET Type /\ S # {} /\ \A t \in S : deps[t] \cap S # {}
    BY <2>1, <2>3 DEF Requires
  <2> QED BY <2>4, Zenon DEF Recursive
<1> QED BY <1>1, ExportSafe, PTL

\* A registry with recursive types is never exported.
THEOREM RecursiveNeverExported == Spec => []RecursiveMeansError
<1>1. ExportInv => RecursiveMeansError
  BY Zenon DEF ExportInv, RecursiveMeansError, Recursive, ControlInv, EntryInv, Cyclic
<1> QED BY <1>1, ExportSafe, PTL

\* save() throws ExportError exactly for the registries with recursive types.
THEOREM ErrorExact == Spec => []ErrorIffRecursive
BY ErrorOnlyIfRecursive, RecursiveNeverExported, PTL DEF ErrorIffRecursive



-----------------------------------------------------------------------------
(* The inductive invariant of the IDL exporter *)

\* The declarations that the exporter can write: their text refers to types by
\* the names of the visitor.
Identifiers ==
    {Basename[e] : e \in Entry} \cup {stripLeadingUnderscore(Basename[e]) : e \in Entry}
        \cup {Identifier(t) : t \in Type}
Declarations ==
    [entry : Entry, modules : Seq(Token), id : Identifiers, refs : SUBSET References(Type)]

\* The stream between two steps: no module is open and empty, none was closed empty.
Streams ==
    [m_namespace : Seq(Token), modules : Seq(Token), fresh : {0}, malformed : {FALSE},
     stream : Seq(Declarations)]

\* Between two steps the modules that are open are those of m_namespace, and none
\* of them is empty.
StreamInv ==
    /\ config \in Configs /\ deps \in Dependencies /\ thrown \in BOOLEAN
    /\ idl \in Streams
    /\ idl.modules = IF Finished THEN <<>> ELSE idl.m_namespace
    /\ m_typedefs \in [Range(NsOrder) -> Seq(Declarations)]
    /\ typedefs_it \in 1..EndOfFile /\ (typedefs_it # 1 => pc = "done" /\ ~thrown)
    /\ \A r \in m_exported_typedefs : r.type \in Type

\* A type that save() has been given is declared once, where its references look for it.
Written(t) == Emitted(t) /\ Selected(t) /\ (Blob(t) \/ ~Ignored(t))
DeclaredAt(t, i) ==
    /\ Declares(t) = {i}
    /\ idl.stream[i].modules = HomeOf(t)
    /\ idl.stream[i].id = IF Blob(t) THEN Basename[t] ELSE Identifier(t)
TypesInv ==
    \A t \in Type : IF Written(t) THEN \E i \in DOMAIN idl.stream : DeclaredAt(t, i)
                    ELSE Declares(t) = {}

\* The lines that an alias has among the typedefs: at most one, in its own namespace.
Lines(a, ns) == {i \in DOMAIN m_typedefs[ns] : m_typedefs[ns][i].entry = a}
Kept(a) == Emitted(a) /\ Selected(a) /\ ~Tagged(a) /\ Reserved(a) = {} /\ ~Marked(a) /\ AliasWritten(a)
LinesInv ==
    /\ \A ns \in Range(NsOrder) : \A i \in DOMAIN m_typedefs[ns] :
          m_typedefs[ns][i].entry \in Alias /\ Namespace[m_typedefs[ns][i].entry] = ns
    /\ \A a \in Alias : /\ ~Emitted(a) => Lines(a, Namespace[a]) = {}
                        /\ \A i, j \in Lines(a, Namespace[a]) : i = j
                        /\ Kept(a) => Lines(a, Namespace[a]) # {}

\* end() has written the typedefs of the namespaces it has been through, and no others.
AliasesInv ==
    \A a \in Alias, k \in DOMAIN NsOrder : Namespace[a] = NsOrder[k] =>
        IF k < typedefs_it
        THEN /\ \A i \in Declares(a) : idl.stream[i].modules = HomeOf(a)
             /\ \A i, j \in Declares(a) : i = j
             /\ Lines(a, Namespace[a]) # {} => Declares(a) # {}
        ELSE Declares(a) = {}

\* What the typedefs refer to is in the stream already, though they are not.
TypedefsResolved ==
    \A ns \in Range(NsOrder) : \A i \in DOMAIN m_typedefs[ns] :
        \A r \in m_typedefs[ns][i].refs : Resolved(r, Len(idl.stream) + 1)

\* What save() has been given was written or could be left out.
RefusedInv ==
    /\ \A e \in Entry : Emitted(e) /\ Selected(e) => Supported(e)
    /\ RefusedWithCause

OutputInv ==
    /\ StreamInv /\ TypesInv /\ LinesInv /\ AliasesInv
    /\ ReferencesResolved /\ TypedefsResolved /\ RefusedInv

\* With the order in which Exporter::save() hands out the entries, this is inductive.
IDLInv == ExportInv /\ OutputInv

-----------------------------------------------------------------------------
(* Names *)

\* The facts about the registry that the names depend on.
LEMMA Elements ==
    ASSUME deps \in Dependencies
    PROVE  /\ deps \in [Type -> SUBSET Type]
           /\ \A t \in Indirects : Element(t) \in Type /\ deps[t] = {Element(t)}
           /\ \A t \in Type : Category[t] \in {"numeric", "enum", "opaque", "null"} => deps[t] = {}
<1>1. deps \in [Type -> SUBSET Type]
  BY EntryAssumption, Zenon
<1>2. ASSUME NEW t \in Indirects PROVE Element(t) \in Type /\ deps[t] = {Element(t)}
  <2>1. PICK u \in Type : deps[t] = {u}
    BY <1>2, IDLAssumption, Zenon DEF Indirects
  <2>2. Element(t) = u
    BY <2>1, Zenon DEF Element, The
  <2> QED BY <2>1, <2>2, Zenon
<1>3. \A t \in Type : Category[t] \in {"numeric", "enum", "opaque", "null"} => deps[t] = {}
  BY IDLAssumption, Zenon
<1> QED BY <1>1, <1>2, <1>3, Zenon

\* The namespaces are numbered from one, and each entry is in one of them.
LEMMA NamespacesKnown ==
    /\ Len(NsOrder) \in Nat /\ DOMAIN NsOrder = 1..Len(NsOrder)
    /\ EndOfFile \in Nat /\ EndOfFile = Len(NsOrder) + 2
    /\ \A k \in DOMAIN NsOrder : k \in Nat /\ 1 <= k /\ k < EndOfFile /\ NsOrder[k] \in Seq(Token)
    /\ \A e \in Entry : Namespace[e] \in Seq(Token) /\ Namespace[e] \in Range(NsOrder)
<1>1. NsOrder \in Seq(Seq(Token))
  BY IDLAssumption, Zenon
<1>2. Len(NsOrder) \in Nat /\ DOMAIN NsOrder = 1..Len(NsOrder) /\ \A k \in DOMAIN NsOrder : NsOrder[k] \in Seq(Token)
  BY <1>1
<1>3. /\ EndOfFile \in Nat /\ EndOfFile = Len(NsOrder) + 2
      /\ \A k \in DOMAIN NsOrder : k \in Nat /\ 1 <= k /\ k < EndOfFile
  BY <1>2 DEF EndOfFile
<1>4. \A e \in Entry : Namespace[e] \in Seq(Token) /\ Namespace[e] \in Range(NsOrder)
  BY IDLAssumption, Zenon DEF Range
<1> QED BY <1>2, <1>3, <1>4, Zenon

\* What the visitor goes through to name a type is the least set of arrays and
\* containers that holds the type and is closed, and it visits all of that set.
LEMMA NestedIs ==
    ASSUME NEW t \in Type
    PROVE  /\ Nested(t) \subseteq Indirects
           /\ {t} \cap Indirects \subseteq Nested(t)
           /\ Closed(Nested(t))
           /\ \A D \in SUBSET Indirects :
                 {t} \cap Indirects \subseteq D /\ Closed(D) => Nested(t) \subseteq D
           /\ Nested(t) \subseteq Visited(t)
<1>1. Nested(t) \subseteq Indirects /\ {t} \cap Indirects \subseteq Nested(t)
  BY Zenon DEF Nested
<1>2. ASSUME NEW D \in SUBSET Indirects, {t} \cap Indirects \subseteq D, Closed(D)
      PROVE  Nested(t) \subseteq D
  BY <1>2, Zenon DEF Nested
<1>3. Closed(Nested(t))
  <2> SUFFICES ASSUME NEW d \in Nested(t), NEW u \in deps[d] \cap Indirects,
                      NEW D \in SUBSET Indirects, {t} \cap Indirects \subseteq D, Closed(D)
               PROVE  u \in D
    BY Zenon DEF Closed, Nested
  <2>1. d \in D
    BY <1>2, Zenon
  <2> QED BY <2>1, Zenon DEF Closed
<1>4. Nested(t) \subseteq Visited(t)
  <2> DEFINE D == Nested(t) \cap Visited(t)
  <2>1. D \in SUBSET Indirects /\ {t} \cap Indirects \subseteq D
    BY <1>1, Zenon DEF Visited
  <2>2. Closed(D)
    BY <1>3, Zenon DEF Closed, Visited
  <2> QED BY <1>2, <2>1, <2>2, Zenon
<1> QED BY <1>1, <1>2, <1>3, <1>4, Zenon

\* A type that is neither an array nor a container is named at once.
LEMMA NotIndirect ==
    ASSUME NEW t \in Type \ Indirects
    PROVE  Nested(t) = {} /\ Visited(t) = {t} /\ Innermost(t) = t
<1>1. Nested(t) \subseteq {}
  <2>1. Closed({})
    BY Zenon DEF Closed
  <2> QED BY <2>1, NestedIs, Zenon
<1>2. Visited(t) = {t}
  BY <1>1, Zenon DEF Visited
<1>3. Visited(t) \ Indirects = {t}
  BY <1>2, Zenon
<1> QED BY <1>1, <1>2, <1>3, Zenon DEF Innermost, The

\* An array or a container is named through its element.
LEMMA ThroughElement ==
    ASSUME deps \in Dependencies, NEW t \in Indirects
    PROVE  /\ Nested(t) = {t} \cup Nested(Element(t))
           /\ Visited(t) = {t} \cup Visited(Element(t))
           /\ Innermost(t) = Innermost(Element(t))
<1> DEFINE u == Element(t)
<1>1. t \in Type /\ u \in Type /\ deps[t] = {u}
  BY Elements, Zenon DEF Indirects
<1> HIDE DEF u
<1>2. Nested(t) \subseteq {t} \cup Nested(u)
  <2> DEFINE D == {t} \cup Nested(u)
  <2>1. D \in SUBSET Indirects /\ {t} \cap Indirects \subseteq D
    BY <1>1, NestedIs, Zenon
  <2>2. Closed(D)
    BY <1>1, NestedIs, Zenon DEF Closed
  <2> QED BY <1>1, <2>1, <2>2, NestedIs
<1>3. t \in Nested(t)
  BY <1>1, NestedIs, Zenon
<1>4. Nested(u) \subseteq Nested(t)
  <2>1. {u} \cap Indirects \subseteq Nested(t)
    BY <1>1, <1>3, NestedIs, Zenon DEF Closed
  <2>2. Nested(t) \in SUBSET Indirects /\ Closed(Nested(t))
    BY <1>1, NestedIs, Zenon
  <2> QED BY <1>1, <2>1, <2>2, NestedIs, Zenon
<1>5. Nested(t) = {t} \cup Nested(u)
  BY <1>2, <1>3, <1>4, Zenon
<1>6. Visited(t) = {t} \cup Visited(u)
  BY <1>1, <1>5, Zenon DEF Visited
<1>7. Visited(t) \ Indirects = Visited(u) \ Indirects
  BY <1>6, Zenon
<1> QED BY <1>5, <1>6, <1>7, Zenon DEF Innermost, u

\* The text for an array looks for a declaration where its element has it.
LEMMA DenotedNamespace ==
    ASSUME deps \in Dependencies, NEW t \in Type
    PROVE  Denoted(t) \in Type /\ TargetNamespace(t) = TargetNamespace(Denoted(t))
<1>1. CASE Category[t] = "array"
  <2> DEFINE u == Element(t)
  <2>1. /\ t \in Indirects /\ Denoted(t) = u /\ u \in Type
        /\ Nested(t) = {t} \cup Nested(u) /\ Innermost(t) = Innermost(u)
    BY <1>1, Elements, ThroughElement, Zenon DEF Indirects, Denoted
  <2> HIDE DEF u
  <2>2. (\E d \in Nested(t) : Category[d] = "container")
          <=> (\E d \in Nested(u) : Category[d] = "container")
    BY <1>1, <2>1, Zenon
  <2> QED BY <2>1, <2>2, Zenon DEF TargetNamespace
<1>2. CASE Category[t] # "array"
  BY <1>2, Zenon DEF Denoted
<1> QED BY <1>1, <1>2, Zenon

\* The namespace of a type that is neither an array nor a container.
LEMMA PlainNamespace ==
    ASSUME NEW t \in Type \ Indirects
    PROVE  TargetNamespace(t) = IF Category[t] \in {"compound", "enum"}
                                THEN getIDLAbsoluteNamespace(Namespace[t]) ELSE Language
BY NotIndirect, Zenon DEF TargetNamespace

\* A namespace of the registry becomes one of the IDL file.
LEMMA AbsoluteNamespace ==
    ASSUME config \in Configs, NEW ns \in Seq(Token)
    PROVE  getIDLAbsoluteNamespace(ns) \in Seq(Token)
<1>1. config.prefix \in Seq(Token) /\ config.suffix \in Seq(Token)
  BY IDLAssumption, Zenon
<1>2. config.prefix \o ns \in Seq(Token)
  BY <1>1
<1> QED BY <1>1, <1>2 DEF getIDLAbsoluteNamespace

\* A type that is not in a cycle of dependencies has an innermost element, so that
\* what is declared under its own name has a namespace.
LEMMA DeclaredNamespace ==
    ASSUME deps \in Dependencies, config \in Configs, NEW t \in Type,
           Category[t] \in {"compound", "enum", "container"},
           \A S \in SUBSET Type : Cyclic(S) => t \notin S
    PROVE  /\ \E ns \in Seq(Token) : TargetNamespace(t) = getIDLAbsoluteNamespace(ns)
           /\ TargetNamespace(t) \in Seq(Token)
<1> SUFFICES \E ns \in Seq(Token) : TargetNamespace(t) = getIDLAbsoluteNamespace(ns)
  BY AbsoluteNamespace, Zenon
<1>1. CASE t \notin Indirects
  <2>1. Namespace[t] \in Seq(Token) /\ Category[t] \in {"compound", "enum"}
    BY <1>1, IDLAssumption, Zenon DEF Indirects, Entry
  <2> QED BY <1>1, <2>1, PlainNamespace, Zenon
<1>2. CASE t \in Indirects
  <2>1. Visited(t) \ Indirects # {}
    <3> SUFFICES ASSUME Visited(t) \subseteq Indirects PROVE FALSE
      BY Zenon
    <3>1. Nested(t) \in SUBSET Type /\ t \in Nested(t)
      BY <1>2, NestedIs, Zenon DEF Indirects
    <3>2. ASSUME NEW d \in Nested(t) PROVE deps[d] \cap Nested(t) # {}
      <4>1. deps[d] = {Element(d)} /\ Element(d) \in Visited(t)
        BY NestedIs, Elements DEF Visited
      <4> QED BY <4>1, NestedIs DEF Closed
    <3> QED BY <3>1, <3>2, Zenon DEF Cyclic
  <2>2. Innermost(t) \in Visited(t) \ Indirects
    BY <2>1, Zenon DEF Innermost, The
  <2>3. Visited(t) \subseteq Type
    BY Elements, NestedIs DEF Visited, Indirects
  <2>4. Category[t] = "container" /\ t \in Nested(t)
    BY <1>2, NestedIs, Zenon DEF Indirects
  <2>5. Innermost(t) \in Entry
    BY <2>2, <2>3, Zenon DEF Entry
  <2>6. Namespace[Innermost(t)] \in Seq(Token)
    BY <2>5, IDLAssumption, Zenon
  <2>7. <<>> \in Seq(Token)
    OBVIOUS
  <2> QED BY <2>4, <2>6, <2>7, Zenon DEF TargetNamespace
<1> QED BY <1>1, <1>2, Zenon

-----------------------------------------------------------------------------
(* The stream *)

\* The positions in what is written after n declarations.
LEMMA Positions ==
    ASSUME NEW n \in Nat, NEW m \in Nat
    PROVE  /\ \A j \in 1..(n + m) : j \in 1..n \/ \E i \in 1..m : j = n + i
           /\ 1..n \subseteq 1..(n + m)
           /\ \A i \in 1..m : n + i \in 1..(n + m) /\ n + 1 <= n + i
           /\ n + 1 \in 1..(n + 1) /\ n + m + 1 \in Nat /\ n + 1 <= n + m + 1
           /\ \A j \in 1..(n + m) : j \in Nat /\ j <= j
           /\ 1..n \subseteq 1..(n + 1)
<1>1. ASSUME NEW j \in 1..(n + m), j \notin 1..n PROVE \E i \in 1..m : j = n + i
  <2>1. j - n \in 1..m /\ j = n + (j - n)
    BY <1>1
  <2> QED BY <2>1, Zenon
<1>2. /\ 1..n \subseteq 1..(n + m)
      /\ \A i \in 1..m : n + i \in 1..(n + m) /\ n + 1 <= n + i
      /\ n + 1 \in 1..(n + 1) /\ n + m + 1 \in Nat /\ n + 1 <= n + m + 1
      /\ \A j \in 1..(n + m) : j \in Nat /\ j <= j
      /\ 1..n \subseteq 1..(n + 1)
  OBVIOUS
<1> QED BY <1>1, <1>2, Zenon

\* Closing modules that are open and not empty.
LEMMA Closes ==
    ASSUME NEW st \in Streams, NEW levels \in Nat, levels <= Len(st.modules)
    PROVE  closeNamespaces(st, levels)
             = [m_namespace |-> st.m_namespace, modules |-> SubSeq(st.modules, 1, Len(st.modules) - levels),
                fresh |-> 0, malformed |-> FALSE, stream |-> st.stream]
<1> DEFINE ns == st.m_namespace
           old == st.modules
           malformed == st.malformed \/ levels > Len(old) \/ (levels > 0 /\ st.fresh > 0)
           fresh == IF levels > st.fresh THEN 0 ELSE st.fresh - levels
           modules == SubSeq(old, 1, Len(old) - levels)
<1>1. PICK written, no : written = st.stream /\ no = FALSE
  BY Zenon
<1>2. /\ st = [m_namespace |-> ns, modules |-> old, fresh |-> 0, malformed |-> no, stream |-> written]
      /\ st.fresh = 0 /\ st.malformed = no
  BY <1>1, Zenon DEF Streams
<1>3. Len(old) \in Nat
  BY DEF Streams
<1>4. fresh = 0
  BY <1>2
<1>5. malformed = no
  <2>1. ~(levels > Len(old)) /\ ~(st.fresh > 0)
    BY <1>2, <1>3
  <2> QED BY <1>1, <1>2, <2>1, Zenon
<1>6. closeNamespaces(st, levels) = [st EXCEPT !.modules = modules, !.malformed = malformed, !.fresh = fresh]
  BY Zenon DEF closeNamespaces
<1> HIDE DEF ns, old, malformed, fresh, modules
<1>7. closeNamespaces(st, levels)
        = [m_namespace |-> ns, modules |-> modules, fresh |-> 0, malformed |-> no, stream |-> written]
  BY <1>2, <1>4, <1>5, <1>6, Zenon
<1> QED BY <1>1, <1>7, Zenon DEF ns, old, modules

\* The declarations that the exporter makes up.
LEMMA DeclarationTyped ==
    ASSUME NEW e \in Entry, NEW id \in Identifiers, NEW refs \in SUBSET References(Type)
    PROVE  /\ Declaration(e, id, refs) \in Declarations
           /\ (Declaration(e, id, refs)).entry = e /\ (Declaration(e, id, refs)).refs = refs
           /\ \A ns : [Declaration(e, id, refs) EXCEPT !.modules = ns]
                        = [entry |-> e, modules |-> ns, id |-> id, refs |-> refs]
<1>1. <<>> \in Seq(Token)
  OBVIOUS
<1> QED BY <1>1 DEF Declaration, Declarations

\* The declarations come after what was in the stream, in the modules of ns.
Follow(decls, ns, st, result) ==
    /\ result \in Streams /\ result.modules = ns /\ result.m_namespace = ns
    /\ Len(result.stream) = Len(st.stream) + Len(decls)
    /\ \A i \in 1..Len(st.stream) : result.stream[i] = st.stream[i]
    /\ \A i \in 1..Len(decls) : result.stream[Len(st.stream) + i] = [decls[i] EXCEPT !.modules = ns]

\* What is written until the end does so (lemma WritesFollow of IDLExportProofs).
StreamWrites ==
    ~Finished => \A ns \in Seq(Token), decls \in Seq(Declarations) :
        Follow(decls, ns, idl, Write(adaptNamespace(idl, ns), decls))

-----------------------------------------------------------------------------
(* What a step leaves alone *)

\* The registry and the configuration do not change, and the names do not either.
LEMMA SameNames ==
    ASSUME deps' = deps, config' = config
    PROVE  /\ \A t : Visitable(t)' <=> Visitable(t)
           /\ \A t : TargetNamespace(t)' = TargetNamespace(t)
           /\ \A t : Identifier(t)' = Identifier(t)
           /\ \A ns : getIDLAbsoluteNamespace(ns)' = getIDLAbsoluteNamespace(ns)
           /\ \A t : Denoted(t)' = Denoted(t)
           /\ Declarations' = Declarations /\ Streams' = Streams
<1>1. \A t : Element(t)' = Element(t)
  BY Zenon DEF Element
<1>2. \A D : Closed(D)' <=> Closed(D)
  BY Zenon DEF Closed
<1>3. \A t : Nested(t)' = Nested(t)
  BY <1>2, Zenon DEF Nested
<1>4. \A t : Visited(t)' = Visited(t)
  BY <1>3, Zenon DEF Visited
<1>5. \A t : Innermost(t)' = Innermost(t)
  BY <1>4, Zenon DEF Innermost
<1>6. \A ns : getIDLAbsoluteNamespace(ns)' = getIDLAbsoluteNamespace(ns)
  BY Zenon DEF getIDLAbsoluteNamespace
<1>7. \A t : TargetNamespace(t)' = TargetNamespace(t)
  BY <1>3, <1>5, <1>6, Zenon DEF TargetNamespace
<1>8. \A t : OwnIdentifier(t)' = OwnIdentifier(t)
  BY <1>1, Zenon DEF OwnIdentifier
<1>9. \A t : Identifier(t)' = Identifier(t)
  BY <1>1, <1>8, Zenon DEF Identifier
<1>10. \A t : Visitable(t)' <=> Visitable(t)
  <2>1. \A t : Nameable(t)' <=> Nameable(t)
    BY <1>1, Zenon DEF Nameable
  <2> QED BY <1>4, <2>1, Zenon DEF Visitable
<1>11. \A t : getIDLAbsolute(t)' = getIDLAbsolute(t)
  BY <1>7, <1>9, Zenon DEF getIDLAbsolute
<1>12. Declarations' = Declarations
  <2>1. Identifiers' = Identifiers
    BY <1>9, Zenon DEF Identifiers
  <2>2. References(Type)' = References(Type)
    BY <1>11, Zenon DEF References
  <2> QED BY <2>1, <2>2, Zenon DEF Declarations
<1>13. Streams' = Streams
  BY <1>12, Zenon DEF Streams
<1> QED BY <1>1, <1>6, <1>7, <1>9, <1>10, <1>12, <1>13, Zenon DEF Denoted

\* What the configuration says of an entry does not change.
LEMMA SameConfig ==
    ASSUME deps' = deps, config' = config
    PROVE  /\ \A e : Selected(e)' <=> Selected(e)
           /\ \A e : Blob(e)' <=> Blob(e)
           /\ \A t : Ignored(t)' <=> Ignored(t)
           /\ \A a : AliasWritten(a)' <=> AliasWritten(a)
           /\ \A t : checkType(t)' <=> checkType(t)
           /\ \A e : HomeOf(e)' = HomeOf(e)
           /\ \A t : Misnamed(t)' <=> Misnamed(t)
<1>1. \A e : (Selected(e)' <=> Selected(e)) /\ (Blob(e)' <=> Blob(e))
  BY Zenon DEF Selected, Blob
<1>2. \A t : Ignored(t)' <=> Ignored(t)
  BY Zenon DEF Ignored
<1>3. \A a : AliasWritten(a)' <=> AliasWritten(a)
  BY Zenon DEF AliasWritten
<1>4. \A t : checkType(t)' <=> checkType(t)
  BY Zenon DEF checkType, Element
<1>5. \A e : HomeOf(e)' = HomeOf(e)
  BY <1>1, SameNames, Zenon DEF HomeOf
<1>6. \A t : Misnamed(t)' <=> Misnamed(t)
  BY <1>1, SameNames DEF Misnamed
<1> QED BY <1>1, <1>2, <1>3, <1>4, <1>5, <1>6, Zenon

\* More reserved names do not make an entry impossible to write.
LEMMA SupportedStays ==
    ASSUME deps' = deps, config' = config, m_exported_typedefs \subseteq m_exported_typedefs'
    PROVE  /\ \A a : Reserved(a)' = {} => Reserved(a) = {}
           /\ \A e : Supported(e) => Supported(e)'
           /\ m_exported_typedefs' = m_exported_typedefs => \A e : Supported(e)' => Supported(e)
<1>1. \A a : Reserved(a)' = {} => Reserved(a) = {}
  BY Zenon DEF Reserved
<1>2. \A T : Writable(T)' <=> Writable(T)
  <2>1. \A T, D : Spelled(T, D)' <=> Spelled(T, D)
    BY Zenon DEF Spelled
  <2> QED BY <2>1, Zenon DEF Writable
<1>3. ASSUME NEW e, Supported(e) PROVE Supported(e)'
  <2>1. CASE e \in Type
    BY <1>2, <1>3, <2>1, SameConfig, Zenon DEF Supported
  <2>2. CASE e \notin Type
    BY <1>1, <1>2, <1>3, <2>2, SameConfig, Zenon DEF Supported, Tagged, Marked, Spaced
  <2> QED BY <2>1, <2>2, Zenon
<1>4. ASSUME m_exported_typedefs' = m_exported_typedefs, NEW e, Supported(e)' PROVE Supported(e)
  <2>1. \A a : Reserved(a)' = Reserved(a)
    BY <1>4, Zenon DEF Reserved
  <2>2. CASE e \in Type
    BY <1>2, <1>4, <2>2, SameConfig, Zenon DEF Supported
  <2>3. CASE e \notin Type
    BY <1>2, <1>4, <2>1, <2>3, SameConfig, Zenon DEF Supported, Tagged, Marked, Spaced
  <2> QED BY <2>2, <2>3, Zenon
<1> QED BY <1>1, <1>3, <1>4, Zenon

\* What a name refers to remains in the stream when declarations follow.
LEMMA ResolvedStays ==
    ASSUME deps' = deps, config' = config, persistent' = persistent,
           NEW n \in Nat, \A i \in 1..n : idl'.stream[i] = idl.stream[i],
           NEW r, NEW i \in 1..(n + 1), NEW k \in Nat, i <= k, Resolved(r, i)
    PROVE  Resolved(r, k)'
<1>1. CASE \E j \in 1..(i - 1) : idl.stream[j].modules = r.ns /\ idl.stream[j].id = r.id
  <2>1. PICK j \in 1..(i - 1) : idl.stream[j].modules = r.ns /\ idl.stream[j].id = r.id
    BY <1>1, Zenon
  <2>2. j \in 1..n /\ j \in 1..(k - 1)
    BY <2>1
  <2>3. idl'.stream[j].modules = r.ns /\ idl'.stream[j].id = r.id
    BY <2>1, <2>2, Zenon
  <2> QED BY <2>2, <2>3, Zenon DEF Resolved
<1>2. CASE r.ns = Language
  BY <1>2, Zenon DEF Resolved
<1>3. CASE ~Selected(Denoted(r.of)) \/ Denoted(r.of) \notin persistent \/ Misnamed(r.of)
  <2>1. (~Selected(Denoted(r.of)) \/ Denoted(r.of) \notin persistent \/ Misnamed(r.of))'
    BY <1>3, SameNames, SameConfig, Zenon
  <2> QED BY <2>1, Zenon DEF Resolved
<1> QED BY <1>1, <1>2, <1>3, Zenon DEF Resolved

-----------------------------------------------------------------------------
(* The calls of save() *)

\* What is known of an entry when save() is called on it.
LEMMA HandedFacts ==
    ASSUME ExportInv, StreamInv, NEW e \in Entry, Handed(e)
    PROVE  /\ e \in free_types /\ e \in persistent /\ ~Emitted(e)
           /\ Requires(e) \subseteq saved_types
           /\ \A S \in SUBSET Type : Cyclic(S) => e \notin S
           /\ typedefs_it = 1 /\ ~Finished
<1> USE DEF ExportInv
<1>1. e \in free_types /\ e \in persistent /\ pc # "done"
  BY Zenon DEF Handed, TypeOK, ControlInv, IsFirst
<1>2. ~Emitted(e) /\ \A S \in SUBSET Type : Cyclic(S) => e \notin S
  BY <1>1, Zenon DEF EntryInv
<1>3. Requires(e) \subseteq saved_types
  BY <1>1, Zenon DEF SavedInv
<1>4. typedefs_it = 1
  BY <1>1, Zenon DEF StreamInv
<1>5. 1 # EndOfFile
  BY NamespacesKnown
<1> QED BY <1>1, <1>2, <1>3, <1>4, <1>5, Zenon DEF Finished

\* What a call of save() that returns changes for Exporter::save().
LEMMA ReturnsFacts ==
    ASSUME ExportInv, StreamInv, NEW e \in Entry, Handed(e), NEW saved, Returns(e, saved)
    PROVE  /\ deps' = deps /\ persistent' = persistent
           /\ \A f : Emitted(f)' <=> Emitted(f) \/ f = e
<1>1. output' = Append(output, e) /\ UNCHANGED registry
  BY HandedFacts, Zenon DEF Returns, SaveOne, Drain
<1>2. \A f : Emitted(f)' <=> Emitted(f) \/ f = e
  BY <1>1, HandedFacts, AppendInv, Zenon DEF ExportInv
<1> QED BY <1>1, <1>2, Zenon DEF registry

\* A type that has been saved is one that the text of the next declaration can
\* refer to.
LEMMA SavedResolved ==
    ASSUME ExportInv, StreamInv, TypesInv, NEW u \in saved_types
    PROVE  Resolved(getIDLAbsolute(u), Len(idl.stream) + 1)
<1> DEFINE d == Denoted(u)
           r == getIDLAbsolute(u)
           n == Len(idl.stream)
<1>1. deps \in Dependencies /\ u \in Type /\ idl.stream \in Seq(Declarations) /\ n \in Nat
  BY DEF ExportInv, TypeOK, StreamInv, Streams
<1>2. r.of = u /\ r.ns = TargetNamespace(u) /\ r.id = Identifier(u)
  BY Zenon DEF getIDLAbsolute
<1>3. d \in Type /\ TargetNamespace(u) = TargetNamespace(d)
  BY <1>1, DenotedNamespace, Zenon
<1>4. d \in saved_types
  <2>1. CASE Category[u] = "array"
    <3>1. u \in Indirects /\ d = Element(u) /\ d \in deps[u]
      BY <1>1, <2>1, Elements DEF Indirects, Denoted
    <3> QED BY <3>1, Zenon DEF ExportInv, SavedInv
  <2>2. CASE Category[u] # "array"
    BY <2>2, Zenon DEF Denoted
  <2> QED BY <2>1, <2>2, Zenon
<1> SUFFICES ASSUME Selected(d), d \in persistent, ~Misnamed(u), TargetNamespace(d) # Language
             PROVE  \E j \in 1..((n + 1) - 1) : idl.stream[j].modules = r.ns /\ idl.stream[j].id = r.id
  BY <1>2, <1>3, Zenon DEF Resolved
<1>5. /\ Identifier(u) = Identifier(d)
      /\ Blob(d) => d \notin Indirects /\ normalizeIDLName(Basename[d]) = Basename[d]
  BY Zenon DEF Misnamed
<1>6. Emitted(d)
  BY <1>4, Zenon DEF ExportInv, SavedInv
<1> HIDE DEF d, r
<1>7. ~Ignored(d)
  BY <1>3, PlainNamespace, Zenon DEF Ignored, Indirects
<1>8. PICK i \in DOMAIN idl.stream : DeclaredAt(d, i)
  BY <1>3, <1>6, <1>7, Zenon DEF TypesInv, Written
<1>9. idl.stream[i].modules = TargetNamespace(d) /\ idl.stream[i].id = Identifier(d)
  <2>1. CASE Blob(d)
    <3>1. Category[d] \in {"compound", "enum"} /\ TargetNamespace(d) = getIDLAbsoluteNamespace(Namespace[d])
      BY <1>3, <1>5, <2>1, PlainNamespace, Zenon
    <3>2. Identifier(d) = normalizeIDLName(Basename[d])
      BY <3>1, Zenon DEF Identifier, OwnIdentifier
    <3> QED BY <1>5, <1>8, <2>1, <3>1, <3>2, Zenon DEF DeclaredAt, HomeOf
  <2>2. CASE ~Blob(d)
    BY <1>3, <1>8, <2>2, Zenon DEF DeclaredAt, HomeOf
  <2> QED BY <2>1, <2>2, Zenon
<1>10. i \in 1..((n + 1) - 1)
  BY <1>1, <1>8
<1> QED BY <1>2, <1>3, <1>5, <1>9, <1>10, Zenon

-----------------------------------------------------------------------------
(* What can be written in IDL *)

\* What the visitor can name is what can be spelled out.
LEMMA VisitableWritable ==
    ASSUME deps \in Dependencies, NEW T \in SUBSET Type, NEW F \in SUBSET Type,
           \A f \in F : Visitable(f),
           \A t \in T : t \in F \/ (deps[t] \subseteq F
                              /\ Category[t] \notin {"pointer", "null"} /\ (Category[t] = "opaque" => config.any)
                              /\ (Category[t] = "array" => Category[Element(t)] # "array"))
    PROVE  Writable(T)
<1> DEFINE D == (T \cap Indirects) \cup UNION {Nested(f) : f \in F}
<1>1. D \in SUBSET Indirects /\ T \cap Indirects \subseteq D
  BY NestedIs
<1>2. ASSUME NEW d \in D PROVE deps[d] \cap Indirects \subseteq D
  <2>1. CASE d \in F \/ \E f \in F : d \in Nested(f)
    <3>1. PICK f \in F : d \in Nested(f)
      BY <1>1, <2>1, NestedIs, Zenon
    <3> QED BY <3>1, NestedIs DEF Closed
  <2>2. CASE deps[d] \subseteq F
    BY <2>2, NestedIs
  <2> QED BY <2>1, <2>2, Zenon
<1>3. \A f \in F : \A d \in Nested(f) : f \in Visited(f) /\ d \in Visited(f) /\ deps[d] \subseteq Visited(f)
  BY NestedIs DEF Visited
<1>4. ASSUME NEW d \in D, Category[d] = "array", NEW u \in deps[d] PROVE Category[u] # "array"
  <2>1. deps[d] = {Element(d)}
    BY <1>1, Elements, Zenon
  <2>2. Category[Element(d)] # "array"
    BY <1>3, <1>4 DEF Visitable, Nameable, Visited
  <2> QED BY <2>1, <2>2, <1>4, Zenon
<1>5. ASSUME NEW u \in T \cup UNION {deps[d] : d \in D}
      PROVE  Category[u] \notin {"pointer", "null"} /\ (Category[u] = "opaque" => config.any)
  <2>1. ASSUME NEW f \in F, u \in Visited(f)
        PROVE  Category[u] \notin {"pointer", "null"} /\ (Category[u] = "opaque" => config.any)
    BY <2>1, Zenon DEF Visitable, Nameable
  <2>2. \A f \in F : f \in Visited(f)
    BY Zenon DEF Visited
  <2>3. CASE u \in T
    BY <2>1, <2>2, <2>3, Zenon
  <2>4. CASE \E d \in D : u \in deps[d]
    <3>1. PICK d \in D : u \in deps[d]
      BY <2>4, Zenon
    <3>2. CASE \E f \in F : d \in Nested(f)
      BY <1>3, <2>1, <3>1, <3>2, Zenon
    <3>3. CASE d \in T /\ d \in F
      <4>1. d \in Nested(d)
        BY <1>1, <3>3, NestedIs, Zenon
      <4> QED BY <3>2, <3>3, <4>1, Zenon
    <3>4. CASE d \in T /\ deps[d] \subseteq F
      BY <2>1, <2>2, <3>1, <3>4, Zenon
    <3> QED BY <3>1, <3>2, <3>3, <3>4, Zenon
  <2> QED BY <2>3, <2>4, Zenon
<1>6. Spelled(T, D)
  BY <1>1, <1>2, <1>4, <1>5, Zenon DEF Spelled
<1> QED BY <1>1, <1>6, Zenon DEF Writable

\* Conversely what can be spelled out can be named.
LEMMA WritableVisitable ==
    ASSUME deps \in Dependencies, NEW T \in SUBSET Type, NEW D \in SUBSET Indirects, Spelled(T, D),
           NEW f \in T \cup UNION {deps[d] : d \in D}
    PROVE  Visitable(f)
<1> SUFFICES ASSUME NEW u \in Visited(f) PROVE Nameable(u)
  BY Zenon DEF Visitable
<1>1. f \in Type
  BY Elements DEF Indirects
<1>2. {f} \cap Indirects \subseteq D /\ Closed(D)
  BY Zenon DEF Spelled, Closed
<1>3. Nested(f) \subseteq D
  BY <1>1, <1>2, NestedIs, Zenon
<1>4. u \in T \cup UNION {deps[d] : d \in D}
  BY <1>3, Zenon DEF Visited
<1>5. u \in Type
  BY <1>4, Elements DEF Indirects
<1>6. Category[u] \notin {"pointer", "null"} /\ (Category[u] = "opaque" => config.any)
  BY <1>4 DEF Spelled
<1>7. ASSUME Category[u] = "array" PROVE Category[Element(u)] # "array"
  <2>1. u \in Indirects /\ Element(u) \in deps[u]
    BY <1>5, <1>7, Elements DEF Indirects
  <2>2. u \in D
    BY <1>4, <2>1 DEF Spelled
  <2> QED BY <1>7, <2>1, <2>2 DEF Spelled
<1> QED BY <1>6, <1>7, Zenon DEF Nameable

\* A type that save() writes or leaves out can be expressed in IDL.
LEMMA TypeSupported ==
    ASSUME deps \in Dependencies, NEW t \in Type, Blob(t) \/ Ignored(t) \/ ~TypeRefused(t)
    PROVE  Supported(t)
<1> SUFFICES ASSUME ~Blob(t), Category[t] # "string" PROVE Category[t] # "array" /\ Writable({t} \cup deps[t])
  BY DEF Supported
<1>1. Category[t] \in {"numeric", "enum", "compound", "container", "string", "array", "pointer", "opaque", "null"}
  BY IDLAssumption, Zenon
<1>2. /\ Category[t] \in {"numeric", "enum", "compound", "container", "opaque"}
      /\ Category[t] = "opaque" => config.any
      /\ Category[t] \in {"compound", "container"} => \A f \in deps[t] : Visitable(f)
  BY <1>1 DEF Ignored, TypeRefused
<1>3. \A f \in deps[t] : Visitable(f)
  BY <1>2, Elements
<1>4. deps[t] \in SUBSET Type /\ {t} \cup deps[t] \in SUBSET Type
  BY Elements
<1>5. Writable({t} \cup deps[t])
  BY <1>2, <1>3, <1>4, VisitableWritable
<1> QED BY <1>2, <1>5

\* A type on which save() throws cannot.
LEMMA RefusedType ==
    ASSUME deps \in Dependencies, NEW t \in Type, ~Blob(t), TypeRefused(t)
    PROVE  ~Supported(t)
<1> SUFFICES ASSUME Writable({t} \cup deps[t]), Category[t] # "array" PROVE FALSE
  BY DEF Supported, TypeRefused
<1>1. PICK D \in SUBSET Indirects : Spelled({t} \cup deps[t], D)
  BY DEF Writable
<1>2. {t} \cup deps[t] \in SUBSET Type
  BY Elements
<1>3. \A f \in {t} \cup deps[t] : Visitable(f)
  BY <1>1, <1>2, WritableVisitable
<1>4. Nameable(t)
  BY <1>3 DEF Visitable, Visited
<1> QED BY <1>3, <1>4 DEF TypeRefused, Nameable

\* An alias that save() handles without throwing can be expressed in IDL.
LEMMA AliasSupported ==
    ASSUME deps \in Dependencies, NEW a \in Alias, Tagged(a) \/ ~AliasRefused(a)
    PROVE  Supported(a)
<1>1. a \notin Type /\ Target[a] \in Type
  BY EntryAssumption
<1> SUFFICES ASSUME ~Tagged(a), Reserved(a) = {}, ~Marked(a), ~AliasRefused(a),
                    Category[Target[a]] # "opaque",
                    ~(Spaced(a) /\ Target[a] \notin Indirects /\ Category[Target[a]] # "pointer")
             PROVE  Writable({Target[a]})
  BY <1>1, Zenon DEF Supported, AliasRefused
<1>2. checkType(Target[a]) /\ \A t \in AliasRefs(a) : Visitable(t)
  BY DEF AliasRefused
<1>3. CASE Target[a] \in Indirects
  <2>1. AliasRefs(a) = deps[Target[a]]
    BY <1>3 DEF AliasRefs, Indirects
  <2>2. deps[Target[a]] \in SUBSET Type /\ {Target[a]} \in SUBSET Type
    BY <1>1, Elements
  <2>3. /\ Category[Target[a]] \in {"array", "container"}
        /\ Category[Target[a]] = "array" => Category[Element(Target[a])] # "array"
    BY <1>2, <1>3 DEF checkType, Indirects
  <2> QED BY <1>2, <2>1, <2>2, <2>3, VisitableWritable, Zenon
<1>4. CASE Target[a] \notin Indirects
  <2>1. ~Spaced(a)
    BY <1>2, <1>4 DEF checkType
  <2>2. AliasRefs(a) = {Target[a]}
    BY <1>1, <1>4, <2>1 DEF AliasRefs, Indirects
  <2>3. Visitable(Target[a]) /\ {Target[a]} \in SUBSET Type
    BY <1>1, <1>2, <2>2
  <2> QED BY <2>3, VisitableWritable
<1> QED BY <1>3, <1>4

\* An alias on which save() throws cannot, or it has the name of a typedef.
LEMMA RefusedAlias ==
    ASSUME deps \in Dependencies, NEW a \in Alias, ~Tagged(a), AliasRefused(a), Reserved(a) = {}
    PROVE  ~Supported(a)
<1> DEFINE t == Target[a]
<1>1. a \notin Type /\ t \in Type
  BY EntryAssumption
<1>2. \/ ~checkType(t)
      \/ ~Marked(a) /\ \E u \in AliasRefs(a) : ~Visitable(u)
  BY DEF AliasRefused
<1>3. ~(Marked(a) /\ checkType(t))
  BY <1>2
<1>4. Category[t] # "opaque"
  BY <1>2 DEF checkType, AliasRefs
<1>5. ~(Spaced(a) /\ t \notin Indirects /\ Category[t] # "pointer")
  BY <1>1, <1>2, <1>4 DEF checkType, AliasRefs, Indirects
<1>6. ASSUME Writable({t}) PROVE FALSE
  <2>1. PICK D \in SUBSET Indirects : Spelled({t}, D)
    BY <1>6 DEF Writable
  <2>2. \A f \in {t} \cup UNION {deps[d] : d \in D} : Visitable(f)
    BY <1>1, <2>1, WritableVisitable, Zenon
  <2>3. t \in Indirects => t \in D /\ deps[t] = {Element(t)}
    BY <2>1, Elements DEF Spelled
  <2>4. \A u \in AliasRefs(a) : Visitable(u)
    BY <2>2, <2>3, <1>1 DEF AliasRefs, Indirects
  <2>5. Nameable(t) /\ (t \in Indirects => Nameable(Element(t)))
    BY <2>2, <2>3 DEF Visitable, Visited
  <2>6. checkType(t)
    BY <1>1, <2>5 DEF checkType, Nameable, Indirects
  <2> QED BY <1>2, <2>4, <2>6
<1> QED BY <1>1, <1>3, <1>4, <1>5, <1>6 DEF Supported
=============================================================================
