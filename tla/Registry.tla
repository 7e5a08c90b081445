------------------------------ MODULE Registry ------------------------------
(***************************************************************************)
(* The name tables of Typelib::Registry (typelib/registry.cc), with the    *)
(* type builder (typelib/typebuilder.cc) and the propagation of aliases to *)
(* derived types (Indirect::modifiedDependencyAliases in typemodel.cc).    *)
(*                                                                         *)
(* A name is a sequence of components.  An absolute name starts with the   *)
(* component "/", so that "/z/x" is <<"/", "z", "x">>, the namespace "/z/" *)
(* is <<"/", "z">> and the relative name "z/x" is <<"z", "x">>.  A map of  *)
(* the code is a total function here, with NoType where it has no entry.   *)
(*                                                                         *)
(* A call that throws leaves the registry as it was, so that it is a step  *)
(* that is not enabled.  alias() and add() recurse through                 *)
(* modifiedDependencyAliases(); each nested call is a step of its own      *)
(* (Propagate), and so is each level that the type builder adds            *)
(* (BuildStep).  No other operation may start before they are all done.    *)
(***************************************************************************)
EXTENDS Naturals, Sequences, FiniteSets

CONSTANTS
    Type,         \* the Type objects that may be handed to the registry
    NoType,       \* the null pointer
    TypeName,     \* [Type -> Name], Type::getName()
    Deps,         \* [Type -> SUBSET Type], Type::dependsOn()
    Kind,         \* the ways to derive a type: pointer, array of n, container
    NoKind,       \* the kind of a type that is not derived from another one
    KindOf,       \* [Type -> Kind \cup {NoKind}]
    Base,         \* [Type -> Type \cup {NoType}], Indirect::getIndirection()
    Derived,      \* [Kind -> [Name -> Name \cup {NoName}]], getIndirectTypeName()
    NoName,       \* a derived name that isValidTypename() rejects
    Name,         \* the absolute names considered
    RelName,      \* their relative names
    Namespace,    \* the namespaces considered
    Rank,         \* [component -> Nat], the order of strings on components
    AliasName,    \* the names given to alias() by its callers
    Import,       \* the namespaces given to importNamespace() by its callers
    BuildName,    \* the names given to build() by its callers
    Parsed        \* [Name -> [base : Name, mods : Seq(Kind)]], parseTypename()

ASSUME TypeAssumption ==
    /\ NoType \notin Type /\ NoName \notin Name /\ NoKind \notin Kind
    /\ TypeName \in [Type -> Name]
    /\ Deps \in [Type -> SUBSET Type]
    /\ KindOf \in [Type -> Kind \cup {NoKind}]
    /\ \A u \in Type : KindOf[u] # NoKind => Base[u] \in Deps[u]

ASSUME NameAssumption ==
    /\ Name \cap RelName = {}
    /\ AliasName \subseteq Name
    /\ BuildName \subseteq Name \cup RelName
    /\ <<"/">> \in Namespace
    /\ Namespace \cup Import \subseteq Seq(DOMAIN Rank) \ {<<>>}
    /\ RelName \subseteq Seq(DOMAIN Rank)
    /\ Derived \in [Kind -> [Name -> Name \cup {NoName}]]
    /\ Parsed \in [Name -> [base : Name, mods : Seq(Kind)]]

\* The constructors of Pointer, Array and Container name a type after the type
\* that it is derived from; a derived name tells how it was made and of what.
\* That nothing else is given such a name is up to the callers: no other type
\* and no alias.
ASSUME DerivedAssumption ==
    /\ \A u \in Type : KindOf[u] # NoKind =>
          TypeName[u] = Derived[KindOf[u]][TypeName[Base[u]]]
    /\ \A k1, k2 \in Kind, a1, a2 \in Name :
          Derived[k1][a1] = Derived[k2][a2] /\ Derived[k1][a1] # NoName
              => k1 = k2 /\ a1 = a2
    /\ \A u \in Type, k \in Kind, a \in Name :
          TypeName[u] = Derived[k][a] => KindOf[u] # NoKind
    /\ \A k \in Kind, a \in Name : Derived[k][a] \notin AliasName

VARIABLES
    m_global,     \* [Name -> Type \cup {NoType}]
    m_current,    \* [Name \cup RelName -> Type \cup {NoType}]
    m_namespace,  \* the default namespace
    owner,        \* who has to delete a Type object
    pending,      \* <<type, name>>: the nested alias() calls still to be made
    builder,      \* the TypeBuilder in use, NoBuild if there is none
    dropped,      \* history: names unbound by a caller, or not bound because a
                  \* nested alias() threw, since the last clear()
    orphaned      \* history: bound names, derived from one that removeAlias() took
                  \* away under them

vars == <<m_global, m_current, m_namespace, owner, pending, builder, dropped, orphaned>>

Key == Name \cup RelName
NoBuild == [goal |-> NoName, cur |-> NoType, mods |-> <<>>]
Builder == [goal : Name \cup {NoName}, cur : Type \cup {NoType}, mods : Seq(Kind)]

-----------------------------------------------------------------------------
(* Names *)

\* isInNamespace(name, ns, true)
isInNamespace(name, ns) == Len(ns) < Len(name) /\ SubSeq(name, 1, Len(ns)) = ns

\* The order of m_global; add() also uses it to arbitrate relative names.
nameSort(n1, n2) ==
    \/ isInNamespace(n2, n1)
    \/ \E i \in DOMAIN n1 \cap DOMAIN n2 :
          /\ SubSeq(n1, 1, i - 1) = SubSeq(n2, 1, i - 1)
          /\ Rank[n1[i]] < Rank[n2[i]]

\* The namespaces from "/" down to ns, in which relative names are looked up.
Enclosing(ns) == {SubSeq(ns, 1, i) : i \in 1..Len(ns)}

-----------------------------------------------------------------------------
(* What the maps become.  The type of name ns \o k has, in the namespace ns,  *)
(* the relative name k.                                                      *)

IsBound(g, n) == n \in Name /\ g[n] # NoType

\* importNamespace(ns, erase_existing)
importNamespace(g, cur, ns, erase_existing) ==
    [k \in Key |->
        IF k \in RelName /\ IsBound(g, ns \o k) /\ (erase_existing \/ cur[k] = NoType)
        THEN g[ns \o k]
        ELSE cur[k]]

\* updateCurrentNameMap(): absolute names, then every enclosing namespace in
\* turn, the deeper ones replacing what the others have put there.
updateCurrentNameMap(g, ns) ==
    [k \in Key |->
        LET binds == {p \in Enclosing(ns) : IsBound(g, p \o k)}
            deepest == {p \in binds : \A q \in binds : Len(q) =< Len(p)}
        IN  IF k \in Name THEN g[k]
            ELSE IF deepest # {} THEN g[(CHOOSE p \in deepest : TRUE) \o k]
            ELSE NoType]

\* The relative names of n that add() rebinds: the free ones, and those whose
\* type does not sort before n.
Rebound(cur, n) ==
    {k \in RelName :
        /\ \E ns \in Enclosing(m_namespace) : n = ns \o k
        /\ cur[k] = NoType \/ ~nameSort(TypeName[cur[k]], n)}

Registered == {t \in Type : m_global[TypeName[t]] = t}
Aliases(g, t) == {n \in Name : g[n] = t /\ n # TypeName[t]}

\* The nested alias() calls of modifiedDependencyAliases(), called on u.
modifiedDependencyAliases(g, u) ==
    IF KindOf[u] = NoKind THEN {}
    ELSE {<<u, Derived[KindOf[u]][a]>> : a \in Aliases(g, Base[u])}

\* Mutant: no nested call.
NotTriggered(g, t) == {}

\* The nested calls that alias() makes for the types that depend on t.
Triggered(g, t) ==
    UNION {modifiedDependencyAliases(g, u) :
             u \in {v \in Type : g[TypeName[v]] = v /\ t \in Deps[v]}}

\* Every registered type that depends on t, t included: the least set that the
\* queue of reverseDepends() can end with.
DependentClosed(t, types) ==
    {S \in SUBSET (types \cup {t}) :
        t \in S /\ \A u \in types : Deps[u] \cap S # {} => u \in S}

\* Mutant: only the types that refer to t directly.
DirectDependents(t) == {t} \cup {u \in Registered : t \in Deps[u]}

reverseDepends(t) ==
    LET closed == DependentClosed(t, Registered)
    IN  {u \in Registered \cup {t} : \A S \in closed : u \in S}

\* Mutant: the aliases stay.
WithoutOwnNames(m, gone) ==
    [k \in DOMAIN m |-> IF m[k] \in gone /\ k = TypeName[m[k]] THEN NoType ELSE m[k]]

\* A name map without the entries of some types.
Without(m, gone) == [k \in DOMAIN m |-> IF m[k] \in gone THEN NoType ELSE m[k]]

-----------------------------------------------------------------------------
(* Operations *)

Init ==
    /\ m_global = [n \in Name |-> NoType]
    /\ m_current = [k \in Key |-> NoType]
    /\ m_namespace = <<"/">>
    /\ owner = [t \in Type |-> "none"]
    /\ pending = {}
    /\ builder = NoBuild
    /\ dropped = {}
    /\ orphaned = {}

Idle == pending = {} /\ builder = NoBuild

\* Mutant: AlreadyDefined is not thrown.
OverwritingBind(n, t) ==
    /\ m_global' = [m_global EXCEPT ![n] = t]
    /\ m_current' = [k \in Key |-> IF k = n \/ k \in Rebound(m_current, n)
                                   THEN t ELSE m_current[k]]

\* add(name, type, persistent, source_id): AlreadyDefined is thrown when the
\* name denotes another type, and nothing is done when it denotes this one.
Bind(n, t) ==
    /\ m_current[n] \in {NoType, t}
    /\ IF m_current[n] = t
       THEN UNCHANGED <<m_global, m_current>>
       ELSE /\ m_global' = [m_global EXCEPT ![n] = IF @ = NoType THEN t ELSE @]
            /\ m_current' = [k \in Key |-> IF k = n \/ k \in Rebound(m_current, n)
                                           THEN t ELSE m_current[k]]

\* add(Type*): the derived aliases of the new type follow.  That its dependencies
\* are in the registry is an obligation of the callers.
AddType(t) ==
    /\ Deps[t] \subseteq Registered \cup {t}
    /\ Bind(TypeName[t], t)
    /\ owner' = [owner EXCEPT ![t] = "registry"]
    /\ pending' = modifiedDependencyAliases(m_global', t)
    /\ UNCHANGED <<m_namespace, dropped, orphaned>>

Add(t) == Idle /\ AddType(t) /\ UNCHANGED builder

\* alias(base, newname)
Alias(base, newname) ==
    /\ Idle
    /\ m_current[base] # NoType
    /\ Bind(newname, m_current[base])
    /\ pending' = Triggered(m_global', m_current[base])
    /\ UNCHANGED <<m_namespace, owner, builder, dropped, orphaned>>

\* alias() throws BadName in the middle of the nested calls: the calls still to
\* be made are not made, and what was done stays.
NestedThrow ==
    /\ pending' = {}
    /\ builder' = NoBuild
    /\ dropped' = dropped \cup {n \in Name : \E c \in pending : c[2] = n}
    /\ UNCHANGED <<m_global, m_current, m_namespace, owner, orphaned>>

\* Mutant: a call for a name that is known is made again and again.
PropagateAgain ==
    \E c \in pending :
        \/ c[2] = NoName /\ NestedThrow
        \/ c[2] # NoName /\ m_current[c[2]] # NoType /\ UNCHANGED vars
        \/ /\ c[2] # NoName /\ m_current[c[2]] = NoType
           /\ Bind(c[2], m_current[TypeName[c[1]]])
           /\ pending' = (pending \ {c}) \cup Triggered(m_global', c[1])
           /\ UNCHANGED <<m_namespace, owner, builder, dropped, orphaned>>

\* One alias() call nested in modifiedDependencyAliases(): nothing happens if
\* the derived name is known, whatever it denotes.
Propagate ==
    \E c \in pending :
        \/ c[2] = NoName /\ NestedThrow
        \/ /\ c[2] # NoName /\ m_current[c[2]] # NoType
           /\ pending' = pending \ {c}
           /\ UNCHANGED <<m_global, m_current, m_namespace, owner, builder, dropped, orphaned>>
        \/ /\ c[2] # NoName /\ m_current[c[2]] = NoType
           /\ Bind(c[2], m_current[TypeName[c[1]]])
           /\ pending' = (pending \ {c}) \cup Triggered(m_global', c[1])
           /\ UNCHANGED <<m_namespace, owner, builder, dropped, orphaned>>

getFullName(name) == IF name \in Name THEN name ELSE m_namespace \o name

\* Mutant: the first modifier is skipped.
BuildShort(name) ==
    /\ Idle
    /\ m_current[name] = NoType
    /\ LET full == getFullName(name) IN
        /\ full \in Name
        /\ m_current[Parsed[full].base] # NoType
        /\ builder' = [goal |-> full, cur |-> m_current[Parsed[full].base],
                       mods |-> Tail(Parsed[full].mods)]
    /\ UNCHANGED <<m_global, m_current, m_namespace, owner, pending, dropped, orphaned>>

\* build(name): known names are returned at once.  Otherwise the modifiers are
\* split off the full name and the derived types are made from the base type
\* upwards.
Build(name) ==
    /\ Idle
    /\ m_current[name] = NoType
    /\ LET full == getFullName(name) IN
        /\ full \in Name
        /\ m_current[Parsed[full].base] # NoType
        /\ builder' = [goal |-> full, cur |-> m_current[Parsed[full].base],
                       mods |-> Parsed[full].mods]
    /\ UNCHANGED <<m_global, m_current, m_namespace, owner, pending, dropped, orphaned>>

\* addPointer(1) or addArrayMajor(n): take what is registered under the derived
\* name, or create the type.  A name that is not valid (a pointer on an array)
\* makes add() throw: the levels below it stay.
BuildStep ==
    /\ pending = {}
    /\ builder.mods # <<>>
    /\ LET kind == Head(builder.mods)
           n == Derived[kind][TypeName[builder.cur]]
       IN  \/ /\ n = NoName
              /\ builder' = NoBuild
              /\ UNCHANGED <<m_global, m_current, m_namespace, owner, pending, dropped, orphaned>>
           \/ /\ n # NoName
              /\ m_current[n] # NoType
              /\ builder' = [builder EXCEPT !.cur = m_current[n], !.mods = Tail(@)]
              /\ UNCHANGED <<m_global, m_current, m_namespace, owner, pending, dropped, orphaned>>
           \/ /\ n # NoName
              /\ m_current[n] = NoType
              /\ \E u \in Type :
                    /\ TypeName[u] = n /\ KindOf[u] = kind /\ Base[u] = builder.cur
                    /\ AddType(u)
                    /\ builder' = [builder EXCEPT !.cur = u, !.mods = Tail(@)]

BuildDone ==
    /\ builder # NoBuild /\ builder.mods = <<>> /\ pending = {}
    /\ builder' = NoBuild
    /\ UNCHANGED <<m_global, m_current, m_namespace, owner, pending, dropped, orphaned>>

\* The names of a set that are bound after the step.
StillBound(S) == {n \in S \cap Name : m_global'[n] # NoType}

\* remove(type): the types go to the caller, their names and aliases go.
Remove(t) ==
    /\ Idle
    /\ t \in Registered
    /\ LET gone == reverseDepends(t) IN
        /\ m_global' = Without(m_global, gone)
        /\ m_current' = Without(m_current, gone)
        /\ owner' = [u \in Type |-> IF u \in gone THEN "caller" ELSE owner[u]]
        /\ dropped' = dropped \cup {n \in Name : m_global[n] \in gone}
        /\ orphaned' = StillBound(orphaned)
    /\ UNCHANGED <<m_namespace, pending, builder>>

\* The caller of remove() deletes the types that it was given.
CallerDelete ==
    /\ Idle
    /\ \E t \in Type : owner[t] = "caller"
    /\ owner' = [t \in Type |-> IF owner[t] = "caller" THEN "none" ELSE owner[t]]
    /\ UNCHANGED <<m_global, m_current, m_namespace, pending, builder, dropped, orphaned>>

\* Mutant: m_current is not recomputed.
removeGlobalAlias(n) ==
    /\ Idle
    /\ m_global[n] # NoType /\ TypeName[m_global[n]] # n
    /\ m_global' = [m_global EXCEPT ![n] = NoType]
    /\ m_current' = [m_current EXCEPT ![n] = NoType]
    /\ dropped' = dropped \cup {n}
    /\ orphaned' = StillBound(orphaned \cup {Derived[kind][n] : kind \in Kind})
    /\ UNCHANGED <<m_namespace, owner, pending, builder>>

removeAlias(n) ==
    /\ Idle
    /\ m_global[n] # NoType /\ TypeName[m_global[n]] # n
    /\ m_global' = [m_global EXCEPT ![n] = NoType]
    /\ m_current' = updateCurrentNameMap(m_global', m_namespace)
    /\ dropped' = dropped \cup {n}
    /\ orphaned' = StillBound(orphaned \cup {Derived[kind][n] : kind \in Kind})
    /\ UNCHANGED <<m_namespace, owner, pending, builder>>

IsAlias(n) == m_global[n] # NoType /\ TypeName[m_global[n]] # n

clearAliases ==
    /\ Idle
    /\ m_global' = [n \in Name |-> IF IsAlias(n) THEN NoType ELSE m_global[n]]
    /\ m_current' = updateCurrentNameMap(m_global', m_namespace)
    /\ dropped' = dropped \cup {n \in Name : IsAlias(n)}
    /\ orphaned' = StillBound(orphaned)
    /\ UNCHANGED <<m_namespace, owner, pending, builder>>

setDefaultNamespace(ns) ==
    /\ Idle
    /\ m_namespace' = ns
    /\ m_current' = updateCurrentNameMap(m_global, ns)
    /\ UNCHANGED <<m_global, owner, pending, builder, dropped, orphaned>>

ImportNamespace(ns, erase_existing) ==
    /\ Idle
    /\ m_current' = importNamespace(m_global, m_current, ns, erase_existing)
    /\ UNCHANGED <<m_global, m_namespace, owner, pending, builder, dropped, orphaned>>

\* clear(): alias entries are nulled, then every remaining entry is deleted.
clear ==
    /\ Idle
    /\ owner' = [t \in Type |-> IF t \in Registered THEN "none" ELSE owner[t]]
    /\ m_global' = [n \in Name |-> NoType]
    /\ m_current' = [k \in Key |-> NoType]
    /\ dropped' = {}
    /\ orphaned' = {}
    /\ UNCHANGED <<m_namespace, pending, builder>>

Next ==
    \/ \E t \in Type : Add(t) \/ Remove(t)
    \/ CallerDelete
    \/ \E base \in Key, n \in AliasName : Alias(base, n)
    \/ Propagate
    \/ \E name \in BuildName : Build(name)
    \/ BuildStep \/ BuildDone
    \/ \E n \in Name : removeAlias(n)
    \/ clearAliases \/ clear
    \/ \E ns \in Namespace : setDefaultNamespace(ns)
    \/ \E ns \in Import, erase \in BOOLEAN : ImportNamespace(ns, erase)

Spec == Init /\ [][Next]_vars

\* A call runs to its end: nothing but the caller's own thread drives it.
FairSpec == Spec /\ WF_vars(Propagate \/ BuildStep \/ BuildDone)

-----------------------------------------------------------------------------
(* Properties *)

\* Every variable has its type, and the nested calls name registered types.
TypeOK ==
    /\ m_global \in [Name -> Type \cup {NoType}]
    /\ m_current \in [Key -> Type \cup {NoType}]
    /\ m_namespace \in Namespace
    /\ owner \in [Type -> {"none", "registry", "caller"}]
    /\ pending \subseteq Type \X (Name \cup {NoName})
    /\ builder \in Builder
    /\ dropped \subseteq Name
    /\ orphaned \subseteq Name

\* get() looks in m_current and find(), removeAlias() and the iterators look in
\* m_global: both answer alike for every absolute name, after any sequence of
\* additions, removals, imports and changes of default namespace.
AbsoluteNamesMirrored == \A n \in Name : m_current[n] = m_global[n]

\* clear() deletes what is registered under its own name, and nulls the rest: it
\* frees every type that the registry owns, once, and none that it gave away.
DeletedOnce ==
    /\ \A t \in Type : owner[t] = "registry" <=> m_global[TypeName[t]] = t
    /\ \A n \in Name : m_global[n] # NoType => owner[m_global[n]] = "registry"

\* No name, absolute or relative, denotes a type that was removed or deleted.
NoDanglingName == \A k \in Key : m_current[k] # NoType => owner[m_current[k]] = "registry"

\* "Any complex type in a Registry object can only reference types in the same
\* registry": remove() takes every dependent type away with a type.
DependenciesRegistered == \A t \in Registered : Deps[t] \subseteq Registered

\* A relative name denotes a type whose absolute name, or alias, ends with it.
RelativeNameSound ==
    \A k \in RelName : m_current[k] # NoType =>
        \E n \in Name : /\ m_global[n] = m_current[k]
                       /\ Len(k) < Len(n)
                       /\ k = SubSeq(n, Len(n) - Len(k) + 1, Len(n))

\* Between two calls, an alias of a type extends to the types derived from it,
\* unless the caller has taken the derived alias away or was told by an exception
\* that the propagation was cut short.
AliasesFollowed ==
    Idle => \A u \in Registered : KindOf[u] # NoKind =>
        \A a \in Aliases(m_global, Base[u]) :
            LET n == Derived[KindOf[u]][a] IN
            n = NoName \/ n \in dropped \/ m_current[n] # NoType

\* A derived name denotes the type derived from what the rest of the name denotes,
\* and the rest is bound: "/y*" is a pointer on "/y".  This leaves out the names
\* that removeAlias() has orphaned: "/y*" stays when "/y" goes, and a new "/y" does
\* not change it.  Other names are not affected, and an orphaned name is covered
\* again once it was unbound itself.
AliasConsistent ==
    \A a \in Name, kind \in Kind :
        LET n == Derived[kind][a] IN
        n # NoName /\ m_global[n] # NoType /\ n \notin orphaned
            => KindOf[m_global[n]] = kind /\ Base[m_global[n]] = m_global[a]

\* The names from a to n, each derived from the one before by the next modifier,
\* and none of them in gone.
Trails(a, mods, n, gone) ==
    {w \in [1..Len(mods) + 1 -> Name] :
        /\ w[1] = a /\ w[Len(mods) + 1] = n
        /\ \A i \in 1..Len(mods) :
              w[i + 1] = Derived[mods[i]][w[i]] /\ w[i + 1] \notin gone}

\* The modifiers of a name lead from the base name to it through valid names, none
\* of which was taken away or orphaned if the base name is an alias.  A name that
\* is not valid may get as far as a type: "/t<1>*" does, if "/t<1>" is an alias of
\* a type on which a pointer can be named.
Spelled(n) ==
    LET base == Parsed[n].base
        gone == IF IsAlias(base) THEN dropped \cup orphaned ELSE {}
    IN  Trails(base, Parsed[n].mods, n, gone) # {}

\* No type was given the name of an alias that left orphans.
OwnNamesKept ==
    \A t \in Registered, kind \in Kind : Derived[kind][TypeName[t]] \notin orphaned

\* When build() returns a type, the name that it was asked for denotes it, also
\* when that name goes through an alias of the base type.
BuildBinds ==
    builder # NoBuild /\ builder.mods = <<>> /\ pending = {}
        /\ Spelled(builder.goal) /\ OwnNamesKept
            => m_current[builder.goal] = builder.cur

\* A name with modifiers means what it says, whichever of its parts is an alias:
\* build() binds the name that it was asked for, and no derived name denotes
\* anything but the type derived from its base.  Excepted are the names that
\* removeAlias() orphans (has() in modifiedDependencyAliases() keeps them as they
\* are), and build() of names spelled with an alias whose derived names were taken
\* away by the caller.
DerivedNamesBind == BuildBinds /\ AliasConsistent

\* The same without the exception: a derived name that is bound denotes the type
\* derived from what the rest of the name denotes.
DerivedNamesCurrent ==
    \A a \in Name, kind \in Kind :
        LET n == Derived[kind][a] IN
        Idle /\ n # NoName /\ m_global[n] # NoType /\ m_global[a] # NoType
            => Base[m_global[n]] = m_global[a]

\* A relative name denotes the type of the innermost enclosing namespace that has
\* it: add() arbitrates with nameSort(), documented as "true if name1 is in a
\* more in-depth namespace than name2".
InnermostWins ==
    \A k \in RelName : m_current[k] # NoType =>
        m_current[k] = updateCurrentNameMap(m_global, m_namespace)[k]

\* A call never makes a name denote another type: it has to be unbound first.
NamesNeverRebound ==
    [][\A n \in Name : m_global[n] # NoType => m_global'[n] \in {m_global[n], NoType}]_vars

\* The recursion of alias() and the loop of the type builder terminate.
CallsReturn == []<>Idle
=============================================================================
