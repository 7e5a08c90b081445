--------------------------- MODULE RegistryProofs ---------------------------
(***************************************************************************)
(* Proofs about the name tables, for every set of types and names.         *)
(***************************************************************************)
EXTENDS Registry, SequenceTheorems, TLAPS

\* The nested calls and the builder only handle registered types, and a derived
\* alias that is missing is one that a nested call still has to add.
CallsRegistered ==
    /\ \A c \in pending : c[1] \in Registered
    /\ builder = NoBuild \/ builder.cur \in Registered

AliasesPending ==
    \A u \in Registered : KindOf[u] # NoKind =>
        \A a \in Aliases(m_global, Base[u]) :
            LET n == Derived[KindOf[u]][a] IN
            n = NoName \/ n \in dropped \/ m_current[n] # NoType \/ <<u, n>> \in pending

\* What the name tables guarantee, as one inductive invariant.
NameInv ==
    /\ TypeOK
    /\ AbsoluteNamesMirrored
    /\ DeletedOnce
    /\ NoDanglingName
    /\ DependenciesRegistered
    /\ CallsRegistered
    /\ AliasesPending

\* n ends with k: k is what getRelativeName() leaves of n in some namespace.
EndsWith(n, k) == Len(k) < Len(n) /\ k = SubSeq(n, Len(n) - Len(k) + 1, Len(n))

\* A namespace followed by a relative name is a name that ends with it.
LEMMA ConcatEndsWith ==
    ASSUME NEW S, NEW ns \in Seq(S), ns # <<>>, NEW k \in Seq(S)
    PROVE  EndsWith(ns \o k, k)
<1> DEFINE n == ns \o k
           last == SubSeq(n, Len(n) - Len(k) + 1, Len(n))
<1>1. /\ n \in Seq(S) /\ Len(n) = Len(ns) + Len(k) /\ Len(ns) \in Nat \ {0} /\ Len(k) \in Nat
      /\ \A i \in 1..Len(n) : n[i] \in S
      /\ \A i \in 1..Len(k) : n[Len(ns) + i] = k[i]
  BY ConcatProperties, LenProperties, EmptySeq, ElementOfSeq
<1>2. /\ last \in Seq(S) /\ Len(last) = Len(k)
      /\ \A i \in 1..Len(k) : last[i] = n[Len(ns) + i]
  <2>1. \A i \in (Len(n) - Len(k) + 1)..Len(n) : n[i] \in S
    BY <1>1
  <2> HIDE DEF n
  <2> QED BY <1>1, <2>1, SubSeqProperties
<1>3. last = k
  <2> HIDE DEF last, n
  <2> QED BY <1>1, <1>2, SeqEqual, Zenon
<1> HIDE DEF n
<1> QED BY <1>1, <1>3 DEF EndsWith, n

\* The namespaces in which add() and updateCurrentNameMap() look are not empty.
LEMMA EnclosingNonempty ==
    ASSUME NEW ns \in Namespace, NEW p \in Enclosing(ns)
    PROVE  p \in Seq(DOMAIN Rank) /\ p # <<>>
<1>1. PICK i \in 1..Len(ns) : p = SubSeq(ns, 1, i)
  BY Zenon DEF Enclosing
<1>2. ns \in Seq(DOMAIN Rank) /\ Len(ns) \in Nat
  BY NameAssumption, LenProperties, Zenon
<1>3. \A j \in 1..i : ns[j] \in DOMAIN Rank
  BY <1>2, ElementOfSeq
<1>4. p \in Seq(DOMAIN Rank) /\ Len(p) = i
  BY <1>1, <1>2, <1>3, SubSeqProperties
<1> QED BY <1>2, <1>4, EmptySeq

\* k stands for the name n when the default namespace is ns.
StandsFor(ns, k, n) == n = k \/ \E p \in Enclosing(ns) : n = p \o k

\* updateCurrentNameMap() rebuilds m_current with the absolute names of m_global
\* and, in the enclosing namespaces, their relative names.
LEMMA UpdateCurrent ==
    ASSUME NEW g \in [Name -> Type \cup {NoType}], NEW ns
    PROVE  /\ updateCurrentNameMap(g, ns) \in [Key -> Type \cup {NoType}]
           /\ \A n \in Name : updateCurrentNameMap(g, ns)[n] = g[n]
           /\ \A k \in Key : updateCurrentNameMap(g, ns)[k] # NoType =>
                 \E n \in Name : updateCurrentNameMap(g, ns)[k] = g[n] /\ StandsFor(ns, k, n)
<1> DEFINE binds(k) == {p \in Enclosing(ns) : IsBound(g, p \o k)}
           deepest(k) == {p \in binds(k) : \A q \in binds(k) : Len(q) =< Len(p)}
           at(k) == (CHOOSE p \in deepest(k) : TRUE) \o k
           val(k) == IF k \in Name THEN g[k]
                     ELSE IF deepest(k) # {} THEN g[at(k)] ELSE NoType
<1>1. updateCurrentNameMap(g, ns) = [k \in Key |-> val(k)]
  BY Zenon DEF updateCurrentNameMap
<1>2. ASSUME NEW k \in Key, deepest(k) # {}
      PROVE  at(k) \in Name /\ StandsFor(ns, k, at(k))
  <2>1. (CHOOSE p \in deepest(k) : TRUE) \in deepest(k)
    BY <1>2, Zenon
  <2> QED BY <2>1, Zenon DEF IsBound, StandsFor
<1>3. ASSUME NEW k \in Key
      PROVE  /\ val(k) \in Type \cup {NoType}
             /\ val(k) # NoType => \E n \in Name : val(k) = g[n] /\ StandsFor(ns, k, n)
  <2>1. k \in Name => StandsFor(ns, k, k)
    BY Zenon DEF StandsFor
  <2> HIDE DEF deepest, at
  <2> QED BY <1>2, <2>1, Zenon
<1> HIDE DEF val
<1>4. \A n \in Name : val(n) = g[n]
  BY Zenon DEF val
<1> QED BY <1>1, <1>3, <1>4 DEF Key

\* add(name, type): the name denotes the type, in both tables; every other
\* absolute name keeps what it denotes, and a relative name denotes what it
\* denoted or the new type.
LEMMA BindFacts ==
    ASSUME TypeOK, AbsoluteNamesMirrored,
           NEW n \in Name, NEW t \in Type, Bind(n, t)
    PROVE  /\ m_global' = [m_global EXCEPT ![n] = t]
           /\ m_current' \in [Key -> Type \cup {NoType}]
           /\ \A m \in Name : m_current'[m] = m_global'[m]
           /\ \A k \in Key : m_current'[k] \in {m_current[k], t}
           /\ \A k \in Key : m_current[k] # NoType => m_current'[k] # NoType
           /\ \A k \in RelName : m_current'[k] # m_current[k] =>
                 \E p \in Enclosing(m_namespace) : n = p \o k
<1>1. CASE m_current[n] = t
  BY <1>1, TypeAssumption DEF Bind, TypeOK, AbsoluteNamesMirrored
<1>2. CASE m_current[n] = NoType
  <2>1. /\ m_global' = [m_global EXCEPT ![n] = t]
        /\ m_current' = [k \in Key |-> IF k = n \/ k \in Rebound(m_current, n)
                                       THEN t ELSE m_current[k]]
    BY <1>2, TypeAssumption, Zenon DEF Bind, TypeOK, AbsoluteNamesMirrored
  <2>2. Rebound(m_current, n) \cap Name = {}
    BY NameAssumption, Zenon DEF Rebound
  <2>3. \A k \in RelName : m_current'[k] # m_current[k] =>
          \E p \in Enclosing(m_namespace) : n = p \o k
    BY <2>1, NameAssumption, Zenon DEF Rebound, Key
  <2> QED BY <2>1, <2>2, <2>3, TypeAssumption, Zenon DEF TypeOK, AbsoluteNamesMirrored, Key
<1> QED BY <1>1, <1>2, Zenon DEF Bind


\* Binding a name to a type that the registry holds, or is given, keeps every
\* registered type registered.
LEMMA BindRegistered ==
    ASSUME TypeOK, AbsoluteNamesMirrored, DeletedOnce,
           NEW n \in Name, NEW t \in Type, Bind(n, t), n = TypeName[t] \/ t \in Registered
    PROVE  Registered' = Registered \cup {t}
<1>1. m_global' = [m_global EXCEPT ![n] = t] /\ m_global[n] \in {NoType, t}
  BY BindFacts, Zenon DEF Bind, AbsoluteNamesMirrored
<1>2. ASSUME NEW u \in Type PROVE u \in Registered' <=> u \in Registered \cup {t}
  BY <1>1, TypeAssumption, Zenon DEF Registered, TypeOK
<1> QED BY <1>2, Zenon DEF Registered

\* add(Type*) preserves the invariant, whether the caller or the builder calls it.
LEMMA AddTypeInv ==
    ASSUME NameInv, pending = {}, NEW t \in Type, AddType(t),
           builder' \in Builder, builder' = NoBuild \/ builder'.cur \in Registered'
    PROVE  NameInv'
<1> USE TypeAssumption DEF NameInv
<1> DEFINE n == TypeName[t]
<1>0. n \in Name /\ Bind(n, t)
  BY Zenon DEF AddType
<1>1. /\ m_global' = [m_global EXCEPT ![n] = t]
      /\ m_current' \in [Key -> Type \cup {NoType}]
      /\ \A m \in Name : m_current'[m] = m_global'[m]
      /\ \A k \in Key : m_current'[k] \in {m_current[k], t}
      /\ \A k \in Key : m_current[k] # NoType => m_current'[k] # NoType
  BY <1>0, BindFacts, Zenon
<1>2. Registered' = Registered \cup {t}
  BY <1>0, BindRegistered, Zenon
<1>3. m_global[n] \in {NoType, t}
  BY <1>0, Zenon DEF Bind, AbsoluteNamesMirrored
<1>4. /\ owner' = [owner EXCEPT ![t] = "registry"]
      /\ pending' = modifiedDependencyAliases(m_global', t)
      /\ Deps[t] \subseteq Registered \cup {t}
      /\ UNCHANGED <<m_namespace, dropped, orphaned>>
  BY Zenon DEF AddType
<1>5. pending' \subseteq Type \X (Name \cup {NoName}) /\ \A c \in pending' : c[1] = t
  BY <1>4, <1>1, NameAssumption DEF modifiedDependencyAliases, Aliases, TypeOK
<1>6. TypeOK'
  BY <1>1, <1>4, <1>5, Zenon DEF TypeOK
<1>7. AbsoluteNamesMirrored'
  BY <1>1, Zenon DEF AbsoluteNamesMirrored
<1>8. DeletedOnce'
  <2>1. \A u \in Type : owner'[u] = "registry" <=> u \in Registered'
    BY <1>2, <1>4 DEF DeletedOnce, TypeOK, Registered
  <2>2. \A m \in Name : m_global'[m] # NoType => owner'[m_global'[m]] = "registry"
    BY <1>1, <1>4 DEF DeletedOnce, TypeOK
  <2> QED BY <2>1, <2>2, Zenon DEF DeletedOnce, Registered
<1>9. NoDanglingName'
  BY <1>1, <1>4 DEF NoDanglingName, TypeOK
<1>10. DependenciesRegistered'
  BY <1>2, <1>4, Zenon DEF DependenciesRegistered
<1>11. CallsRegistered'
  BY <1>2, <1>5, Zenon DEF CallsRegistered
<1>12. AliasesPending'
  <2> SUFFICES ASSUME NEW u \in Registered', KindOf[u] # NoKind,
                      NEW a \in Aliases(m_global', Base[u]),
                      NEW m, m = Derived[KindOf[u]][a],
                      m # NoName, m \notin dropped
               PROVE  m_current'[m] # NoType \/ <<u, m>> \in pending'
    BY <1>4, Zenon DEF AliasesPending
  <2>1. u \in Type /\ a \in Name /\ m \in Name
    BY NameAssumption DEF Registered, Aliases
  <2>2. CASE u = t
    BY <2>1, <2>2, <1>4, Zenon DEF modifiedDependencyAliases
  <2>3. CASE u # t
    <3>1. u \in Registered /\ Base[u] \in Registered
      BY <2>1, <2>3, <1>2, Zenon DEF DependenciesRegistered
    <3>2. a \in Aliases(m_global, Base[u])
      BY <2>1, <3>1, <1>1, <1>3, Zenon DEF Aliases, Registered, TypeOK
    <3> QED BY <3>1, <3>2, <2>1, <1>1, Zenon DEF AliasesPending, Key
  <2> QED BY <2>2, <2>3, Zenon
<1> QED BY <1>6, <1>7, <1>8, <1>9, <1>10, <1>11, <1>12, Zenon

\* alias() preserves the invariant, called from outside or nested in another
\* call: the calls it leaves are those it found, less itself, and those that the
\* types depending on the aliased type need.
LEMMA AliasInv ==
    ASSUME NameInv, NEW n \in Name, NEW t \in Registered, Bind(n, t),
           pending' = (pending \ {<<t, n>>}) \cup Triggered(m_global', t),
           UNCHANGED <<m_namespace, owner, builder, dropped, orphaned>>
    PROVE  NameInv'
<1> USE TypeAssumption DEF NameInv
<1>0. t \in Type
  BY Zenon DEF Registered
<1>1. /\ m_global' = [m_global EXCEPT ![n] = t]
      /\ m_current' \in [Key -> Type \cup {NoType}]
      /\ \A m \in Name : m_current'[m] = m_global'[m]
      /\ \A k \in Key : m_current'[k] \in {m_current[k], t}
      /\ \A k \in Key : m_current[k] # NoType => m_current'[k] # NoType
  BY <1>0, BindFacts, Zenon
<1>2. Registered' = Registered
  <2>1. Registered' = Registered \cup {t}
    BY <1>0, BindRegistered, Zenon
  <2> QED BY <2>1, Zenon
<1>3. m_global[n] \in {NoType, t}
  BY Zenon DEF Bind, AbsoluteNamesMirrored
<1>4. \A c \in Triggered(m_global', t) : c \in Type \X (Name \cup {NoName}) /\ c[1] \in Registered'
  BY NameAssumption DEF Triggered, modifiedDependencyAliases, Aliases, Registered
<1>5. TypeOK'
  BY <1>0, <1>1, <1>4, Zenon DEF TypeOK
<1>6. AbsoluteNamesMirrored'
  BY <1>1, Zenon DEF AbsoluteNamesMirrored
<1>7. owner[t] = "registry"
  BY <1>0, Zenon DEF DeletedOnce, Registered
<1>8. DeletedOnce'
  <2>1. \A u \in Type : owner'[u] = "registry" <=> u \in Registered'
    BY <1>2, Zenon DEF DeletedOnce, Registered
  <2>2. \A m \in Name : m_global'[m] # NoType => owner'[m_global'[m]] = "registry"
    BY <1>1, <1>7 DEF DeletedOnce, TypeOK
  <2> QED BY <2>1, <2>2, Zenon DEF DeletedOnce, Registered
<1>9. NoDanglingName'
  BY <1>1, <1>7, Zenon DEF NoDanglingName
<1>10. DependenciesRegistered'
  BY <1>2, Zenon DEF DependenciesRegistered
<1>11. CallsRegistered'
  BY <1>2, <1>4, Zenon DEF CallsRegistered
<1>12. AliasesPending'
  <2> SUFFICES ASSUME NEW u \in Registered', KindOf[u] # NoKind,
                      NEW a \in Aliases(m_global', Base[u]),
                      NEW m, m = Derived[KindOf[u]][a],
                      m # NoName, m \notin dropped
               PROVE  m_current'[m] # NoType \/ <<u, m>> \in pending'
    BY Zenon DEF AliasesPending
  <2>1. u \in Type /\ a \in Name /\ m \in Name /\ Base[u] \in Deps[u]
    BY NameAssumption DEF Registered, Aliases
  <2>2. CASE Base[u] = t
    <3>1. <<u, m>> \in modifiedDependencyAliases(m_global', u)
      BY <2>1, Zenon DEF modifiedDependencyAliases
    <3>2. modifiedDependencyAliases(m_global', u) \subseteq Triggered(m_global', t)
      BY <2>1, <2>2, Zenon DEF Triggered, Registered
    <3> QED BY <3>1, <3>2, Zenon
  <2>3. CASE Base[u] # t
    <3>1. a \in Aliases(m_global, Base[u])
      BY <2>1, <2>3, <1>1, <1>3, Zenon DEF Aliases, TypeOK
    <3>2. m_current[m] # NoType \/ <<u, m>> \in pending
      BY <3>1, <2>1, <1>2, Zenon DEF AliasesPending
    <3>3. CASE <<u, m>> = <<t, n>>
      BY <3>3, <1>0, <1>1 DEF TypeOK
    <3> QED BY <3>2, <3>3, <2>1, <1>1, Zenon DEF Key
  <2> QED BY <2>2, <2>3, Zenon
<1> QED BY <1>5, <1>6, <1>8, <1>9, <1>10, <1>11, <1>12, Zenon

\* remove(type) takes away a set of types that is closed under dependence.
LEMMA ReverseDependsClosed ==
    ASSUME NEW t \in Registered
    PROVE  /\ reverseDepends(t) \subseteq Registered
           /\ t \in reverseDepends(t)
           /\ \A u \in Registered : Deps[u] \cap reverseDepends(t) # {} => u \in reverseDepends(t)
<1> DEFINE closed == DependentClosed(t, Registered)
<1>1. reverseDepends(t) = {u \in Registered \cup {t} : \A S \in closed : u \in S}
  BY Zenon DEF reverseDepends
<1>2. \A S \in closed : t \in S
  BY Zenon DEF DependentClosed
<1>3. ASSUME NEW u \in Registered, Deps[u] \cap reverseDepends(t) # {}
      PROVE  \A S \in closed : u \in S
  <2> TAKE S \in closed
  <2>1. reverseDepends(t) \subseteq S
    BY <1>1, Zenon
  <2> QED BY <2>1, <1>3, Zenon DEF DependentClosed
<1> HIDE DEF closed
<1> QED BY <1>1, <1>2, <1>3, Zenon

\* Removing a type, with the types that depend on it and all their names.
LEMMA RemoveInv ==
    ASSUME NameInv, NEW t \in Type, Remove(t)
    PROVE  NameInv'
<1> USE TypeAssumption DEF NameInv
<1> DEFINE gone == reverseDepends(t)
<1>0. DOMAIN m_global = Name /\ DOMAIN m_current = Key
  BY Zenon DEF TypeOK
<1>1. /\ Idle /\ t \in Registered
      /\ m_global' = [n \in Name |-> IF m_global[n] \in gone THEN NoType ELSE m_global[n]]
      /\ m_current' = [k \in Key |-> IF m_current[k] \in gone THEN NoType ELSE m_current[k]]
      /\ owner' = [u \in Type |-> IF u \in gone THEN "caller" ELSE owner[u]]
      /\ dropped' = dropped \cup {n \in Name : m_global[n] \in gone}
      /\ orphaned' \subseteq Name
      /\ m_namespace' = m_namespace /\ pending' = pending /\ builder' = builder
  BY <1>0, Zenon DEF Remove, Without, StillBound
<1>2. /\ gone \subseteq Registered
      /\ \A u \in Registered : Deps[u] \cap gone # {} => u \in gone
  BY <1>1, ReverseDependsClosed, Zenon
<1> HIDE DEF gone
<1>3. gone \subseteq Type
  BY <1>2, Zenon DEF Registered
<1>4. TypeOK'
  BY <1>1, <1>3, Zenon DEF TypeOK, Key
<1>5. AbsoluteNamesMirrored'
  BY <1>1, Zenon DEF AbsoluteNamesMirrored, Key
<1>6. Registered' = Registered \ gone
  BY <1>1, <1>3, Zenon DEF Registered
<1>7. DeletedOnce'
  <2>1. \A u \in Type : owner'[u] = "registry" <=> u \in Registered'
    BY <1>1, <1>6, Zenon DEF DeletedOnce, Registered
  <2>2. \A m \in Name : m_global'[m] # NoType => owner'[m_global'[m]] = "registry"
    BY <1>1 DEF DeletedOnce, TypeOK
  <2> QED BY <2>1, <2>2, Zenon DEF DeletedOnce, Registered
<1>8. NoDanglingName'
  BY <1>1, Zenon DEF NoDanglingName, TypeOK
<1>9. DependenciesRegistered'
  BY <1>2, <1>6, Zenon DEF DependenciesRegistered
<1>10. CallsRegistered'
  BY <1>1, Zenon DEF CallsRegistered, Idle, NoBuild
<1>11. AliasesPending'
  <2> SUFFICES ASSUME NEW u \in Registered', KindOf[u] # NoKind,
                      NEW a \in Aliases(m_global', Base[u]),
                      NEW m, m = Derived[KindOf[u]][a], m # NoName
               PROVE  m \in dropped' \/ m_current'[m] # NoType
    BY Zenon DEF AliasesPending
  <2>1. u \in Registered /\ u \in Type /\ a \in Name /\ m \in Name
    BY <1>6, NameAssumption DEF Registered, Aliases
  <2>2. Base[u] # NoType /\ a \in Aliases(m_global, Base[u])
    BY <1>1, <2>1, Zenon DEF Aliases
  <2>3. m \in dropped \/ m_current[m] # NoType
    BY <2>1, <2>2, <1>1, Zenon DEF AliasesPending, Idle
  <2> QED BY <2>1, <2>3, <1>1, Zenon DEF AbsoluteNamesMirrored, Key
<1> QED BY <1>4, <1>5, <1>7, <1>8, <1>9, <1>10, <1>11, Zenon

\* The operations that recompute m_current, and leave the types alone.
LEMMA RecomputeInv ==
    ASSUME NameInv, Idle, NEW ns \in Namespace,
           m_global' \in [Name -> Type \cup {NoType}],
           \A n \in Name : m_global'[n] = m_global[n] \/ (m_global'[n] = NoType /\ IsAlias(n)),
           m_current' = updateCurrentNameMap(m_global', ns),
           dropped' = dropped \cup {n \in Name : m_global'[n] # m_global[n]},
           orphaned' \subseteq Name,
           m_namespace' = ns,
           UNCHANGED <<owner, pending, builder>>
    PROVE  NameInv'
<1> USE TypeAssumption DEF NameInv
<1>1. /\ m_current' \in [Key -> Type \cup {NoType}]
      /\ \A n \in Name : m_current'[n] = m_global'[n]
      /\ \A k \in Key : m_current'[k] # NoType => \E n \in Name : m_current'[k] = m_global'[n]
  BY UpdateCurrent
<1>2. Registered' = Registered
  BY Zenon DEF Registered, IsAlias
<1>3. TypeOK'
  BY <1>1, Zenon DEF TypeOK
<1>4. AbsoluteNamesMirrored'
  BY <1>1, Zenon DEF AbsoluteNamesMirrored
<1>5. \A m \in Name : m_global'[m] # NoType => owner'[m_global'[m]] = "registry"
  BY Zenon DEF DeletedOnce
<1>6. DeletedOnce'
  <2>1. \A u \in Type : owner'[u] = "registry" <=> u \in Registered'
    BY <1>2, Zenon DEF DeletedOnce, Registered
  <2> QED BY <2>1, <1>5, Zenon DEF DeletedOnce, Registered
<1>7. NoDanglingName'
  BY <1>1, <1>5 DEF NoDanglingName
<1>8. DependenciesRegistered'
  BY <1>2, Zenon DEF DependenciesRegistered
<1>9. CallsRegistered'
  BY <1>2, Zenon DEF CallsRegistered
<1>10. AliasesPending'
  <2> SUFFICES ASSUME NEW u \in Registered', KindOf[u] # NoKind,
                      NEW a \in Aliases(m_global', Base[u]),
                      NEW m, m = Derived[KindOf[u]][a], m # NoName
               PROVE  m \in dropped' \/ m_current'[m] # NoType
    BY SMTT(20) DEF AliasesPending
  <2>1. u \in Registered /\ u \in Type /\ a \in Name /\ m \in Name
    BY <1>2, NameAssumption DEF Registered, Aliases
  <2>2. a \in Aliases(m_global, Base[u])
    BY <2>1 DEF Aliases
  <2>3. m \in dropped \/ m_current[m] # NoType
    BY <2>1, <2>2, Zenon DEF AliasesPending, Idle
  <2> QED BY <2>1, <2>3, <1>1, Zenon DEF AbsoluteNamesMirrored
<1> QED BY <1>3, <1>4, <1>6, <1>7, <1>8, <1>9, <1>10, Zenon

\* A nested alias() that throws leaves the tables as they are, and every derived
\* alias that it leaves out is accounted for.
LEMMA ThrowInv ==
    ASSUME NameInv, NestedThrow
    PROVE  NameInv'
<1> USE TypeAssumption DEF NameInv, NestedThrow
<1>1. Registered' = Registered
  BY Zenon DEF Registered
<1>2. NoBuild \in Builder
  BY DEF NoBuild, Builder
<1>3. TypeOK' /\ AbsoluteNamesMirrored' /\ DeletedOnce' /\ NoDanglingName'
  BY <1>2, Zenon DEF TypeOK, AbsoluteNamesMirrored, DeletedOnce, NoDanglingName
<1>4. DependenciesRegistered' /\ CallsRegistered'
  BY <1>1, Zenon DEF DependenciesRegistered, CallsRegistered
<1>5. AliasesPending'
  <2> SUFFICES ASSUME NEW u \in Registered, KindOf[u] # NoKind,
                      NEW a \in Aliases(m_global, Base[u]),
                      NEW m, m = Derived[KindOf[u]][a], m # NoName
               PROVE  m \in dropped' \/ m_current[m] # NoType
    BY <1>1 DEF AliasesPending, Aliases
  <2>1. u \in Type /\ a \in Name /\ m \in Name
    BY NameAssumption DEF Registered, Aliases
  <2>2. m \in dropped \/ m_current[m] # NoType \/ <<u, m>> \in pending
    BY Zenon DEF AliasesPending
  <2> QED BY <2>1, <2>2, Zenon
<1> QED BY <1>3, <1>4, <1>5, Zenon

\* The invariant holds when the registry is created.
LEMMA InitInv == Init => NameInv
<1> SUFFICES ASSUME Init PROVE NameInv
  BY Zenon
<1> USE TypeAssumption DEF Init
<1>1. Registered = {}
  BY Zenon DEF Registered
<1>2. <<>> \in Seq(Kind)
  OBVIOUS
<1>3. TypeOK
  BY <1>2, NameAssumption, Zenon DEF TypeOK, Builder, NoBuild
<1>4. AbsoluteNamesMirrored /\ DeletedOnce /\ NoDanglingName
  BY Zenon DEF AbsoluteNamesMirrored, DeletedOnce, NoDanglingName, Key
<1>5. DependenciesRegistered /\ CallsRegistered /\ AliasesPending
  BY <1>1, Zenon DEF DependenciesRegistered, CallsRegistered, AliasesPending, NoBuild
<1> QED BY <1>3, <1>4, <1>5, Zenon DEF NameInv

\* Every operation of the registry preserves the invariant.
LEMMA NextInv == NameInv /\ [Next]_vars => NameInv'
<1> SUFFICES ASSUME NameInv, [Next]_vars PROVE NameInv'
  BY Zenon
<1> USE TypeAssumption
<1>1. ASSUME NEW t \in Type, Add(t) PROVE NameInv'
  <2>1. pending = {} /\ builder = NoBuild /\ AddType(t) /\ builder' = builder
    BY <1>1, Zenon DEF Add, Idle
  <2>2. builder' \in Builder /\ builder' = NoBuild
    BY <2>1, Zenon DEF NameInv, TypeOK
  <2> QED BY <2>1, <2>2, AddTypeInv, Zenon
<1>2. ASSUME NEW t \in Type, Remove(t) PROVE NameInv'
  BY <1>2, RemoveInv, Zenon
<1>3. CASE CallerDelete
  <2> USE <1>3 DEF CallerDelete
  <2>1. Registered' = Registered
    BY Zenon DEF Registered
  <2>2. TypeOK' /\ AbsoluteNamesMirrored'
    BY Zenon DEF NameInv, TypeOK, AbsoluteNamesMirrored
  <2>3. \A t \in Type : owner'[t] = "registry" <=> owner[t] = "registry"
    BY Zenon DEF NameInv, TypeOK
  <2>4. DeletedOnce' /\ NoDanglingName'
    BY <2>3 DEF NameInv, TypeOK, DeletedOnce, NoDanglingName
  <2>5. DependenciesRegistered' /\ CallsRegistered' /\ AliasesPending'
    BY <2>1, Zenon DEF NameInv, DependenciesRegistered, CallsRegistered, AliasesPending
  <2> QED BY <2>2, <2>4, <2>5, Zenon DEF NameInv
<1>4. ASSUME NEW base \in Key, NEW n \in AliasName, Alias(base, n) PROVE NameInv'
  <2> DEFINE t == m_current[base]
  <2>1. t \in Registered
    BY <1>4 DEF Alias, NameInv, TypeOK, NoDanglingName, DeletedOnce, Registered
  <2>2. /\ Bind(n, t) /\ n \in Name
        /\ pending' = (pending \ {<<t, n>>}) \cup Triggered(m_global', t)
        /\ UNCHANGED <<m_namespace, owner, builder, dropped, orphaned>>
    BY <1>4, NameAssumption, Zenon DEF Alias, Idle
  <2> HIDE DEF t
  <2> QED BY <2>1, <2>2, AliasInv, Zenon
<1>5. CASE Propagate
  <2>0. CASE NestedThrow
    BY <2>0, ThrowInv, Zenon
  <2>1. PICK c \in pending :
          \/ NestedThrow
          \/ /\ c[2] # NoName /\ m_current[c[2]] # NoType
             /\ pending' = pending \ {c}
             /\ UNCHANGED <<m_global, m_current, m_namespace, owner, builder, dropped, orphaned>>
          \/ /\ c[2] # NoName /\ m_current[c[2]] = NoType
             /\ Bind(c[2], m_current[TypeName[c[1]]])
             /\ pending' = (pending \ {c}) \cup Triggered(m_global', c[1])
             /\ UNCHANGED <<m_namespace, owner, builder, dropped, orphaned>>
    BY <1>5, Zenon DEF Propagate
  <2> SUFFICES ASSUME ~NestedThrow PROVE NameInv'
    BY <2>0, Zenon
  <2>2. c = <<c[1], c[2]>> /\ c[2] \in Name /\ c[1] \in Registered
    BY <2>1 DEF NameInv, TypeOK, CallsRegistered
  <2>3. m_current[TypeName[c[1]]] = c[1]
    BY <2>2, Zenon DEF NameInv, AbsoluteNamesMirrored, Registered
  <2>4. CASE m_current[c[2]] # NoType
    <3> USE <2>1, <2>4
    <3>1. Registered' = Registered
      BY Zenon DEF Registered
    <3>2. TypeOK' /\ AbsoluteNamesMirrored' /\ DeletedOnce' /\ NoDanglingName'
      BY DEF NameInv, TypeOK, AbsoluteNamesMirrored, DeletedOnce, NoDanglingName
    <3>3. DependenciesRegistered' /\ CallsRegistered'
      BY <3>1, Zenon DEF NameInv, DependenciesRegistered, CallsRegistered
    <3>4. AliasesPending'
      BY <3>1, <2>2 DEF NameInv, AliasesPending
    <3> QED BY <3>2, <3>3, <3>4, Zenon DEF NameInv
  <2>5. CASE m_current[c[2]] = NoType
    <3>1. /\ Bind(c[2], c[1])
          /\ pending' = (pending \ {<<c[1], c[2]>>}) \cup Triggered(m_global', c[1])
          /\ UNCHANGED <<m_namespace, owner, builder, dropped, orphaned>>
      BY <2>1, <2>2, <2>3, <2>5, SMTT(20)
    <3> QED BY <2>2, <3>1, AliasInv, Zenon
  <2> QED BY <2>4, <2>5, Zenon
<1>6. ASSUME NEW b \in Builder, b = NoBuild \/ b.cur \in Registered, builder' = b,
             UNCHANGED <<m_global, m_current, m_namespace, owner, pending, dropped, orphaned>>
      PROVE  NameInv'
  <2> USE <1>6
  <2>1. Registered' = Registered
    BY Zenon DEF Registered
  <2>2. TypeOK' /\ AbsoluteNamesMirrored' /\ DeletedOnce' /\ NoDanglingName'
    BY Zenon DEF NameInv, TypeOK, AbsoluteNamesMirrored, DeletedOnce, NoDanglingName
  <2>3. DependenciesRegistered' /\ CallsRegistered' /\ AliasesPending'
    BY <2>1, Zenon DEF NameInv, DependenciesRegistered, CallsRegistered, AliasesPending
  <2> QED BY <2>2, <2>3, Zenon DEF NameInv
<1>7. NoBuild \in Builder
  BY DEF NoBuild, Builder
<1>8. ASSUME NEW k \in Key, m_current[k] # NoType
      PROVE  m_current[k] \in Registered
  BY <1>8 DEF NameInv, TypeOK, NoDanglingName, DeletedOnce, Registered
<1>9. ASSUME NEW name \in BuildName, Build(name) PROVE NameInv'
  <2> DEFINE full == getFullName(name)
             b == [goal |-> full, cur |-> m_current[Parsed[full].base],
                   mods |-> Parsed[full].mods]
  <2>1. /\ full \in Name /\ m_current[Parsed[full].base] # NoType /\ builder' = b
        /\ UNCHANGED <<m_global, m_current, m_namespace, owner, pending, dropped, orphaned>>
    BY <1>9, Zenon DEF Build
  <2>2. Parsed[full].base \in Key /\ Parsed[full].mods \in Seq(Kind)
    BY <2>1, NameAssumption, Zenon DEF Key
  <2>3. m_current[Parsed[full].base] \in Registered
    BY <2>1, <2>2, <1>8, Zenon
  <2> HIDE DEF full
  <2>4. b \in Builder /\ b.cur \in Registered
    BY <2>1, <2>2, <2>3, Zenon DEF Builder, Registered
  <2> QED BY <2>1, <2>4, <1>6, Zenon
<1>10. CASE BuildStep
  <2> DEFINE kind == Head(builder.mods)
             n == Derived[kind][TypeName[builder.cur]]
  <2>1. builder \in Builder /\ builder.mods # <<>> /\ pending = {}
    BY <1>10, Zenon DEF BuildStep, NameInv, TypeOK
  <2>2. Tail(builder.mods) \in Seq(Kind)
    BY <2>1 DEF Builder
  <2>3. CASE /\ builder' = NoBuild
             /\ UNCHANGED <<m_global, m_current, m_namespace, owner, pending, dropped, orphaned>>
    BY <2>3, <1>6, <1>7, Zenon
  <2>4. CASE /\ n # NoName /\ m_current[n] # NoType
             /\ builder' = [builder EXCEPT !.cur = m_current[n], !.mods = Tail(@)]
             /\ UNCHANGED <<m_global, m_current, m_namespace, owner, pending, dropped, orphaned>>
    <3>1. CASE n \in Key
      <4>1. m_current[n] \in Registered
        BY <3>1, <2>4, <1>8, Zenon
      <4>2. builder' \in Builder /\ builder'.cur = m_current[n]
        BY <4>1, <2>1, <2>2, <2>4, ZenonT(60) DEF Builder, Registered
      <4> QED BY <4>1, <4>2, <2>4, <1>6, Zenon
    <3>2. n \in Key
      <4>1. builder.cur \in Type
        BY <2>1 DEF NameInv, CallsRegistered, NoBuild, Registered
      <4> QED BY <4>1, <2>1, <2>4, NameAssumption DEF Builder, Key
    <3> QED BY <3>1, <3>2, Zenon
  <2>5. ASSUME NEW u \in Type, AddType(u),
               builder' = [builder EXCEPT !.cur = u, !.mods = Tail(@)]
        PROVE  NameInv'
    <3>1. builder' \in Builder /\ builder'.cur = u
      BY <2>1, <2>2, <2>5, Zenon DEF Builder
    <3>2. u \in Registered'
      <4>1. Bind(TypeName[u], u) /\ TypeName[u] \in Name
        BY <2>5, Zenon DEF AddType
      <4>2. Registered' = Registered \cup {u}
        BY <4>1, BindRegistered, Zenon DEF NameInv
      <4> QED BY <4>2, Zenon
    <3> QED BY <3>1, <3>2, <2>1, <2>5, AddTypeInv, Zenon
  <2> QED BY <1>10, <2>3, <2>4, <2>5, Zenon DEF BuildStep
<1>11. CASE BuildDone
  BY <1>11, <1>6, <1>7, Zenon DEF BuildDone
<1>12. ASSUME NEW n \in Name, removeAlias(n) PROVE NameInv'
  <2>1. /\ Idle /\ IsAlias(n)
        /\ m_global' = [m_global EXCEPT ![n] = NoType]
        /\ m_current' = updateCurrentNameMap(m_global', m_namespace)
        /\ dropped' = dropped \cup {n} /\ orphaned' \subseteq Name
        /\ m_namespace' = m_namespace
        /\ UNCHANGED <<owner, pending, builder>>
    BY <1>12, Zenon DEF removeAlias, IsAlias, StillBound
  <2>2. m_global' \in [Name -> Type \cup {NoType}] /\ m_namespace \in Namespace
    BY <2>1, Zenon DEF NameInv, TypeOK
  <2>3. \A m \in Name : m_global'[m] = m_global[m] \/ (m_global'[m] = NoType /\ IsAlias(m))
    BY <2>1, Zenon DEF NameInv, TypeOK
  <2>4. {m \in Name : m_global'[m] # m_global[m]} = {n}
    BY <2>1 DEF IsAlias, NameInv, TypeOK
  <2> QED BY <2>1, <2>2, <2>3, <2>4, RecomputeInv, Zenon
<1>13. CASE clearAliases
  <2>1. /\ Idle
        /\ m_global' = [n \in Name |-> IF IsAlias(n) THEN NoType ELSE m_global[n]]
        /\ m_current' = updateCurrentNameMap(m_global', m_namespace)
        /\ dropped' = dropped \cup {n \in Name : IsAlias(n)} /\ orphaned' \subseteq Name
        /\ m_namespace' = m_namespace
        /\ UNCHANGED <<owner, pending, builder>>
    BY <1>13, Zenon DEF clearAliases, StillBound
  <2>2. m_global' \in [Name -> Type \cup {NoType}] /\ m_namespace \in Namespace
    BY <2>1, Zenon DEF NameInv, TypeOK
  <2>3. \A m \in Name : m_global'[m] = m_global[m] \/ (m_global'[m] = NoType /\ IsAlias(m))
    BY <2>1, Zenon
  <2>4. {m \in Name : m_global'[m] # m_global[m]} = {n \in Name : IsAlias(n)}
    BY <2>1, Zenon DEF IsAlias
  <2> QED BY <2>1, <2>2, <2>3, <2>4, RecomputeInv, SMTT(20)
<1>14. ASSUME NEW ns \in Namespace, setDefaultNamespace(ns) PROVE NameInv'
  <2>1. /\ Idle /\ m_global' = m_global /\ dropped' = dropped /\ orphaned' = orphaned
        /\ m_current' = updateCurrentNameMap(m_global', ns)
        /\ m_namespace' = ns
        /\ UNCHANGED <<owner, pending, builder>>
    BY <1>14, Zenon DEF setDefaultNamespace
  <2>2. m_global' \in [Name -> Type \cup {NoType}] /\ orphaned' \subseteq Name
    BY <2>1, Zenon DEF NameInv, TypeOK
  <2>3. dropped' = dropped \cup {m \in Name : m_global'[m] # m_global[m]}
    BY <2>1, Zenon
  <2> QED BY <2>1, <2>2, <2>3, RecomputeInv, Zenon
<1>15. ASSUME NEW ns \in Import, NEW erase \in BOOLEAN, ImportNamespace(ns, erase) PROVE NameInv'
  <2>1. /\ UNCHANGED <<m_global, m_namespace, owner, pending, builder, dropped, orphaned>>
        /\ m_current' = importNamespace(m_global, m_current, ns, erase)
    BY <1>15, Zenon DEF ImportNamespace
  <2>2. /\ m_current' \in [Key -> Type \cup {NoType}]
        /\ \A n \in Name : m_current'[n] = m_current[n]
        /\ \A k \in Key : \/ m_current'[k] = m_current[k]
                           \/ \E n \in Name : m_current'[k] = m_global[n]
    BY <2>1, NameAssumption, Zenon DEF importNamespace, IsBound, NameInv, TypeOK, Key
  <2>3. Registered' = Registered
    BY <2>1, Zenon DEF Registered
  <2>4. TypeOK' /\ AbsoluteNamesMirrored'
    BY <2>1, <2>2, SMTT(20) DEF NameInv, TypeOK, AbsoluteNamesMirrored
  <2>5. DeletedOnce' /\ NoDanglingName'
    BY <2>1, <2>2, SMTT(30) DEF NameInv, DeletedOnce, NoDanglingName
  <2>6. DependenciesRegistered' /\ CallsRegistered'
    BY <2>1, <2>3, Zenon DEF NameInv, DependenciesRegistered, CallsRegistered
  <2>7. AliasesPending'
    <3>1. \A u \in Registered, a \in Name :
            KindOf[u] # NoKind /\ Derived[KindOf[u]][a] # NoName => Derived[KindOf[u]][a] \in Name
      BY NameAssumption DEF Registered
    <3> QED BY <2>1, <2>2, <2>3, <3>1, Zenon DEF NameInv, AliasesPending, Aliases
  <2> QED BY <2>4, <2>5, <2>6, <2>7, Zenon DEF NameInv
<1>16. CASE clear
  <2> USE <1>16 DEF clear
  <2>1. Registered' = {}
    BY Zenon DEF Registered
  <2>2. TypeOK' /\ AbsoluteNamesMirrored' /\ DeletedOnce' /\ NoDanglingName'
    BY ZenonT(60) DEF NameInv, TypeOK, AbsoluteNamesMirrored, DeletedOnce, NoDanglingName, Registered, Key
  <2>3. DependenciesRegistered' /\ CallsRegistered' /\ AliasesPending'
    BY <2>1, Zenon DEF DependenciesRegistered, CallsRegistered, AliasesPending, Idle, NoBuild
  <2> QED BY <2>2, <2>3, Zenon DEF NameInv
<1>17. CASE UNCHANGED vars
  <2> USE <1>17 DEF vars
  <2>1. builder \in Builder /\ (builder = NoBuild \/ builder.cur \in Registered)
    BY Zenon DEF NameInv, TypeOK, CallsRegistered
  <2> QED BY <2>1, <1>6, Zenon
<1> QED BY <1>1, <1>2, <1>3, <1>4, <1>5, <1>9, <1>10, <1>11, <1>12, <1>13, <1>14, <1>15,
           <1>16, <1>17, Zenon DEF Next

\* The name tables keep their invariant through every sequence of operations.
THEOREM NameTablesSafe == Spec => []NameInv
BY InitInv, NextInv, PTL DEF Spec

\* get() and the iterators agree on every absolute name.
THEOREM NamesMirrored == Spec => []AbsoluteNamesMirrored
BY NameTablesSafe, PTL DEF NameInv

\* clear(), and so the destructor, frees every type of the registry exactly once.
THEOREM TypesDeletedOnce == Spec => []DeletedOnce
BY NameTablesSafe, PTL DEF NameInv

\* No name denotes a type that remove() has handed to its caller.
THEOREM NamesNeverDangle == Spec => []NoDanglingName
BY NameTablesSafe, PTL DEF NameInv

\* A registered type only depends on registered types.
THEOREM RegistryClosed == Spec => []DependenciesRegistered
BY NameTablesSafe, PTL DEF NameInv

\* Every variable of the registry keeps its type.
THEOREM TypeCorrect == Spec => []TypeOK
BY NameTablesSafe, PTL DEF NameInv

\* Derived types follow the aliases of their base type.
THEOREM DerivedAliasesFollow == Spec => []AliasesFollowed
<1>1. NameInv => AliasesFollowed
  BY Zenon DEF NameInv, AliasesPending, AliasesFollowed, Idle
<1> QED BY <1>1, NameTablesSafe, PTL

\* A name is unbound before it is bound to another type.
THEOREM NamesStable == Spec => NamesNeverRebound
<1> DEFINE A == \A n \in Name : m_global[n] # NoType => m_global'[n] \in {m_global[n], NoType}
<1>1. NameInv /\ [Next]_vars => [A]_vars
  <2> SUFFICES ASSUME NameInv, Next PROVE A
    BY Zenon
  <2> USE TypeAssumption DEF NameInv
  <2>1. ASSUME NEW n \in Name, NEW t \in Type, Bind(n, t) PROVE A
    <3>1. m_global' = [m_global EXCEPT ![n] = t] /\ m_global[n] \in {NoType, t}
      BY <2>1, BindFacts, Zenon DEF Bind, AbsoluteNamesMirrored
    <3> QED BY <3>1, Zenon DEF TypeOK
  <2>2. ASSUME NEW t \in Type, AddType(t) PROVE A
    BY <2>2, <2>1, Zenon DEF AddType
  <2>3. ASSUME NEW k \in Key, m_current[k] # NoType PROVE m_current[k] \in Type
    BY <2>3, Zenon DEF TypeOK
  <2>4. ASSUME NEW t \in Type, Add(t) PROVE A
    BY <2>4, <2>2, Zenon DEF Add
  <2>5. ASSUME NEW t \in Type, Remove(t) PROVE A
    BY <2>5, Zenon DEF Remove, Without, TypeOK
  <2>6. ASSUME NEW base \in Key, NEW n \in AliasName, Alias(base, n) PROVE A
    BY <2>6, <2>1, <2>3, NameAssumption, Zenon DEF Alias
  <2>7. CASE Propagate
    <3>1. PICK c \in pending : \/ m_global' = m_global
                               \/ c[2] # NoName /\ Bind(c[2], m_current[TypeName[c[1]]])
      BY <2>7, Zenon DEF Propagate, NestedThrow
    <3>2. m_global' = m_global \/ (c[2] \in Name /\ m_current[TypeName[c[1]]] \in Type)
      BY <3>1, Zenon DEF TypeOK, CallsRegistered, AbsoluteNamesMirrored, Registered
    <3> QED BY <3>1, <3>2, <2>1, Zenon
  <2>8. CASE BuildStep
    BY <2>8, <2>2, Zenon DEF BuildStep
  <2>9. ASSUME NEW n \in Name, removeAlias(n) PROVE A
    BY <2>9, Zenon DEF removeAlias, TypeOK
  <2>10. CASE clearAliases
    BY <2>10, Zenon DEF clearAliases
  <2>11. CASE clear
    BY <2>11, Zenon DEF clear
  <2>12. ASSUME \/ CallerDelete \/ BuildDone
                \/ \E name \in BuildName : Build(name)
                \/ \E ns \in Namespace : setDefaultNamespace(ns)
                \/ \E ns \in Import, erase \in BOOLEAN : ImportNamespace(ns, erase)
         PROVE  A
    BY <2>12, Zenon DEF CallerDelete, BuildDone, Build, setDefaultNamespace, ImportNamespace
  <2> HIDE DEF A
  <2> QED BY <2>4, <2>5, <2>6, <2>7, <2>8, <2>9, <2>10, <2>11, <2>12, Zenon DEF Next
<1> QED BY <1>1, NameTablesSafe, PTL DEF Spec, NamesNeverRebound

-----------------------------------------------------------------------------
(* Relative names *)

\* add() only gives a relative name to a type that it has just bound to a name
\* ending with it.
LEMMA BindRelative ==
    ASSUME NameInv, RelativeNameSound, NEW n \in Name, NEW t \in Type, Bind(n, t)
    PROVE  RelativeNameSound'
<1> USE DEF NameInv
<1>1. /\ m_global' = [m_global EXCEPT ![n] = t]
      /\ \A k \in Key : m_current'[k] \in {m_current[k], t}
      /\ \A k \in RelName : m_current'[k] # m_current[k] =>
            \E p \in Enclosing(m_namespace) : n = p \o k
  BY BindFacts, Zenon
<1>2. m_global[n] \in {NoType, t}
  BY Zenon DEF Bind, AbsoluteNamesMirrored
<1> SUFFICES ASSUME NEW k \in RelName, m_current'[k] # NoType
             PROVE  \E m \in Name : m_global'[m] = m_current'[k] /\ EndsWith(m, k)
  BY Zenon DEF RelativeNameSound, EndsWith
<1>3. CASE m_current'[k] = m_current[k]
  <2>1. PICK m \in Name : m_global[m] = m_current[k] /\ EndsWith(m, k)
    BY <1>3, Zenon DEF RelativeNameSound, EndsWith
  <2> QED BY <2>1, <1>1, <1>2, <1>3, Zenon DEF TypeOK
<1>4. CASE m_current'[k] # m_current[k]
  <2>1. m_current'[k] = t /\ m_global'[n] = t
    BY <1>1, <1>4, Zenon DEF TypeOK, Key
  <2>2. PICK p \in Enclosing(m_namespace) : n = p \o k
    BY <1>1, <1>4, Zenon
  <2>3. EndsWith(n, k)
    BY <2>2, EnclosingNonempty, ConcatEndsWith, NameAssumption, Zenon DEF TypeOK
  <2> QED BY <2>1, <2>3, Zenon
<1> QED BY <1>3, <1>4, Zenon

\* updateCurrentNameMap() makes the relative names sound, whatever they were.
LEMMA UpdateRelative ==
    ASSUME NEW ns \in Namespace, m_global' \in [Name -> Type \cup {NoType}],
           m_current' = updateCurrentNameMap(m_global', ns)
    PROVE  RelativeNameSound'
<1> SUFFICES ASSUME NEW k \in RelName, m_current'[k] # NoType
             PROVE  \E n \in Name : m_global'[n] = m_current'[k] /\ EndsWith(n, k)
  BY Zenon DEF RelativeNameSound, EndsWith
<1>1. PICK n \in Name : m_current'[k] = m_global'[n] /\ StandsFor(ns, k, n)
  BY UpdateCurrent, Zenon DEF Key
<1>2. PICK p \in Enclosing(ns) : n = p \o k
  BY <1>1, NameAssumption, Zenon DEF StandsFor
<1>3. EndsWith(n, k)
  BY <1>2, EnclosingNonempty, ConcatEndsWith, NameAssumption, Zenon
<1> QED BY <1>1, <1>3, Zenon

\* Every operation keeps the relative names sound.
LEMMA NextRelative == NameInv /\ RelativeNameSound /\ [Next]_vars => RelativeNameSound'
<1> SUFFICES ASSUME NameInv, RelativeNameSound, [Next]_vars PROVE RelativeNameSound'
  BY Zenon
<1> USE TypeAssumption DEF NameInv
<1>1. ASSUME UNCHANGED <<m_global, m_current>> PROVE RelativeNameSound'
  BY <1>1, Zenon DEF RelativeNameSound
<1>2. ASSUME NEW t \in Type, AddType(t) PROVE RelativeNameSound'
  BY <1>2, BindRelative, Zenon DEF AddType
<1>3. ASSUME NEW t \in Type, Add(t) PROVE RelativeNameSound'
  BY <1>3, <1>2, Zenon DEF Add
<1>4. ASSUME NEW t \in Type, Remove(t) PROVE RelativeNameSound'
  <2>1. PICK gone :
          /\ m_global' = [n \in Name |-> IF m_global[n] \in gone THEN NoType ELSE m_global[n]]
          /\ m_current' = [k \in Key |-> IF m_current[k] \in gone THEN NoType ELSE m_current[k]]
    BY <1>4, Zenon DEF Remove, Without, TypeOK
  <2> SUFFICES ASSUME NEW k \in RelName, m_current'[k] # NoType
               PROVE  \E n \in Name : m_global'[n] = m_current'[k] /\ EndsWith(n, k)
    BY Zenon DEF RelativeNameSound, EndsWith
  <2>2. m_current[k] # NoType /\ m_current'[k] = m_current[k] /\ m_current[k] \notin gone
    BY <2>1, Zenon DEF Key
  <2>3. PICK n \in Name : m_global[n] = m_current[k] /\ EndsWith(n, k)
    BY <2>2, Zenon DEF RelativeNameSound, EndsWith
  <2> QED BY <2>1, <2>2, <2>3, Zenon
<1>5. ASSUME NEW base \in Key, NEW n \in AliasName, Alias(base, n) PROVE RelativeNameSound'
  BY <1>5, BindRelative, NameAssumption, Zenon DEF Alias, TypeOK
<1>6. CASE Propagate
  <2>1. PICK c \in pending : \/ UNCHANGED <<m_global, m_current>>
                             \/ c[2] # NoName /\ Bind(c[2], m_current[TypeName[c[1]]])
    BY <1>6, Zenon DEF Propagate, NestedThrow
  <2>2. CASE c[2] # NoName /\ Bind(c[2], m_current[TypeName[c[1]]])
    <3>1. c[2] \in Name /\ m_current[TypeName[c[1]]] \in Type
      BY <2>2, Zenon DEF TypeOK, CallsRegistered, AbsoluteNamesMirrored, Registered
    <3> QED BY <2>2, <3>1, BindRelative, Zenon
  <2> QED BY <2>1, <2>2, <1>1, Zenon
<1>7. CASE BuildStep
  BY <1>7, <1>1, <1>2, Zenon DEF BuildStep
<1>8. ASSUME NEW n \in Name, removeAlias(n) PROVE RelativeNameSound'
  <2>1. /\ m_global' \in [Name -> Type \cup {NoType}]
        /\ m_current' = updateCurrentNameMap(m_global', m_namespace) /\ m_namespace \in Namespace
    BY <1>8, Zenon DEF removeAlias, TypeOK
  <2> QED BY <2>1, UpdateRelative, Zenon
<1>9. CASE clearAliases
  <2>1. /\ m_global' \in [Name -> Type \cup {NoType}]
        /\ m_current' = updateCurrentNameMap(m_global', m_namespace) /\ m_namespace \in Namespace
    BY <1>9, Zenon DEF clearAliases, TypeOK
  <2> QED BY <2>1, UpdateRelative, Zenon
<1>10. ASSUME NEW ns \in Namespace, setDefaultNamespace(ns) PROVE RelativeNameSound'
  <2>1. /\ m_global' \in [Name -> Type \cup {NoType}]
        /\ m_current' = updateCurrentNameMap(m_global', ns)
    BY <1>10, Zenon DEF setDefaultNamespace, TypeOK
  <2> QED BY <2>1, UpdateRelative, Zenon
<1>11. ASSUME NEW ns \in Import, NEW erase \in BOOLEAN, ImportNamespace(ns, erase)
       PROVE  RelativeNameSound'
  <2> SUFFICES ASSUME NEW k \in RelName, m_current'[k] # NoType
               PROVE  \E n \in Name : m_global'[n] = m_current'[k] /\ EndsWith(n, k)
    BY Zenon DEF RelativeNameSound, EndsWith
  <2>1. /\ m_global' = m_global
        /\ \/ m_current'[k] = m_current[k]
           \/ ns \o k \in Name /\ m_current'[k] = m_global[ns \o k]
    BY <1>11, Zenon DEF ImportNamespace, importNamespace, IsBound, Key
  <2>2. EndsWith(ns \o k, k)
    BY ConcatEndsWith, NameAssumption, Zenon
  <2> QED BY <2>1, <2>2, Zenon DEF RelativeNameSound, EndsWith
<1>12. CASE clear
  BY <1>12, Zenon DEF clear, RelativeNameSound, Key
<1>13. ASSUME \/ CallerDelete \/ BuildDone \/ UNCHANGED vars
              \/ \E name \in BuildName : Build(name)
       PROVE  RelativeNameSound'
  BY <1>13, <1>1, Zenon DEF CallerDelete, BuildDone, Build, vars
<1> QED BY <1>3, <1>4, <1>5, <1>6, <1>7, <1>8, <1>9, <1>10, <1>11, <1>12, <1>13, Zenon DEF Next

\* A relative name, in whatever namespaces are the default or were imported, denotes
\* a type that has a name or an alias ending with it.
THEOREM RelativeNamesSound == Spec => []RelativeNameSound
<1>1. Init => RelativeNameSound
  BY Zenon DEF Init, RelativeNameSound, Key
<1> QED BY <1>1, NextRelative, NameTablesSafe, PTL DEF Spec


-----------------------------------------------------------------------------
(* The names of derived types *)


\* A nested alias() call is for a derived type and for the name derived, in the
\* same way, from a name that its base type has.
NestedCallsDerived ==
    \A c \in pending :
        /\ KindOf[c[1]] # NoKind
        /\ \E a \in Name : c[2] = Derived[KindOf[c[1]]][a] /\ m_global[a] = Base[c[1]]

\* AliasConsistent, in the form in which the steps keep it.
DerivedNamesMean ==
    \A kind \in Kind, a \in Name :
        LET n == Derived[kind][a] IN
        n # NoName /\ m_global[n] # NoType /\ n \notin orphaned
            => KindOf[m_global[n]] = kind /\ m_global[a] = Base[m_global[n]]

\* From the name a of the builder's type, or one that a nested call is about to
\* give it, the modifiers that are left lead to the name that was asked for; if a
\* is an alias, through names that were not taken away or orphaned.
OnTrail(a, gone) ==
    /\ Trails(a, builder.mods, builder.goal, gone) # {}
    /\ a = TypeName[builder.cur] \/ gone = dropped \cup orphaned
    /\ \/ m_global[a] = builder.cur
       \/ <<builder.cur, a>> \in pending /\ a \notin orphaned

\* The builder of a name that is spelled well is on a trail to it.
BuilderOnTrail ==
    builder # NoBuild =>
        /\ builder.goal \in Name /\ m_global[Parsed[builder.goal].base] # NoType
        /\ Spelled(builder.goal) /\ OwnNamesKept => \E a \in Name, gone \in SUBSET Name : OnTrail(a, gone)

DerivedInv == NestedCallsDerived /\ DerivedNamesMean /\ BuilderOnTrail

\* Two registered types derived in the same way from the same type are one: the
\* constructors give them the same name.
LEMMA SameDerivation ==
    ASSUME NEW u \in Registered, NEW v \in Registered,
           KindOf[u] # NoKind, KindOf[v] = KindOf[u], Base[v] = Base[u]
    PROVE  u = v
<1>1. TypeName[u] = TypeName[v]
  BY DerivedAssumption, Zenon DEF Registered
<1> QED BY <1>1, Zenon DEF Registered

\* A derived name tells how it was derived and from what.
LEMMA DerivedInjective ==
    ASSUME NEW k1 \in Kind, NEW k2 \in Kind, NEW a1 \in Name, NEW a2 \in Name,
           Derived[k1][a1] = Derived[k2][a2], Derived[k1][a1] # NoName
    PROVE  k1 = k2 /\ a1 = a2
BY DerivedAssumption

\* A bound name denotes a registered type.
LEMMA BoundRegistered ==
    ASSUME NameInv, NEW n \in Name, m_global[n] # NoType
    PROVE  m_global[n] \in Registered
BY ZenonT(60) DEF NameInv, TypeOK, DeletedOnce, Registered

\* add() keeps the names that are bound.
LEMMA BindKeeps ==
    ASSUME NameInv, NEW n \in Name, NEW t \in Type, Bind(n, t)
    PROVE  /\ m_global' = [m_global EXCEPT ![n] = t]
           /\ \A m \in Name : m_global[m] # NoType => m_global'[m] = m_global[m]
<1>1. m_global' = [m_global EXCEPT ![n] = t] /\ m_global[n] \in {NoType, t}
  BY BindFacts, Zenon DEF Bind, AbsoluteNamesMirrored, NameInv
<1> QED BY <1>1, Zenon DEF NameInv, TypeOK

\* Binding a name that is not derived, or that is derived as the type is, keeps
\* the meaning of the derived names.
LEMMA BindMeans ==
    ASSUME NameInv, DerivedNamesMean, NEW n \in Name, NEW t \in Type, Bind(n, t),
           orphaned' = orphaned,
           \A kind \in Kind, a \in Name :
               n = Derived[kind][a] => KindOf[t] = kind /\ m_global'[a] = Base[t]
    PROVE  DerivedNamesMean'
<1> SUFFICES ASSUME NEW kind \in Kind, NEW a \in Name,
                    NEW m, m = Derived[kind][a], m # NoName, m_global'[m] # NoType,
                    m \notin orphaned
             PROVE  KindOf[m_global'[m]] = kind /\ m_global'[a] = Base[m_global'[m]]
  BY SMTT(30) DEF DerivedNamesMean
<1>1. m \in Name
  BY NameAssumption
<1>2. /\ m_global' = [m_global EXCEPT ![n] = t]
      /\ \A x \in Name : m_global[x] # NoType => m_global'[x] = m_global[x]
  BY BindKeeps, Zenon
<1>3. CASE m = n
  <2>1. m_global'[m] = t
    BY <1>1, <1>2, <1>3, Zenon DEF NameInv, TypeOK
  <2> QED BY <2>1, <1>3, Zenon
<1>4. CASE m # n
  <2>1. m_global'[m] = m_global[m] /\ m_global[m] # NoType
    BY <1>1, <1>2, <1>4, Zenon DEF NameInv, TypeOK
  <2>2. KindOf[m_global[m]] = kind /\ m_global[a] = Base[m_global[m]]
    BY <2>1, Zenon DEF DerivedNamesMean
  <2>3. m_global[m] \in Type
    BY <1>1, <2>1, Zenon DEF NameInv, TypeOK
  <2>4. m_global[a] # NoType
    BY <2>2, <2>3, TypeAssumption
  <2> QED BY <2>1, <2>2, <2>4, <1>2, Zenon
<1> QED BY <1>3, <1>4, Zenon

\* The calls that modifiedDependencyAliases() makes are for derived names.
LEMMA ModifiedDerived ==
    ASSUME NEW g, NEW u, NEW c \in modifiedDependencyAliases(g, u)
    PROVE  /\ c[1] = u /\ KindOf[u] # NoKind
           /\ \E a \in Name : c[2] = Derived[KindOf[u]][a] /\ g[a] = Base[u]
BY DEF modifiedDependencyAliases, Aliases

\* add(Type*): the type is named after the type that it is derived from, which is
\* registered.
LEMMA AddDerived ==
    ASSUME NameInv, DerivedInv, pending = {}, NEW t \in Type, AddType(t)
    PROVE  NestedCallsDerived' /\ DerivedNamesMean'
<1> USE DEF DerivedInv
<1>0. /\ TypeName[t] \in Name /\ Bind(TypeName[t], t) /\ orphaned' = orphaned
      /\ pending' = modifiedDependencyAliases(m_global', t)
      /\ Deps[t] \subseteq Registered \cup {t}
  BY TypeAssumption, Zenon DEF AddType
<1>1. NestedCallsDerived'
  BY <1>0, ModifiedDerived DEF NestedCallsDerived
<1>2. m_global' = [m_global EXCEPT ![TypeName[t]] = t]
      /\ \A m \in Name : m_global[m] # NoType => m_global'[m] = m_global[m]
  BY <1>0, BindKeeps, Zenon
<1>3. ASSUME NEW kind \in Kind, NEW a \in Name, TypeName[t] = Derived[kind][a]
      PROVE  KindOf[t] = kind /\ m_global'[a] = Base[t]
  <2>1. KindOf[t] \in Kind
    BY <1>3, TypeAssumption, DerivedAssumption
  <2>2. Base[t] \in Deps[t] /\ Base[t] \in Type /\ TypeName[Base[t]] \in Name
    BY <2>1, TypeAssumption, Zenon
  <2>3. TypeName[t] = Derived[KindOf[t]][TypeName[Base[t]]]
    BY <2>1, TypeAssumption, DerivedAssumption, Zenon
  <2>4. kind = KindOf[t] /\ a = TypeName[Base[t]]
    <3>1. Derived[kind][a] = Derived[KindOf[t]][TypeName[Base[t]]] /\ Derived[kind][a] # NoName
      BY <1>0, <1>3, <2>3, TypeAssumption, Zenon
    <3> QED BY <3>1, <2>1, <2>2, DerivedInjective, SMTT(20)
  <2>5. m_global'[TypeName[Base[t]]] = Base[t]
    <3>1. CASE Base[t] = t
      BY <3>1, <1>0, <1>2, SMTT(20) DEF NameInv, TypeOK
    <3>2. CASE Base[t] # t
      BY <3>2, <2>2, <1>0, <1>2, TypeAssumption, Zenon DEF Registered
    <3> QED BY <3>1, <3>2, Zenon
  <2> QED BY <2>4, <2>5, Zenon
<1>4. DerivedNamesMean'
  BY <1>0, <1>3, BindMeans, ZenonT(60)
<1> QED BY <1>1, <1>4, Zenon

\* alias(), called from outside with a name that is not derived or nested in
\* another call with one derived from a name of the base type.
LEMMA AliasDerived ==
    ASSUME NameInv, DerivedInv, NEW n \in Name, NEW t \in Registered, Bind(n, t),
           pending' = (pending \ {<<t, n>>}) \cup Triggered(m_global', t),
           orphaned' = orphaned,
           \/ n \in AliasName
           \/ KindOf[t] # NoKind /\ \E a \in Name : n = Derived[KindOf[t]][a] /\ m_global[a] = Base[t]
    PROVE  NestedCallsDerived' /\ DerivedNamesMean'
<1> USE DEF DerivedInv
<1>0. t \in Type
  BY SMTT(20) DEF Registered
<1>1. \A m \in Name : m_global[m] # NoType => m_global'[m] = m_global[m]
  BY <1>0, BindKeeps, Zenon
<1>2. ASSUME NEW u \in Type, NEW a \in Name, KindOf[u] # NoKind, m_global[a] = Base[u]
      PROVE  m_global'[a] = Base[u]
  BY <1>1, <1>2, TypeAssumption, Zenon
<1>3. NestedCallsDerived'
  <2> SUFFICES ASSUME NEW c \in pending'
               PROVE  /\ KindOf[c[1]] # NoKind
                      /\ \E a \in Name : /\ c[2] = Derived[KindOf[c[1]]][a]
                                         /\ m_global'[a] = Base[c[1]]
    BY Zenon DEF NestedCallsDerived
  <2>1. CASE c \in pending
    <3>1. c[1] \in Type
      BY <2>1, Zenon DEF NameInv, TypeOK
    <3> QED BY <2>1, <3>1, <1>2, SMTT(20) DEF NestedCallsDerived
  <2>2. CASE c \in Triggered(m_global', t)
    BY <2>2, ModifiedDerived DEF Triggered
  <2> QED BY <2>1, <2>2, Zenon
<1>4. ASSUME NEW kind \in Kind, NEW b \in Name, n = Derived[kind][b]
      PROVE  KindOf[t] = kind /\ m_global'[b] = Base[t]
  <2>1. n \notin AliasName
    BY <1>4, DerivedAssumption, Zenon
  <2>2. PICK a \in Name : n = Derived[KindOf[t]][a] /\ m_global[a] = Base[t]
    BY <2>1, Zenon
  <2>3. KindOf[t] \in Kind
    BY <2>1, <1>0, TypeAssumption, Zenon
  <2>4. KindOf[t] = kind /\ a = b
    <3>1. Derived[kind][b] = Derived[KindOf[t]][a] /\ Derived[kind][b] # NoName
      BY <2>2, <1>4, TypeAssumption, Zenon
    <3> QED BY <3>1, <2>3, DerivedInjective
  <2> QED BY <2>1, <2>2, <2>4, <1>0, <1>2, Zenon
<1>5. DerivedNamesMean'
  BY <1>0, <1>4, BindMeans, ZenonT(60)
<1> QED BY <1>3, <1>5, SMTT(20)

\* Without its first name, a trail goes on from the second one.
LEMMA TrailStep ==
    ASSUME NEW a \in Name, NEW mods \in Seq(Kind), mods # <<>>, NEW n \in Name,
           NEW gone, Trails(a, mods, n, gone) # {}
    PROVE  /\ Head(mods) \in Kind /\ Derived[Head(mods)][a] \in Name \ gone
           /\ Trails(Derived[Head(mods)][a], Tail(mods), n, gone) # {}
<1>1. PICK w \in [1..Len(mods) + 1 -> Name] :
        /\ w[1] = a /\ w[Len(mods) + 1] = n
        /\ \A i \in 1..Len(mods) : w[i + 1] = Derived[mods[i]][w[i]] /\ w[i + 1] \notin gone
  BY Zenon DEF Trails
<1>2. /\ Len(mods) \in Nat \ {0} /\ Head(mods) = mods[1] /\ mods[1] \in Kind
      /\ Tail(mods) \in Seq(Kind) /\ Len(Tail(mods)) = Len(mods) - 1
      /\ \A i \in 1..Len(mods) - 1 : Tail(mods)[i] = mods[i + 1]
  BY EmptySeq, HeadTailProperties, ElementOfSeq
<1> DEFINE k == Len(mods)
           v == [i \in 1..k |-> w[i + 1]]
<1>3. v \in [1..k -> Name]
  BY <1>1, <1>2
<1>4. /\ v[1] = Derived[Head(mods)][a] /\ v[1] \in Name \ gone
      /\ v[k] = n
      /\ \A i \in 1..k - 1 : v[i + 1] = Derived[Tail(mods)[i]][v[i]] /\ v[i + 1] \notin gone
  BY <1>1, <1>2, SMTT(30)
<1> HIDE DEF v
<1>5. v \in Trails(v[1], Tail(mods), n, gone)
  <2>1. v \in [1..Len(Tail(mods)) + 1 -> Name] /\ v[Len(Tail(mods)) + 1] = n
    BY <1>2, <1>3, <1>4
  <2> QED BY <2>1, <1>2, <1>4, Zenon DEF Trails
<1> QED BY <1>2, <1>4, <1>5, Zenon

\* When no modifier is left, the trail is at its end.
LEMMA TrailEnd ==
    ASSUME NEW a, NEW n, NEW gone, Trails(a, <<>>, n, gone) # {}
    PROVE  a = n
BY DEF Trails

\* Steps that keep the names that are bound do not change what is asked of the
\* name that is being built.
LEMMA SpelledKept ==
    ASSUME NameInv, BuilderOnTrail, builder # NoBuild, builder'.goal = builder.goal,
           UNCHANGED <<dropped, orphaned>>,
           \A m \in Name : m_global[m] # NoType => m_global'[m] = m_global[m]
    PROVE  /\ m_global'[Parsed[builder.goal].base] # NoType
           /\ Spelled(builder.goal)' => Spelled(builder.goal)
           /\ OwnNamesKept' => OwnNamesKept
<1>0. PICK base : base = Parsed[builder.goal].base
  BY Zenon
<1>1. base \in Name /\ m_global'[base] = m_global[base] /\ m_global[base] # NoType
  BY <1>0, NameAssumption, Zenon DEF BuilderOnTrail
<1>2. \A t \in Registered : t \in Registered'
  BY TypeAssumption, Zenon DEF Registered
<1>3. OwnNamesKept' => OwnNamesKept
  BY <1>2, Zenon DEF OwnNamesKept
<1>4. IsAlias(base)' <=> IsAlias(base)
  BY <1>1, Zenon DEF IsAlias
<1>5. Spelled(builder.goal)' => Spelled(builder.goal)
  BY <1>0, <1>4, Zenon DEF Spelled
<1> QED BY <1>0, <1>1, <1>3, <1>5, Zenon

\* One level of the builder: what it takes or makes has, or is about to be given,
\* the name derived from whichever name of the base type was spelled.
LEMMA BuildStepTrail ==
    ASSUME NameInv, DerivedInv, NameInv', BuildStep
    PROVE  BuilderOnTrail'
<1> USE DEF DerivedInv
<1> SUFFICES ASSUME builder' # NoBuild
             PROVE  BuilderOnTrail'
  BY Zenon DEF BuilderOnTrail
<1> DEFINE kind == Head(builder.mods)
           cur == builder.cur
           n == Derived[kind][TypeName[cur]]
<1>1. /\ builder \in Builder /\ pending = {} /\ builder.mods # <<>>
      /\ builder # NoBuild /\ builder.mods \in Seq(Kind)
  <2>1. builder \in Builder /\ pending = {} /\ builder.mods # <<>>
    BY Zenon DEF NameInv, TypeOK, BuildStep
  <2> QED BY <2>1 DEF Builder, NoBuild
<1>2. cur \in Registered /\ cur \in Type
  BY <1>1, Zenon DEF NameInv, CallsRegistered, Registered
<1>3. /\ n # NoName /\ UNCHANGED <<dropped, orphaned>> /\ builder.goal \in Name
      /\ builder'.goal = builder.goal /\ builder'.mods = Tail(builder.mods)
  <2>1. n # NoName /\ UNCHANGED <<dropped, orphaned>>
    BY Zenon DEF BuildStep, AddType
  <2>2. PICK t : builder' = [builder EXCEPT !.cur = t, !.mods = Tail(@)]
    BY Zenon DEF BuildStep
  <2> QED BY <2>1, <2>2, <1>1, Zenon DEF Builder, BuilderOnTrail
<1>4. \/ /\ m_current[n] # NoType /\ UNCHANGED <<m_global, m_current>>
         /\ builder'.cur = m_current[n]
      \/ \E u \in Type : /\ TypeName[u] = n /\ KindOf[u] = kind /\ Base[u] = cur
                         /\ AddType(u) /\ builder'.cur = u
  BY <1>1, <1>3, Zenon DEF BuildStep, Builder
<1>5. \A m \in Name : m_global[m] # NoType => m_global'[m] = m_global[m]
  <2>1. ASSUME NEW u \in Type, AddType(u)
        PROVE  \A m \in Name : m_global[m] # NoType => m_global'[m] = m_global[m]
    BY <2>1, TypeAssumption, BindKeeps, Zenon DEF AddType
  <2> QED BY <2>1, <1>4, Zenon
<1>6. /\ m_global'[Parsed[builder.goal].base] # NoType
      /\ Spelled(builder.goal)' => Spelled(builder.goal)
      /\ OwnNamesKept' => OwnNamesKept
  BY <1>1, <1>3, <1>5, SpelledKept, Zenon
<1> SUFFICES ASSUME Spelled(builder.goal), OwnNamesKept
             PROVE  \E b \in Name, gone \in SUBSET Name : OnTrail(b, gone)'
  BY <1>3, <1>6, Zenon DEF BuilderOnTrail
<1>7. PICK a \in Name, gone \in SUBSET Name : OnTrail(a, gone)
  BY <1>1, Zenon DEF BuilderOnTrail
<1>8. /\ Trails(a, builder.mods, builder.goal, gone) # {} /\ m_global[a] = cur
      /\ a = TypeName[cur] \/ gone = dropped \cup orphaned
  BY <1>1, <1>7, Zenon DEF OnTrail
<1>9. PICK b : b = Derived[kind][a]
  BY Zenon
<1>10. /\ kind \in Kind /\ b \in Name /\ b \notin gone
      /\ Trails(b, Tail(builder.mods), builder.goal, gone) # {}
  <2>1. /\ kind \in Kind /\ Derived[kind][a] \in Name \ gone
        /\ Trails(Derived[kind][a], Tail(builder.mods), builder.goal, gone) # {}
    <3>1. /\ builder.mods \in Seq(Kind) /\ builder.mods # <<>> /\ builder.goal \in Name
          /\ Trails(a, builder.mods, builder.goal, gone) # {}
      BY <1>1, <1>3, <1>8, Zenon
    <3> QED BY <3>1, TrailStep, SMTT(30)
  <2> QED BY <2>1, <1>9, Zenon
<1>11. /\ n \in Name /\ n \notin orphaned
       /\ TypeName[cur] \in Name /\ m_global[TypeName[cur]] = cur
  <2>1. TypeName[cur] \in Name /\ m_global[TypeName[cur]] = cur
    BY <1>2, TypeAssumption, Zenon DEF Registered
  <2>2. n \in Name
    BY <2>1, <1>3, <1>10, NameAssumption, SMTT(30)
  <2>3. n \notin orphaned
    BY <1>2, <1>10, Zenon DEF OwnNamesKept
  <2> QED BY <2>1, <2>2, <2>3, Zenon
<1> SUFFICES /\ b = TypeName[builder'.cur] \/ gone = dropped \cup orphaned
             /\ \/ m_global'[b] = builder'.cur
                \/ <<builder'.cur, b>> \in pending' /\ b \notin orphaned
  <2>1. ASSUME /\ b = TypeName[builder'.cur] \/ gone = dropped \cup orphaned
               /\ \/ m_global'[b] = builder'.cur
                  \/ <<builder'.cur, b>> \in pending' /\ b \notin orphaned
        PROVE  OnTrail(b, gone)'
    BY <2>1, <1>3, <1>10, Zenon DEF OnTrail
  <2> QED BY <2>1, <1>10, Zenon
<1>12. CASE /\ m_current[n] # NoType /\ UNCHANGED <<m_global, m_current>>
            /\ builder'.cur = m_current[n]
  <2> DEFINE v == m_global[n]
  <2>1. v # NoType /\ v \in Registered /\ v \in Type /\ builder'.cur = v
    BY <1>12, <1>11, BoundRegistered, Zenon DEF NameInv, AbsoluteNamesMirrored, Registered
  <2>2. KindOf[v] = kind /\ Base[v] = cur
    BY <1>11, <2>1, <1>3, <1>10, ZenonT(60) DEF DerivedNamesMean
  <2>3. KindOf[v] # NoKind /\ TypeName[v] = n
    <3>1. KindOf[v] # NoKind
      BY <2>2, <1>10, TypeAssumption, Zenon
    <3> QED BY <3>1, <2>1, <2>2, DerivedAssumption, Zenon
  <2>4. CASE a = TypeName[cur]
    BY <2>1, <2>3, <2>4, <1>12, <1>9, Zenon
  <2>5. CASE a # TypeName[cur]
    <3>1. b \notin dropped /\ b \notin orphaned /\ gone = dropped \cup orphaned
      BY <2>5, <1>8, <1>10, Zenon
    <3>2. a \in Aliases(m_global, Base[v])
      BY <2>2, <2>5, <1>8, <1>10, Zenon DEF Aliases
    <3>3. m_global[b] # NoType
      <4>1. b = Derived[KindOf[v]][a] /\ b # NoName /\ <<v, b>> \notin pending
        BY <2>2, <1>1, <1>10, <1>9, TypeAssumption, Zenon
      <4>2. m_current[b] # NoType
        BY <4>1, <2>1, <2>3, <3>1, <3>2, Zenon DEF NameInv, AliasesPending
      <4> QED BY <4>2, <1>10, Zenon DEF NameInv, AbsoluteNamesMirrored
    <3>4. m_global[b] \in Registered /\ KindOf[m_global[b]] = kind /\ Base[m_global[b]] = cur
      <4>1. b # NoName
        BY <1>10, TypeAssumption, Zenon
      <4>2. KindOf[m_global[b]] = kind /\ m_global[a] = Base[m_global[b]]
        BY <4>1, <3>1, <3>3, <1>10, <1>9, Zenon DEF DerivedNamesMean
      <4> QED BY <4>2, <3>3, <1>8, <1>10, BoundRegistered, Zenon
    <3>5. m_global[b] = v
      BY <2>1, <2>2, <2>3, <3>4, SameDerivation, Zenon
    <3> QED BY <2>1, <3>1, <3>5, <1>12, Zenon
  <2> QED BY <2>4, <2>5, Zenon
<1>13. ASSUME NEW u \in Type, TypeName[u] = n, KindOf[u] = kind, Base[u] = cur,
              AddType(u), builder'.cur = u
       PROVE  /\ b = TypeName[builder'.cur] \/ gone = dropped \cup orphaned
              /\ \/ m_global'[b] = builder'.cur
                 \/ <<builder'.cur, b>> \in pending' /\ b \notin orphaned
  <2>1. m_global' = [m_global EXCEPT ![n] = u]
    BY <1>13, <1>11, BindKeeps, Zenon DEF AddType
  <2>2. CASE a = TypeName[cur]
    BY <2>1, <2>2, <1>11, <1>13, <1>9, Zenon DEF NameInv, TypeOK
  <2>3. CASE a # TypeName[cur]
    <3>1. b \notin orphaned /\ gone = dropped \cup orphaned
      BY <2>3, <1>8, <1>10, Zenon
    <3>2. pending' = modifiedDependencyAliases(m_global', u)
      BY <1>13, Zenon DEF AddType
    <3>3. a \in Aliases(m_global', Base[u])
      BY <2>3, <1>2, <1>5, <1>8, <1>13, TypeAssumption, Zenon DEF Aliases
    <3>4. <<u, b>> \in pending'
      BY <3>2, <3>3, <1>10, <1>13, <1>9, TypeAssumption, Zenon DEF modifiedDependencyAliases
    <3> QED BY <3>1, <3>4, <1>13, Zenon
  <2> QED BY <2>2, <2>3, Zenon
<1> QED BY <1>4, <1>12, <1>13, Zenon

\* A nested call does not lead the builder off its trail: the call for the name
\* that the builder counts on either makes it or finds it made.
LEMMA PropagateTrail ==
    ASSUME NameInv, DerivedInv, NEW c \in pending, c[2] # NoName,
           UNCHANGED <<builder, dropped, orphaned>>,
           \/ /\ m_current[c[2]] # NoType
              /\ pending' = pending \ {c} /\ m_global' = m_global
           \/ /\ m_current[c[2]] = NoType
              /\ Bind(c[2], c[1])
              /\ pending' = (pending \ {c}) \cup Triggered(m_global', c[1])
    PROVE  BuilderOnTrail'
<1> USE DEF DerivedInv
<1>1. c = <<c[1], c[2]>> /\ c[1] \in Registered /\ c[1] \in Type /\ c[2] \in Name
  BY DEF NameInv, TypeOK, CallsRegistered
<1>2. \A m \in Name : m_global[m] # NoType => m_global'[m] = m_global[m]
  BY <1>1, BindKeeps, Zenon
<1> SUFFICES ASSUME builder # NoBuild, Spelled(builder.goal), OwnNamesKept
             PROVE  \E a \in Name, gone \in SUBSET Name : OnTrail(a, gone)'
  <2>1. ASSUME builder # NoBuild
        PROVE  /\ m_global'[Parsed[builder.goal].base] # NoType
               /\ Spelled(builder.goal)' => Spelled(builder.goal)
               /\ OwnNamesKept' => OwnNamesKept
    BY <2>1, <1>2, SpelledKept, Zenon
  <2> QED BY <2>1, Zenon DEF BuilderOnTrail
<1>3. PICK a \in Name, gone \in SUBSET Name : OnTrail(a, gone)
  BY Zenon DEF BuilderOnTrail
<1>4. builder.cur # NoType
  BY TypeAssumption, Zenon DEF NameInv, CallsRegistered, Registered
<1> SUFFICES m_global'[a] = builder.cur \/ (<<builder.cur, a>> \in pending' /\ a \notin orphaned)
  <2>1. ASSUME m_global'[a] = builder.cur \/ (<<builder.cur, a>> \in pending' /\ a \notin orphaned)
        PROVE  OnTrail(a, gone)'
    BY <2>1, <1>3, Zenon DEF OnTrail
  <2> QED BY <2>1, Zenon
<1>5. CASE m_global[a] = builder.cur
  BY <1>2, <1>4, <1>5, Zenon
<1>6. CASE <<builder.cur, a>> \in pending /\ a \notin orphaned /\ <<builder.cur, a>> # c
  BY <1>6, Zenon
<1>7. CASE a \notin orphaned /\ <<builder.cur, a>> = c
  <2>1. c[1] = builder.cur /\ c[2] = a
    BY <1>7, Zenon
  <2>2. CASE m_current[c[2]] = NoType
    <3>1. m_global' = [m_global EXCEPT ![a] = builder.cur]
      BY <2>1, <2>2, <1>1, BindKeeps, Zenon
    <3> QED BY <3>1, Zenon DEF NameInv, TypeOK
  <2>3. CASE m_current[c[2]] # NoType
    <3>1. m_global[a] # NoType /\ m_global[a] \in Registered
      BY <2>1, <2>3, BoundRegistered, Zenon DEF NameInv, AbsoluteNamesMirrored
    <3>2. KindOf[c[1]] # NoKind /\ KindOf[c[1]] \in Kind
      BY <1>1, TypeAssumption, Zenon DEF NestedCallsDerived
    <3>3. PICK d \in Name : a = Derived[KindOf[c[1]]][d] /\ m_global[d] = Base[c[1]]
      BY <2>1, Zenon DEF NestedCallsDerived
    <3>4. KindOf[m_global[a]] = KindOf[c[1]] /\ Base[m_global[a]] = Base[c[1]]
      BY <3>1, <3>2, <3>3, <1>7, TypeAssumption, ZenonT(60) DEF DerivedNamesMean
    <3>5. m_global[a] = c[1]
      BY <3>1, <3>2, <3>4, <1>1, SameDerivation, Zenon
    <3> QED BY <3>5, <2>1, <2>3, Zenon
  <2> QED BY <2>2, <2>3, Zenon
<1> QED BY <1>3, <1>5, <1>6, <1>7, Zenon DEF OnTrail

\* Between calls only the meaning of derived names is left to keep.
LEMMA IdleDerived ==
    ASSUME Idle, UNCHANGED <<pending, builder>>,
           DerivedNamesMean' \/ (DerivedNamesMean /\ UNCHANGED <<m_global, orphaned>>)
    PROVE  DerivedInv'
<1>0. pending' = {} /\ builder' = NoBuild
  BY Zenon DEF Idle
<1>1. NestedCallsDerived' /\ BuilderOnTrail'
  BY <1>0, Zenon DEF NestedCallsDerived, BuilderOnTrail
<1>2. ASSUME DerivedNamesMean, UNCHANGED <<m_global, orphaned>> PROVE DerivedNamesMean'
  BY <1>2, ZenonT(60) DEF DerivedNamesMean
<1> QED BY <1>1, <1>2, Zenon DEF DerivedInv

\* Unbinding names keeps the meaning of a derived name that stays, if it is
\* orphaned or the name that it is derived from stays too.
LEMMA UnbindMeans ==
    ASSUME DerivedNamesMean,
           \A n \in Name : m_global'[n] \in {NoType, m_global[n]},
           \A n \in orphaned : n \in orphaned' \/ m_global'[n] = NoType,
           \A kind \in Kind, a \in Name :
              LET n == Derived[kind][a] IN
              n # NoName /\ m_global'[n] # NoType /\ n \notin orphaned'
                  /\ KindOf[m_global[n]] = kind /\ m_global[a] = Base[m_global[n]]
                  => m_global'[a] = m_global[a]
    PROVE  DerivedNamesMean'
<1> SUFFICES ASSUME NEW kind \in Kind, NEW a \in Name,
                    NEW m, m = Derived[kind][a], m # NoName, m_global'[m] # NoType,
                    m \notin orphaned'
             PROVE  KindOf[m_global'[m]] = kind /\ m_global'[a] = Base[m_global'[m]]
  BY SMTT(30) DEF DerivedNamesMean
<1>1. m \in Name
  BY NameAssumption
<1>2. m_global'[m] = m_global[m] /\ m_global[m] # NoType /\ m \notin orphaned
  BY <1>1, Zenon
<1>3. KindOf[m_global[m]] = kind /\ m_global[a] = Base[m_global[m]]
  BY <1>2, ZenonT(60) DEF DerivedNamesMean
<1> QED BY <1>2, <1>3, Zenon

\* remove() takes the types derived from the ones it removes.
LEMMA RemoveMeans ==
    ASSUME NameInv, DerivedNamesMean, NEW t \in Type, Remove(t)
    PROVE  DerivedNamesMean'
<1> DEFINE gone == reverseDepends(t)
<1>1. /\ t \in Registered
      /\ m_global' = [n \in Name |-> IF m_global[n] \in gone THEN NoType ELSE m_global[n]]
      /\ orphaned' = StillBound(orphaned)
  BY Zenon DEF Remove, Without, NameInv, TypeOK
<1>2. \A u \in Registered : Deps[u] \cap gone # {} => u \in gone
  BY <1>1, ReverseDependsClosed, Zenon
<1> HIDE DEF gone
<1>3. ASSUME NEW kind \in Kind, NEW a \in Name, NEW n, n = Derived[kind][a], n # NoName,
             m_global'[n] # NoType, KindOf[m_global[n]] = kind, m_global[a] = Base[m_global[n]]
      PROVE  m_global'[a] = m_global[a]
  <2>1. n \in Name
    BY <1>3, NameAssumption
  <2>2. m_global[n] # NoType /\ m_global[n] \notin gone
    BY <1>1, <1>3, <2>1, Zenon
  <2>3. m_global[n] \in Registered /\ m_global[n] \in Type
    BY <2>1, <2>2, BoundRegistered, Zenon DEF NameInv, TypeOK
  <2>4. Base[m_global[n]] \in Deps[m_global[n]]
    BY <1>3, <2>3, TypeAssumption, Zenon
  <2> QED BY <1>1, <1>2, <1>3, <2>2, <2>3, <2>4, Zenon
<1>4. \A n \in orphaned : n \in orphaned' \/ m_global'[n] = NoType
  BY <1>1, Zenon DEF StillBound, NameInv, TypeOK
<1>5. \A n \in Name : m_global'[n] \in {NoType, m_global[n]}
  BY <1>1, Zenon
<1> QED BY <1>3, <1>4, <1>5, UnbindMeans, ZenonT(60)

\* removeAlias() orphans the names derived from the one that it takes away.
LEMMA RemoveAliasMeans ==
    ASSUME NameInv, DerivedNamesMean, NEW x \in Name, removeAlias(x)
    PROVE  DerivedNamesMean'
<1>1. /\ m_global' = [m_global EXCEPT ![x] = NoType]
      /\ orphaned' = StillBound(orphaned \cup {Derived[kind][x] : kind \in Kind})
  BY Zenon DEF removeAlias
<1>2. ASSUME NEW kind \in Kind, NEW a \in Name, NEW n, n = Derived[kind][a], n # NoName,
             m_global'[n] # NoType, n \notin orphaned'
      PROVE  m_global'[a] = m_global[a]
  <2>1. n \in Name
    BY <1>2, NameAssumption
  <2>2. a # x
    BY <2>1, <1>1, <1>2, Zenon DEF StillBound
  <2> QED BY <1>1, <2>2, Zenon DEF NameInv, TypeOK
<1>3. \A n \in orphaned : n \in orphaned' \/ m_global'[n] = NoType
  BY <1>1, Zenon DEF StillBound, NameInv, TypeOK
<1>4. \A n \in Name : m_global'[n] \in {NoType, m_global[n]}
  BY <1>1, Zenon DEF NameInv, TypeOK
<1> QED BY <1>2, <1>3, <1>4, UnbindMeans, ZenonT(60)

\* What clearAliases() leaves are the types' own names, and a derived type's own
\* name is derived from the own name of its base.
LEMMA ClearAliasesMeans ==
    ASSUME NameInv, DerivedNamesMean, clearAliases
    PROVE  DerivedNamesMean'
<1>1. /\ m_global' = [n \in Name |-> IF IsAlias(n) THEN NoType ELSE m_global[n]]
      /\ orphaned' = StillBound(orphaned)
  BY Zenon DEF clearAliases
<1>2. ASSUME NEW kind \in Kind, NEW a \in Name, NEW n, n = Derived[kind][a], n # NoName,
             m_global'[n] # NoType, KindOf[m_global[n]] = kind, m_global[a] = Base[m_global[n]]
      PROVE  m_global'[a] = m_global[a]
  <2> DEFINE v == m_global[n]
  <2>1. n \in Name
    BY <1>2, NameAssumption
  <2>2. v # NoType /\ TypeName[v] = n /\ v \in Type
    BY <1>1, <1>2, <2>1, Zenon DEF IsAlias, NameInv, TypeOK
  <2>3. /\ KindOf[v] # NoKind /\ Base[v] \in Type /\ TypeName[Base[v]] \in Name
        /\ n = Derived[kind][TypeName[Base[v]]]
    BY <1>2, <2>2, TypeAssumption, DerivedAssumption, Zenon
  <2>4. a = TypeName[Base[v]]
    BY <1>2, <2>3, DerivedInjective, Zenon
  <2>5. ~IsAlias(a)
    BY <1>2, <2>3, <2>4, Zenon DEF IsAlias
  <2> QED BY <2>5, <1>1, Zenon
<1>3. \A n \in orphaned : n \in orphaned' \/ m_global'[n] = NoType
  BY <1>1, Zenon DEF StillBound, NameInv, TypeOK
<1>4. \A n \in Name : m_global'[n] \in {NoType, m_global[n]}
  BY <1>1, Zenon
<1> QED BY <1>2, <1>3, <1>4, UnbindMeans, ZenonT(60)

\* Every operation of the registry preserves the meaning of derived names.
LEMMA NextDerived == NameInv /\ NameInv' /\ DerivedInv /\ [Next]_vars => DerivedInv'
<1> SUFFICES ASSUME NameInv, NameInv', DerivedInv, [Next]_vars PROVE DerivedInv'
  BY Zenon
<1> USE TypeAssumption
<1>0. NestedCallsDerived /\ DerivedNamesMean /\ BuilderOnTrail
  BY Zenon DEF DerivedInv
<1>1. ASSUME NEW t \in Type, Add(t) PROVE DerivedInv'
  <2>1. builder' = NoBuild /\ pending = {} /\ AddType(t)
    BY <1>1, Zenon DEF Add, Idle
  <2> QED BY <2>1, AddDerived, Zenon DEF DerivedInv, BuilderOnTrail
<1>2. ASSUME NEW t \in Type, Remove(t) PROVE DerivedInv'
  <2>1. Idle /\ UNCHANGED <<pending, builder>>
    BY <1>2, Zenon DEF Remove
  <2> QED BY <2>1, <1>0, <1>2, RemoveMeans, IdleDerived, Zenon
<1>3. CASE CallerDelete
  BY <1>3, <1>0, IdleDerived, Zenon DEF CallerDelete
<1>4. ASSUME NEW base \in Key, NEW n \in AliasName, Alias(base, n) PROVE DerivedInv'
  <2> DEFINE t == m_current[base]
  <2>1. t \in Registered
    <3>1. t # NoType /\ base \in Key
      BY <1>4, Zenon DEF Alias
    <3>2. t \in Registered \cup {NoType}
      BY <3>1, Zenon DEF NameInv, TypeOK, NoDanglingName, DeletedOnce, Registered
    <3> QED BY <3>1, <3>2, Zenon
  <2>2. /\ Bind(n, t) /\ n \in Name /\ builder' = NoBuild /\ orphaned' = orphaned
        /\ pending' = (pending \ {<<t, n>>}) \cup Triggered(m_global', t)
    BY <1>4, NameAssumption, Zenon DEF Alias, Idle
  <2> HIDE DEF t
  <2> QED BY <2>1, <2>2, AliasDerived, Zenon DEF DerivedInv, BuilderOnTrail
<1>5. CASE Propagate
  <2>1. CASE NestedThrow
    <3>1. pending' = {} /\ builder' = NoBuild /\ m_global' = m_global /\ orphaned' = orphaned
      BY <2>1, Zenon DEF NestedThrow
    <3>2. NestedCallsDerived' /\ BuilderOnTrail'
      BY <3>1, Zenon DEF NestedCallsDerived, BuilderOnTrail
    <3>3. DerivedNamesMean'
      BY <3>1, <1>0, ZenonT(60) DEF DerivedNamesMean
    <3> QED BY <3>2, <3>3, Zenon DEF DerivedInv
  <2>2. ASSUME ~NestedThrow PROVE DerivedInv'
    <3>1. PICK c \in pending :
            \/ /\ c[2] # NoName /\ m_current[c[2]] # NoType
               /\ pending' = pending \ {c}
               /\ UNCHANGED <<m_global, m_current, m_namespace, owner, builder, dropped, orphaned>>
            \/ /\ c[2] # NoName /\ m_current[c[2]] = NoType
               /\ Bind(c[2], m_current[TypeName[c[1]]])
               /\ pending' = (pending \ {c}) \cup Triggered(m_global', c[1])
               /\ UNCHANGED <<m_namespace, owner, builder, dropped, orphaned>>
      BY <1>5, <2>2, Zenon DEF Propagate
    <3>2. c = <<c[1], c[2]>> /\ c[2] \in Name /\ c[1] \in Registered
      <4>1. c \in pending /\ c[2] # NoName
        BY <3>1, Zenon
      <4>2. pending \subseteq Type \X (Name \cup {NoName})
        BY Zenon DEF NameInv, TypeOK
      <4>3. c[1] \in Registered
        BY <4>1, Zenon DEF NameInv, CallsRegistered
      <4> QED BY <4>1, <4>2, <4>3
    <3>3. m_current[TypeName[c[1]]] = c[1]
      BY <3>2, Zenon DEF NameInv, AbsoluteNamesMirrored, Registered
    <3>4. BuilderOnTrail'
      BY <3>1, <3>3, PropagateTrail, Zenon
    <3>5. CASE m_current[c[2]] # NoType
      <4>1. m_global' = m_global /\ orphaned' = orphaned /\ pending' \subseteq pending
        BY <3>1, <3>5, Zenon
      <4>2. NestedCallsDerived'
        BY <1>0, <4>1, Zenon DEF NestedCallsDerived
      <4>3. DerivedNamesMean'
        BY <1>0, <4>1, ZenonT(60) DEF DerivedNamesMean
      <4> QED BY <3>4, <4>2, <4>3, Zenon DEF DerivedInv
    <3>6. CASE m_current[c[2]] = NoType
      <4>1. /\ Bind(c[2], c[1]) /\ orphaned' = orphaned
            /\ pending' = (pending \ {<<c[1], c[2]>>}) \cup Triggered(m_global', c[1])
        BY <3>1, <3>2, <3>3, <3>6, Zenon
      <4>2. KindOf[c[1]] # NoKind
            /\ \E a \in Name : c[2] = Derived[KindOf[c[1]]][a] /\ m_global[a] = Base[c[1]]
        BY <1>0, Zenon DEF NestedCallsDerived
      <4> QED BY <4>1, <4>2, <3>2, <3>4, AliasDerived, Zenon DEF DerivedInv
    <3> QED BY <3>5, <3>6, Zenon
  <2> QED BY <2>1, <2>2, Zenon
<1>6. ASSUME NEW name \in BuildName, Build(name) PROVE DerivedInv'
  <2> DEFINE full == getFullName(name)
  <2>1. /\ full \in Name /\ builder' = [goal |-> full, cur |-> m_current[Parsed[full].base],
                                        mods |-> Parsed[full].mods]
        /\ UNCHANGED <<m_global, pending, dropped, orphaned>>
    BY <1>6, Zenon DEF Build
  <2>2. builder'.goal = full /\ builder'.cur = m_current[Parsed[full].base]
        /\ builder'.mods = Parsed[full].mods
    BY <2>1, Zenon
  <2>3. PICK base : base = Parsed[full].base
    BY Zenon
  <2>4. PICK gone : gone = IF IsAlias(base) THEN dropped \cup orphaned ELSE {}
    BY Zenon
  <2>5. base \in Name /\ m_global[base] = builder'.cur /\ m_global[base] # NoType
    BY <1>6, <2>1, <2>2, <2>3, NameAssumption, Zenon DEF Build, NameInv, AbsoluteNamesMirrored
  <2>6. /\ gone \in SUBSET Name
        /\ base = TypeName[builder'.cur] \/ gone = dropped \cup orphaned
    BY <2>4, <2>5, Zenon DEF IsAlias, NameInv, TypeOK
  <2> HIDE DEF full
  <2>7. Spelled(builder.goal)' => OnTrail(base, gone)'
    <3>1. Spelled(builder.goal)' => Trails(base, builder'.mods, builder'.goal, gone) # {}
      BY <2>1, <2>2, <2>3, <2>4, Zenon DEF Spelled, IsAlias
    <3> QED BY <3>1, <2>1, <2>5, <2>6, Zenon DEF OnTrail
  <2>8. BuilderOnTrail'
    BY <2>1, <2>2, <2>3, <2>5, <2>6, <2>7, Zenon DEF BuilderOnTrail
  <2> QED BY <2>1, <2>8, <1>0, ZenonT(60) DEF DerivedInv, NestedCallsDerived, DerivedNamesMean
<1>7. CASE BuildStep
  <2>1. NestedCallsDerived' /\ DerivedNamesMean'
    <3>1. CASE UNCHANGED <<m_global, pending, dropped, orphaned>>
      BY <3>1, <1>0, ZenonT(60) DEF NestedCallsDerived, DerivedNamesMean
    <3>2. ASSUME NEW u \in Type, AddType(u) PROVE NestedCallsDerived' /\ DerivedNamesMean'
      BY <3>2, <1>7, AddDerived, Zenon DEF BuildStep
    <3> QED BY <3>1, <3>2, <1>7, Zenon DEF BuildStep
  <2> QED BY <2>1, <1>7, BuildStepTrail, Zenon DEF DerivedInv
<1>8. CASE BuildDone
  BY <1>8, <1>0, ZenonT(60) DEF BuildDone, DerivedInv, NestedCallsDerived, DerivedNamesMean, BuilderOnTrail
<1>9. ASSUME NEW n \in Name, removeAlias(n) PROVE DerivedInv'
  BY <1>9, <1>0, RemoveAliasMeans, IdleDerived, Zenon DEF removeAlias
<1>10. CASE clearAliases
  BY <1>10, <1>0, ClearAliasesMeans, IdleDerived, Zenon DEF clearAliases
<1>11. CASE clear
  <2>1. pending' = {} /\ builder' = NoBuild /\ m_global' = [n \in Name |-> NoType]
    BY <1>11, Zenon DEF clear, Idle
  <2>2. DerivedNamesMean'
    BY <2>1, NameAssumption DEF DerivedNamesMean
  <2> QED BY <2>1, <2>2, Zenon DEF DerivedInv, NestedCallsDerived, BuilderOnTrail
<1>12. ASSUME NEW ns \in Namespace, setDefaultNamespace(ns) PROVE DerivedInv'
  BY <1>12, <1>0, IdleDerived, Zenon DEF setDefaultNamespace
<1>13. ASSUME NEW ns \in Import, NEW erase \in BOOLEAN, ImportNamespace(ns, erase) PROVE DerivedInv'
  BY <1>13, <1>0, IdleDerived, Zenon DEF ImportNamespace
<1>14. CASE UNCHANGED vars
  <2>1. UNCHANGED <<m_global, pending, builder, dropped, orphaned>>
    BY <1>14, Zenon DEF vars
  <2>2. NestedCallsDerived'
    BY <2>1, <1>0, Zenon DEF NestedCallsDerived
  <2>3. DerivedNamesMean'
    BY <2>1, <1>0, ZenonT(60) DEF DerivedNamesMean
  <2>4. BuilderOnTrail'
    <3>1. builder # NoBuild =>
            /\ m_global'[Parsed[builder.goal].base] # NoType
            /\ Spelled(builder.goal)' => Spelled(builder.goal)
            /\ OwnNamesKept' => OwnNamesKept
      BY <2>1, <1>0, SpelledKept, Zenon
    <3>2. \A a \in Name, gone \in SUBSET Name : OnTrail(a, gone) => OnTrail(a, gone)'
      BY <2>1, Zenon DEF OnTrail
    <3> QED BY <3>1, <3>2, <2>1, <1>0, Zenon DEF BuilderOnTrail
  <2> QED BY <2>2, <2>3, <2>4, Zenon DEF DerivedInv
<1> QED BY <1>1, <1>2, <1>3, <1>4, <1>5, <1>6, <1>7, <1>8, <1>9, <1>10, <1>11, <1>12, <1>13,
           <1>14, Zenon DEF Next

\* The nested calls, the derived names and the builder keep their invariant.
THEOREM DerivedTablesSafe == Spec => []DerivedInv
<1>1. Init => DerivedInv
  <2> SUFFICES ASSUME Init PROVE DerivedInv
    BY Zenon
  <2>1. NestedCallsDerived /\ BuilderOnTrail
    BY Zenon DEF Init, NestedCallsDerived, BuilderOnTrail
  <2>2. DerivedNamesMean
    BY NameAssumption, SMTT(30) DEF Init, DerivedNamesMean
  <2> QED BY <2>1, <2>2, Zenon DEF DerivedInv
<1> QED BY <1>1, NextDerived, NameTablesSafe, PTL DEF Spec

\* A name with modifiers means what it says: build() binds the name that it was
\* asked for, through whatever aliases it is spelled, and a derived name denotes
\* the type derived from what its base name denotes, after any sequence of additions
\* and removals.  Only the names that removeAlias() has orphaned, and build()
\* through aliases whose derived names were taken away, are left out.
THEOREM DerivedNamesBound == Spec => []DerivedNamesBind
<1>1. NameInv /\ DerivedInv => AliasConsistent
  BY Zenon DEF DerivedInv, DerivedNamesMean, AliasConsistent
<1>2. NameInv /\ DerivedInv => BuildBinds
  <2> SUFFICES ASSUME NameInv, DerivedInv, builder # NoBuild, builder.mods = <<>>,
                      pending = {}, Spelled(builder.goal), OwnNamesKept
               PROVE  m_current[builder.goal] = builder.cur
    BY Zenon DEF BuildBinds
  <2>1. PICK a \in Name, gone \in SUBSET Name :
          Trails(a, <<>>, builder.goal, gone) # {} /\ m_global[a] = builder.cur
    BY Zenon DEF DerivedInv, BuilderOnTrail, OnTrail
  <2>2. a = builder.goal
    BY <2>1, TrailEnd, Zenon
  <2> QED BY <2>1, <2>2, Zenon DEF NameInv, AbsoluteNamesMirrored
<1> QED BY <1>1, <1>2, NameTablesSafe, DerivedTablesSafe, PTL DEF DerivedNamesBind

=============================================================================
