---------------------------- MODULE IDLStepProofs ----------------------------
(***************************************************************************)
(* Each kind of step of the IDL exporter keeps its invariant: the steps    *)
(* that write nothing, save() on a type and on an alias, and end().        *)
(***************************************************************************)
EXTENDS ExporterProofs

\* A step that writes nothing: entries may be left out, and save() may throw.
LEMMA Quiet ==
    ASSUME OutputInv,
           UNCHANGED <<deps, persistent, config, idl, m_typedefs, typedefs_it, m_exported_typedefs>>,
           typedefs_it # 1 => pc' = "done",
           thrown' \in BOOLEAN,
           thrown' => \/ thrown
                      \/ /\ typedefs_it = 1
                         /\ \E e \in persistent :
                               Selected(e) /\ (~Supported(e) \/ (e \in Alias /\ Reserved(e) # {})),
           NEW E \in SUBSET Entry, \A f : Emitted(f)' <=> Emitted(f) \/ f \in E,
           \A e \in E : Selected(e) => /\ Supported(e)
                                       /\ e \in Type => ~Blob(e) /\ Ignored(e)
                                       /\ e \in Alias => Tagged(e) \/ Reserved(e) # {} \/ Marked(e)
    PROVE  OutputInv'
<1> USE DEF OutputInv
<1>1. StreamInv'
  BY SameNames, Zenon DEF StreamInv, Finished
<1>2. \A f : Declares(f)' = Declares(f)
  BY Zenon DEF Declares
<1>3. \A f, ns : Lines(f, ns)' = Lines(f, ns)
  BY Zenon DEF Lines
<1>4. \A r, i : Resolved(r, i)' <=> Resolved(r, i)
  BY SameNames, SameConfig, Zenon DEF Resolved
<1>5. \A a : Reserved(a)' = Reserved(a)
  BY Zenon DEF Reserved
<1>6. TypesInv'
  <2>1. \A t \in Type : Written(t)' <=> Written(t)
    BY SameConfig, Zenon DEF Written
  <2>2. \A t, i : DeclaredAt(t, i)' <=> DeclaredAt(t, i)
    BY <1>2, SameNames, SameConfig, Zenon DEF DeclaredAt
  <2> QED BY <1>2, <2>1, <2>2, Zenon DEF TypesInv
<1>7. LinesInv'
  <2>1. \A a \in Alias : Kept(a)' => Kept(a)
    BY <1>5, SameConfig, Zenon DEF Kept, Tagged, Marked
  <2> QED BY <1>3, <2>1, Zenon DEF LinesInv
<1>8. AliasesInv'
  BY <1>2, <1>3, SameConfig, Zenon DEF AliasesInv
<1>9. ReferencesResolved'
  BY <1>4, Zenon DEF ReferencesResolved
<1>10. TypedefsResolved'
  BY <1>4, Zenon DEF TypedefsResolved
<1>11. RefusedInv'
  <2>1. \A e : Supported(e)' <=> Supported(e)
    BY SupportedStays, Zenon
  <2>2. \A e \in Entry : Emitted(e)' /\ Selected(e)' => Supported(e)'
    BY <2>1, SameConfig, Zenon DEF RefusedInv
  <2>3. RefusedWithCause'
    BY <1>5, <2>1, SameConfig, Zenon DEF RefusedInv, RefusedWithCause
  <2> QED BY <2>2, <2>3, Zenon DEF RefusedInv
<1> QED BY <1>1, <1>6, <1>7, <1>8, <1>9, <1>10, <1>11, Zenon

\* save() writes the declaration of a type.
LEMMA SavesType ==
    ASSUME OutputInv, NEW t \in Type, ~thrown, typedefs_it = 1, ~Finished, ~Emitted(t),
           Selected(t), Blob(t) \/ ~Ignored(t), Supported(t), HomeOf(t) \in Seq(Token),
           NEW id \in Identifiers, id = IF Blob(t) THEN Basename[t] ELSE Identifier(t),
           NEW refs \in SUBSET References(Type), \A r \in refs : Resolved(r, Len(idl.stream) + 1),
           StreamWrites, idl' = Write(adaptNamespace(idl, HomeOf(t)), <<Declaration(t, id, refs)>>),
           UNCHANGED <<deps, persistent, config, m_typedefs, typedefs_it, thrown>>,
           m_exported_typedefs \subseteq m_exported_typedefs', \A r \in m_exported_typedefs' : r.type \in Type,
           \A f : Emitted(f)' <=> Emitted(f) \/ f = t
    PROVE  OutputInv'
<1> DEFINE line == [entry |-> t, modules |-> HomeOf(t), id |-> id, refs |-> refs]
<1> USE DEF OutputInv
<1>1. idl \in Streams /\ idl.modules = idl.m_namespace /\ idl.stream \in Seq(Declarations)
  BY Zenon DEF StreamInv, Streams
<1>2. PICK n \in Nat : n = Len(idl.stream)
  BY <1>1
<1>3. /\ idl' \in Streams /\ idl'.modules = HomeOf(t) /\ idl'.m_namespace = HomeOf(t)
      /\ Len(idl'.stream) = n + 1 /\ idl'.stream \in Seq(Declarations)
      /\ \A i \in 1..n : idl'.stream[i] = idl.stream[i]
      /\ idl'.stream[n + 1] = line
  <2>1. PICK decl : decl = Declaration(t, id, refs)
    BY Zenon
  <2>2. decl \in Declarations /\ [decl EXCEPT !.modules = HomeOf(t)] = line
    BY <2>1, DeclarationTyped DEF Entry
  <2> HIDE DEF line
  <2>3. PICK decls : decls = <<decl>>
    BY Zenon
  <2>4. decls \in Seq(Declarations) /\ Len(decls) = 1 /\ decls[1] = decl
    BY <2>2, <2>3
  <2>5. Follow(decls, HomeOf(t), idl, idl')
    BY <2>1, <2>3, <2>4, Zenon DEF StreamWrites
  <2>6. /\ idl' \in Streams /\ idl'.modules = HomeOf(t) /\ idl'.m_namespace = HomeOf(t)
        /\ Len(idl'.stream) = n + 1
        /\ \A i \in 1..n : idl'.stream[i] = idl.stream[i]
    BY <1>2, <2>4, <2>5, Zenon DEF Follow
  <2>7. idl'.stream[n + 1] = line
    <3>1. 1 \in 1..Len(decls)
      BY <2>4
    <3>2. idl'.stream[n + 1] = [decls[1] EXCEPT !.modules = HomeOf(t)]
      BY <1>2, <2>5, <3>1, Zenon DEF Follow
    <3> QED BY <2>2, <2>4, <3>2, Zenon
  <2> QED BY <1>1, <2>6, <2>7, Zenon DEF Streams
<1>4. DOMAIN idl.stream = 1..n /\ DOMAIN idl'.stream = 1..(n + 1)
  BY <1>2, <1>1, <1>3, SMTT(30)
<1>5. /\ \A f : f # t => Declares(f)' = Declares(f)
      /\ Declares(t)' = Declares(t) \cup {n + 1}
  BY <1>3, <1>4, SMTT(30) DEF Declares
<1>6. line.entry = t /\ line.modules = HomeOf(t) /\ line.id = id /\ line.refs = refs
  BY Zenon
<1> HIDE DEF line
<1>7. StreamInv'
  BY <1>3, SameNames, Zenon DEF StreamInv, Finished
<1>8. TypesInv'
  <2> SUFFICES ASSUME NEW f \in Type
               PROVE  (IF Written(f) THEN \E i \in DOMAIN idl.stream : DeclaredAt(f, i) ELSE Declares(f) = {})'
    BY Zenon DEF TypesInv
  <2>1. CASE f = t
    <3>1. Declares(t) = {}
      BY Zenon DEF TypesInv, Written
    <3>2. DeclaredAt(t, n + 1)'
      BY <1>3, <1>5, <1>6, <3>1, SameNames, SameConfig, Zenon DEF DeclaredAt
    <3>3. Written(t)'
      BY SameConfig, Zenon DEF Written
    <3> QED BY <1>3, <1>4, <2>1, <3>2, <3>3
  <2>2. CASE f # t
    <3>1. Written(f)' <=> Written(f)
      BY <2>2, SameConfig, Zenon DEF Written
    <3>2. Declares(f)' = Declares(f)
      BY <1>5, <2>2, Zenon
    <3>3. ASSUME NEW i \in 1..n, DeclaredAt(f, i) PROVE DeclaredAt(f, i)'
      BY <1>3, <3>2, <3>3, SameNames, SameConfig, Zenon DEF DeclaredAt
    <3>4. 1..n \subseteq 1..(n + 1)
      BY <1>3
    <3> QED BY <1>4, <3>1, <3>2, <3>3, <3>4, Zenon DEF TypesInv
  <2> QED BY <2>1, <2>2, Zenon
<1>9. \A a \in Alias : a # t
  BY EntryAssumption, Zenon
<1>10. LinesInv'
  <2>1. \A f, ns : Lines(f, ns)' = Lines(f, ns)
    BY Zenon DEF Lines
  <2>2. \A a \in Alias : Kept(a)' => Kept(a)
    BY <1>9, SameConfig, SupportedStays, Zenon DEF Kept, Tagged, Marked
  <2> QED BY <1>9, <2>1, <2>2, Zenon DEF LinesInv
<1>11. AliasesInv'
  <2>1. \A a \in Alias, k \in DOMAIN NsOrder : Namespace[a] = NsOrder[k] => Declares(a) = {}
    BY NamespacesKnown DEF AliasesInv
  <2>2. \A k \in DOMAIN NsOrder : ~(k < typedefs_it')
    BY NamespacesKnown
  <2> QED BY <1>5, <1>9, <2>1, <2>2, Zenon DEF AliasesInv
<1>12. ReferencesResolved'
  <2> SUFFICES ASSUME NEW i \in 1..(n + 1), NEW r \in idl'.stream[i].refs PROVE Resolved(r, i)'
    BY <1>4, Zenon DEF ReferencesResolved
  <2>1. i \in Nat /\ i <= i
    BY <1>3
  <2>2. CASE i \in 1..n
    <3>1. Resolved(r, i)
      BY <1>3, <1>4, <2>2, Zenon DEF ReferencesResolved
    <3> QED BY <1>3, <2>1, <2>2, <3>1, ResolvedStays, Zenon
  <2>3. CASE i = n + 1
    <3>1. Resolved(r, i)
      BY <1>2, <1>3, <1>6, <2>3, Zenon
    <3> QED BY <1>3, <2>1, <2>3, <3>1, ResolvedStays, Zenon
  <2> QED BY <1>3, <2>2, <2>3
<1>13. TypedefsResolved'
  <2> SUFFICES ASSUME NEW ns \in Range(NsOrder), NEW i \in DOMAIN m_typedefs[ns],
                      NEW r \in m_typedefs[ns][i].refs
               PROVE  Resolved(r, n + 2)'
    BY <1>3 DEF TypedefsResolved
  <2>1. Resolved(r, n + 1)
    BY <1>2, Zenon DEF TypedefsResolved
  <2>2. n + 1 \in 1..(n + 1) /\ n + 2 \in Nat /\ n + 1 <= n + 2
    BY <1>3
  <2> QED BY <1>3, <2>1, <2>2, ResolvedStays, Zenon
<1>14. RefusedInv'
  <2>1. \A e \in Entry : Emitted(e)' /\ Selected(e)' => Supported(e)'
    BY SameConfig, SupportedStays, Zenon DEF RefusedInv
  <2> QED BY <2>1, Zenon DEF RefusedInv, RefusedWithCause
<1> QED BY <1>7, <1>8, <1>10, <1>11, <1>12, <1>13, <1>14, Zenon

\* save() keeps the typedef of an alias for end(), or finds that it needs none.
LEMMA SavesAlias ==
    ASSUME OutputInv, ExportInv, NEW a \in Alias, ~thrown, typedefs_it = 1, ~Emitted(a),
           Target[a] \in saved_types, Supported(a),
           m_typedefs' = IF AliasWritten(a)
                         THEN [m_typedefs EXCEPT ![Namespace[a]] = Append(@,
                                 Declaration(a, stripLeadingUnderscore(Basename[a]), References(AliasRefs(a))))]
                         ELSE m_typedefs,
           UNCHANGED <<deps, persistent, config, idl, typedefs_it, m_exported_typedefs, thrown>>,
           \A f : Emitted(f)' <=> Emitted(f) \/ f = a
    PROVE  OutputInv'
<1> USE DEF OutputInv
<1>1. PICK home : home = Namespace[a]
  BY Zenon
<1> DEFINE decl == Declaration(a, stripLeadingUnderscore(Basename[a]), References(AliasRefs(a)))
<1>2. /\ home \in Range(NsOrder) /\ a \in Entry /\ a \notin Type /\ Target[a] \in Type
      /\ m_typedefs \in [Range(NsOrder) -> Seq(Declarations)]
  BY <1>1, NamespacesKnown, EntryAssumption, Zenon DEF Entry, StreamInv
<1>3. AliasRefs(a) \subseteq saved_types /\ saved_types \subseteq Type
  BY Zenon DEF AliasRefs, ExportInv, SavedInv, TypeOK
<1>4. decl.entry = a /\ decl.refs = References(AliasRefs(a)) /\ decl \in Declarations
  <2>1. stripLeadingUnderscore(Basename[a]) \in Identifiers
    BY <1>2, Zenon DEF Identifiers
  <2>2. References(AliasRefs(a)) \in SUBSET References(Type)
    BY <1>3, Zenon DEF References
  <2> QED BY <1>2, <2>1, <2>2, DeclarationTyped
<1>5. \A r \in References(AliasRefs(a)) : Resolved(r, Len(idl.stream) + 1)
  BY <1>3, SavedResolved, Zenon DEF References
<1> HIDE DEF decl
<1>6. m_typedefs' = IF AliasWritten(a) THEN [m_typedefs EXCEPT ![home] = Append(m_typedefs[home], decl)]
                    ELSE m_typedefs
  BY <1>1, Zenon DEF decl
<1>7. /\ m_typedefs' \in [Range(NsOrder) -> Seq(Declarations)]
      /\ \A ns \in Range(NsOrder) : ns # home \/ ~AliasWritten(a) => m_typedefs'[ns] = m_typedefs[ns]
  BY <1>2, <1>4, <1>6
<1>8. PICK m \in Nat : m = Len(m_typedefs[home])
  BY <1>2
<1>9. DOMAIN m_typedefs[home] = 1..m
  BY <1>2, <1>8, SMTT(30)
<1>10. ASSUME AliasWritten(a)
      PROVE  /\ DOMAIN m_typedefs'[home] = 1..(m + 1) /\ m_typedefs'[home][m + 1] = decl
             /\ \A i \in 1..m : m_typedefs'[home][i] = m_typedefs[home][i]
  <2>1. m_typedefs'[home] = Append(m_typedefs[home], decl) /\ m_typedefs[home] \in Seq(Declarations)
    BY <1>2, <1>6, <1>10, Zenon
  <2> QED BY <1>4, <1>8, <2>1
<1>11. StreamInv'
  BY <1>7, SameNames, Zenon DEF StreamInv, Finished
<1>12. \A f : Declares(f)' = Declares(f)
  BY Zenon DEF Declares
<1>13. TypesInv'
  <2>1. \A t \in Type : Written(t)' <=> Written(t)
    BY <1>2, SameConfig, Zenon DEF Written
  <2>2. \A t, i : DeclaredAt(t, i)' <=> DeclaredAt(t, i)
    BY <1>12, SameNames, SameConfig, Zenon DEF DeclaredAt
  <2> QED BY <1>12, <2>1, <2>2, Zenon DEF TypesInv
<1>14. AliasesInv'
  <2>1. \A b \in Alias, k \in DOMAIN NsOrder : Namespace[b] = NsOrder[k] => Declares(b) = {}
    BY NamespacesKnown DEF AliasesInv
  <2>2. \A k \in DOMAIN NsOrder : ~(k < typedefs_it')
    BY NamespacesKnown
  <2> QED BY <1>12, <2>1, <2>2, Zenon DEF AliasesInv
<1>15. \A r, i : Resolved(r, i)' <=> Resolved(r, i)
  BY SameNames, SameConfig, Zenon DEF Resolved
<1>16. ReferencesResolved'
  BY <1>15, Zenon DEF ReferencesResolved
<1>17. TypedefsResolved'
  <2> SUFFICES ASSUME NEW ns \in Range(NsOrder), NEW i \in DOMAIN m_typedefs'[ns],
                      NEW r \in m_typedefs'[ns][i].refs
               PROVE  Resolved(r, Len(idl.stream) + 1)
    BY <1>15, Zenon DEF TypedefsResolved
  <2>1. CASE ns # home \/ ~AliasWritten(a)
    BY <1>7, <2>1, Zenon DEF TypedefsResolved
  <2>2. CASE ns = home /\ AliasWritten(a) /\ i \in 1..m
    BY <1>2, <1>9, <1>10, <2>2, Zenon DEF TypedefsResolved
  <2>3. CASE ns = home /\ AliasWritten(a) /\ i = m + 1
    BY <1>4, <1>5, <1>10, <2>3, Zenon
  <2> QED BY <1>8, <1>10, <2>1, <2>2, <2>3
<1>18. LinesInv'
  <2>1. ASSUME NEW ns \in Range(NsOrder), NEW i \in DOMAIN m_typedefs'[ns]
        PROVE  m_typedefs'[ns][i].entry \in Alias /\ Namespace[m_typedefs'[ns][i].entry] = ns
    <3>1. CASE ns # home \/ ~AliasWritten(a)
      <4>1. m_typedefs'[ns] = m_typedefs[ns]
        BY <1>7, <3>1, Zenon
      <4> QED BY <4>1, ZenonT(60) DEF LinesInv
    <3>2. CASE ns = home /\ AliasWritten(a) /\ i \in 1..m
      BY <1>2, <1>9, <1>10, <3>2 DEF LinesInv
    <3>3. CASE ns = home /\ AliasWritten(a) /\ i = m + 1
      BY <1>1, <1>4, <1>10, <3>3, Zenon
    <3>4. ASSUME AliasWritten(a), ns = home PROVE i \in 1..m \/ i = m + 1
      <4>1. i \in 1..(m + 1)
        BY <1>10, <3>4, Zenon
      <4> QED BY <4>1
    <3> QED BY <3>1, <3>2, <3>3, <3>4, Zenon
  <2>2. ASSUME NEW b \in Alias, b # a
        PROVE  Lines(b, Namespace[b])' = Lines(b, Namespace[b]) /\ (Kept(b)' <=> Kept(b)) /\ (Emitted(b)' <=> Emitted(b))
    <3>1. Kept(b)' <=> Kept(b)
      BY <2>2, SameConfig, Zenon DEF Kept, Tagged, Marked, Reserved
    <3>2. Namespace[b] \in Range(NsOrder)
      BY NamespacesKnown, Zenon DEF Entry
    <3>3. CASE Namespace[b] # home \/ ~AliasWritten(a)
      BY <1>7, <3>1, <3>2, <3>3, <2>2, Zenon DEF Lines
    <3>4. CASE Namespace[b] = home /\ AliasWritten(a)
      <4>1. Lines(b, home)' = {i \in 1..(m + 1) : m_typedefs'[home][i].entry = b}
        BY <1>10, <3>4, Zenon DEF Lines
      <4>2. Lines(b, home) = {i \in 1..m : m_typedefs[home][i].entry = b}
        BY <1>9, ZenonT(60) DEF Lines
      <4>3. Lines(b, home)' = Lines(b, home)
        BY <1>4, <1>8, <1>10, <2>2, <3>4, <4>1, <4>2
      <4> QED BY <2>2, <3>1, <3>4, <4>3, Zenon
    <3> QED BY <3>3, <3>4, Zenon
  <2>3. Lines(a, home) = {}
    BY <1>1, Zenon DEF LinesInv
  <2>4. ASSUME AliasWritten(a) PROVE \E i : Lines(a, home)' = {i}
    <3>1. Lines(a, home)' = {i \in 1..(m + 1) : m_typedefs'[home][i].entry = a}
      BY <1>10, <2>4, Zenon DEF Lines
    <3>2. \A i \in 1..m : m_typedefs[home][i].entry # a
      BY <1>9, <2>3, ZenonT(60) DEF Lines
    <3>3. Lines(a, home)' = {m + 1}
      BY <1>4, <1>8, <1>10, <2>4, <3>1, <3>2
    <3> QED BY <3>3, Zenon
  <2>5. ASSUME ~AliasWritten(a) PROVE Lines(a, home)' = {} /\ ~Kept(a)'
    <3>1. Lines(a, home)' = {}
      BY <1>2, <1>7, <2>3, <2>5, Zenon DEF Lines
    <3>2. ~Kept(a)'
      BY <2>5, SameConfig, Zenon DEF Kept
    <3> QED BY <3>1, <3>2, Zenon
  <2>6. (\A i, j \in Lines(a, home)' : i = j) /\ (Kept(a)' => Lines(a, home)' # {})
    BY <2>4, <2>5, Zenon
  <2>7. ASSUME NEW b \in Alias
        PROVE  (/\ ~Emitted(b) => Lines(b, Namespace[b]) = {}
                /\ \A i, j \in Lines(b, Namespace[b]) : i = j
                /\ Kept(b) => Lines(b, Namespace[b]) # {})'
    <3>1. CASE b = a
      <4>1. Emitted(b)' /\ Namespace[b] = home
        BY <1>1, <3>1, Zenon
      <4> QED BY <2>6, <3>1, <4>1, Zenon DEF Lines
    <3>2. CASE b # a
      <4>1. /\ ~Emitted(b) => Lines(b, Namespace[b]) = {}
            /\ \A i, j \in Lines(b, Namespace[b]) : i = j
            /\ Kept(b) => Lines(b, Namespace[b]) # {}
        BY Zenon DEF LinesInv
      <4>2. /\ Lines(b, Namespace[b])' = Lines(b, Namespace[b])
            /\ (Kept(b)' <=> Kept(b)) /\ (Emitted(b)' <=> Emitted(b))
        BY <2>2, <3>2, Zenon
      <4> QED BY <4>1, <4>2, Zenon
    <3> QED BY <3>1, <3>2, Zenon
  <2> QED BY <2>1, <2>7, Zenon DEF LinesInv
<1>19. RefusedInv'
  <2>1. \A e \in Entry : Emitted(e)' /\ Selected(e)' => Supported(e)'
    BY SameConfig, SupportedStays, Zenon DEF RefusedInv
  <2> QED BY <2>1, Zenon DEF RefusedInv, RefusedWithCause
<1> QED BY <1>11, <1>13, <1>14, <1>16, <1>17, <1>18, <1>19, Zenon

\* end() writes the typedefs of a namespace, and comes to the next one.
LEMMA WritesTypedefs ==
    ASSUME OutputInv, StreamWrites, generateTypedefs, deps' = deps, persistent' = persistent,
           \A f : Emitted(f)' <=> Emitted(f)
    PROVE  OutputInv'
<1> USE DEF OutputInv
<1>1. PICK k \in TypedefsLeft :
        /\ \A l \in TypedefsLeft : k <= l
        /\ idl' = Write(adaptNamespace(idl, getIDLAbsoluteNamespace(NsOrder[k])), m_typedefs[NsOrder[k]])
        /\ typedefs_it' = k + 1
  BY Zenon DEF generateTypedefs
<1>2. /\ ~thrown /\ pc = "done" /\ pc' = "done"
      /\ UNCHANGED <<config, m_typedefs, m_exported_typedefs, thrown>>
  BY Zenon DEF generateTypedefs, vars
<1>3. /\ Len(NsOrder) \in Nat /\ DOMAIN NsOrder = 1..Len(NsOrder)
      /\ typedefs_it \in Nat /\ typedefs_it >= 1 /\ typedefs_it <= Len(NsOrder) + 2
  BY NamespacesKnown DEF StreamInv
<1>4. k \in DOMAIN NsOrder /\ typedefs_it <= k /\ k <= Len(NsOrder) /\ m_typedefs[NsOrder[k]] # <<>>
  BY <1>1, <1>3 DEF TypedefsLeft
<1>5. ~Finished /\ ~Finished'
  BY <1>1, <1>3, <1>4 DEF Finished, EndOfFile
<1>6. PICK ns : ns = NsOrder[k]
  BY Zenon
<1>7. /\ ns \in Range(NsOrder) /\ ns \in Seq(Token)
      /\ m_typedefs \in [Range(NsOrder) -> Seq(Declarations)] /\ m_typedefs[ns] \in Seq(Declarations)
  BY <1>4, <1>6, NamespacesKnown, Zenon DEF StreamInv, Range
<1>8. PICK home : home = getIDLAbsoluteNamespace(ns)
  BY Zenon
<1>9. home \in Seq(Token)
  BY <1>7, <1>8, AbsoluteNamespace, Zenon DEF StreamInv
<1>10. idl \in Streams /\ idl.modules = idl.m_namespace /\ idl.stream \in Seq(Declarations)
  BY <1>5, Zenon DEF StreamInv, Streams
<1>11. PICK n \in Nat, m \in Nat : n = Len(idl.stream) /\ m = Len(m_typedefs[ns])
  BY <1>7, <1>10
<1>12. n \in Nat /\ m \in Nat
  BY <1>11, Zenon
<1>13. /\ idl' \in Streams /\ idl'.modules = home /\ idl'.m_namespace = home
       /\ Len(idl'.stream) = n + m
       /\ \A i \in 1..n : idl'.stream[i] = idl.stream[i]
       /\ \A i \in 1..m : idl'.stream[n + i] = [m_typedefs[ns][i] EXCEPT !.modules = home]
  <2>1. idl' = Write(adaptNamespace(idl, home), m_typedefs[ns])
    BY <1>1, <1>6, <1>8, Zenon
  <2>2. PICK decls : decls = m_typedefs[ns]
    BY Zenon
  <2>3. Follow(decls, home, idl, idl')
    BY <1>5, <1>7, <1>9, <2>1, <2>2, Zenon DEF StreamWrites
  <2> QED BY <1>11, <2>2, <2>3, Zenon DEF Follow
<1>14. ASSUME NEW i \in 1..m
       PROVE  /\ idl'.stream[n + i].entry = m_typedefs[ns][i].entry
              /\ idl'.stream[n + i].modules = home
              /\ idl'.stream[n + i].refs = m_typedefs[ns][i].refs
  <2>1. m_typedefs[ns][i] \in Declarations
    BY <1>7, <1>11
  <2>2. idl'.stream[n + i] = [m_typedefs[ns][i] EXCEPT !.modules = home]
    BY <1>13, Zenon
  <2> QED BY <2>1, <2>2, Zenon DEF Declarations
<1>15. /\ DOMAIN idl.stream = 1..n /\ DOMAIN idl'.stream = 1..(n + m) /\ DOMAIN m_typedefs[ns] = 1..m
  <2>1. idl'.stream \in Seq(Declarations')
    BY <1>13, SameNames, <1>2, Zenon DEF Streams
  <2> QED BY <1>7, <1>10, <1>11, <1>13, <2>1, SMTT(30)
<1>16. \A j \in 1..(n + m) : j \in 1..n \/ \E i \in 1..m : j = n + i
  BY <1>12, Positions, Zenon
<1>17. \A i \in 1..m : m_typedefs[ns][i].entry \in Alias /\ Namespace[m_typedefs[ns][i].entry] = ns
  BY <1>7, <1>15, Zenon DEF LinesInv
<1>18. ASSUME NEW f, f \in Alias => Namespace[f] # ns
       PROVE  Declares(f)' = Declares(f)
  <2>1. Declares(f) = {j \in 1..n : idl.stream[j].entry = f}
    BY <1>15, Zenon DEF Declares
  <2>2. Declares(f)' = {j \in 1..(n + m) : idl'.stream[j].entry = f}
    BY <1>15, Zenon DEF Declares
  <2>3. ASSUME NEW i \in 1..m PROVE idl'.stream[n + i].entry # f
    <3>1. idl'.stream[n + i].entry = m_typedefs[ns][i].entry
      BY <1>14, Zenon
    <3>2. m_typedefs[ns][i].entry \in Alias /\ Namespace[m_typedefs[ns][i].entry] = ns
      BY <1>17, Zenon
    <3> QED BY <1>18, <3>1, <3>2, Zenon
  <2>4. 1..n \subseteq 1..(n + m)
    BY <1>12, Positions, Zenon
  <2> QED BY <1>13, <1>16, <2>1, <2>2, <2>3, <2>4, SMTT(30)
<1>19. StreamInv'
  <2>1. typedefs_it' \in 1..EndOfFile
    BY <1>1, <1>3, <1>4 DEF EndOfFile
  <2> QED BY <1>2, <1>5, <1>13, <2>1, SameNames, Zenon DEF StreamInv
<1>20. TypesInv'
  <2> SUFFICES ASSUME NEW t \in Type
               PROVE  (IF Written(t) THEN \E i \in DOMAIN idl.stream : DeclaredAt(t, i) ELSE Declares(t) = {})'
    BY Zenon DEF TypesInv
  <2>1. Declares(t)' = Declares(t)
    BY <1>18, EntryAssumption, Zenon
  <2>2. Written(t)' <=> Written(t)
    BY <1>2, SameConfig, Zenon DEF Written
  <2>3. ASSUME NEW i \in 1..n, DeclaredAt(t, i) PROVE DeclaredAt(t, i)'
    <3>1. idl'.stream[i] = idl.stream[i]
      BY <1>13, Zenon
    <3>2. HomeOf(t)' = HomeOf(t) /\ (Blob(t)' <=> Blob(t)) /\ Identifier(t)' = Identifier(t)
      BY <1>2, SameNames, SameConfig, Zenon
    <3> QED BY <2>1, <2>3, <3>1, <3>2, Zenon DEF DeclaredAt
  <2>4. 1..n \subseteq 1..(n + m)
    BY <1>12, Positions, Zenon
  <2> QED BY <1>15, <2>1, <2>2, <2>3, <2>4, Zenon DEF TypesInv
<1>21. \A f, h : Lines(f, h)' = Lines(f, h)
  BY <1>2, Zenon DEF Lines
<1>22. LinesInv'
  <2>1. \A a \in Alias : Kept(a)' => Kept(a)
    BY <1>2, SameConfig, Zenon DEF Kept, Tagged, Marked, Reserved
  <2> QED BY <1>2, <1>21, <2>1, Zenon DEF LinesInv
<1>23. AliasesInv'
  <2> SUFFICES ASSUME NEW a \in Alias, NEW l \in DOMAIN NsOrder, Namespace[a] = NsOrder[l]
               PROVE  (IF l < typedefs_it
                       THEN /\ \A i \in Declares(a) : idl.stream[i].modules = HomeOf(a)
                            /\ \A i, j \in Declares(a) : i = j
                            /\ Lines(a, Namespace[a]) # {} => Declares(a) # {}
                       ELSE Declares(a) = {})'
    BY Zenon DEF AliasesInv
  <2>1. l \in Nat /\ k \in Nat
    BY <1>3, <1>4
  <2>2. CASE l = k
    <3>1. Declares(a) = {} /\ Namespace[a] = ns
      BY <1>3, <1>4, <1>6, <2>1, <2>2 DEF AliasesInv
    <3>2. \A j \in 1..n : idl.stream[j].entry # a
      BY <1>15, <3>1, Zenon DEF Declares
    <3>3. \A j \in Declares(a)' : \E i \in Lines(a, ns) : j = n + i
      <4>1. \A j \in Declares(a)' : j \in 1..(n + m) /\ idl'.stream[j].entry = a
        BY <1>15, Zenon DEF Declares
      <4>2. \A j \in 1..n : idl'.stream[j].entry # a
        BY <1>13, <3>2, Zenon
      <4>3. \A i \in 1..m : idl'.stream[n + i].entry = a => i \in Lines(a, ns)
        BY <1>14, <1>15, Zenon DEF Lines
      <4> QED BY <1>16, <4>1, <4>2, <4>3, Zenon
    <3>4. \A i \in Lines(a, ns) : n + i \in Declares(a)'
      <4>1. \A i \in Lines(a, ns) : i \in 1..m /\ n + i \in 1..(n + m)
        BY <1>15, <1>12, Positions, Zenon DEF Lines
      <4> QED BY <1>14, <1>15, <4>1, Zenon DEF Lines, Declares
    <3>5. \A i, j \in Lines(a, ns) : i = j
      BY <3>1, Zenon DEF LinesInv
    <3>6. \A i \in Lines(a, ns) : i \in 1..m /\ idl'.stream[n + i].modules = home
      BY <1>14, <1>15, Zenon DEF Lines
    <3>7. HomeOf(a)' = home
      <4>1. HomeOf(a) = home
        BY <1>8, <3>1, EntryAssumption, Zenon DEF HomeOf
      <4> QED BY <1>2, <4>1, SameConfig, Zenon
    <3>8. l < typedefs_it'
      BY <1>1, <2>1, <2>2, SMTT(30)
    <3> QED BY <1>21, <3>1, <3>3, <3>4, <3>5, <3>6, <3>7, <3>8, Zenon
  <2>3. CASE l # k
    <3>1. Namespace[a] # ns
      BY <1>4, <1>6, <2>3, IDLAssumption, Zenon
    <3>2. Declares(a)' = Declares(a)
      BY <1>18, <3>1, Zenon
    <3>3. \A i \in Declares(a) : i \in 1..n /\ idl'.stream[i] = idl.stream[i]
      BY <1>13, <1>15, Zenon DEF Declares
    <3>4. CASE l < typedefs_it
      <4>1. l < typedefs_it'
        BY <1>1, <1>3, <1>4, <2>1, <3>4
      <4> QED BY <1>2, <1>21, <3>2, <3>3, <3>4, <4>1, SameConfig, ZenonT(60) DEF AliasesInv
    <3>5. CASE ~(l < typedefs_it) /\ l < k
      <4>1. Declares(a) = {}
        BY <3>5, Zenon DEF AliasesInv
      <4>2. l \notin TypedefsLeft
        BY <1>1, <2>1, <3>5, SMTT(30)
      <4>3. m_typedefs[NsOrder[l]] = <<>>
        BY <1>3, <2>1, <3>5, <4>2, SMTT(30) DEF TypedefsLeft
      <4>4. Lines(a, Namespace[a]) = {}
        BY <4>3 DEF Lines
      <4> QED BY <1>21, <3>2, <4>1, <4>4, Zenon
    <3>6. CASE ~(l < typedefs_it) /\ k < l
      <4>1. Declares(a) = {} /\ ~(l < typedefs_it')
        BY <1>1, <2>1, <3>6 DEF AliasesInv
      <4> QED BY <3>2, <4>1, Zenon
    <3> QED BY <2>1, <2>3, <3>4, <3>5, <3>6
  <2> QED BY <2>2, <2>3, Zenon
<1>24. ReferencesResolved'
  <2> SUFFICES ASSUME NEW i \in 1..(n + m), NEW r \in idl'.stream[i].refs PROVE Resolved(r, i)'
    BY <1>15, Zenon DEF ReferencesResolved
  <2>1. i \in Nat /\ i <= i
    BY <1>12, Positions, Zenon
  <2>2. CASE i \in 1..n
    <3>1. Resolved(r, i) /\ i \in 1..(n + 1)
      BY <1>13, <1>15, <1>12, <2>2, Positions, Zenon DEF ReferencesResolved
    <3> QED BY <1>2, <1>12, <1>13, <2>1, <3>1, ResolvedStays, Zenon
  <2>3. ASSUME NEW j \in 1..m, i = n + j PROVE Resolved(r, i)'
    <3>1. Resolved(r, n + 1)
      BY <1>7, <1>11, <1>14, <1>15, <2>3, ZenonT(60) DEF TypedefsResolved
    <3>2. n + 1 \in 1..(n + 1) /\ n + 1 <= i
      BY <1>12, <2>3, Positions, Zenon
    <3> QED BY <1>2, <1>12, <1>13, <2>1, <3>1, <3>2, ResolvedStays, Zenon
  <2> QED BY <1>16, <2>2, <2>3, Zenon
<1>25. TypedefsResolved'
  <2> SUFFICES ASSUME NEW h \in Range(NsOrder), NEW i \in DOMAIN m_typedefs[h], NEW r \in m_typedefs[h][i].refs
               PROVE  \A j \in Nat : j = n + m + 1 => Resolved(r, j)'
    BY <1>2, <1>13 DEF TypedefsResolved
  <2>1. Resolved(r, n + 1)
    BY <1>11, Zenon DEF TypedefsResolved
  <2>2. n + 1 \in 1..(n + 1) /\ n + m + 1 \in Nat /\ n + 1 <= n + m + 1
    BY <1>12, Positions, Zenon
  <2> QED BY <1>2, <1>13, <1>12, <2>1, <2>2, ResolvedStays, Zenon
<1>26. RefusedInv'
  <2>1. \A e \in Entry : Emitted(e)' /\ Selected(e)' => Supported(e)'
    BY <1>2, SameConfig, SupportedStays, Zenon DEF RefusedInv
  <2> QED BY <1>2, <2>1, Zenon DEF RefusedInv, RefusedWithCause
<1> QED BY <1>19, <1>20, <1>22, <1>23, <1>24, <1>25, <1>26, Zenon

\* end() closes the modules that are open.
LEMMA Ends ==
    ASSUME OutputInv, IDLEnd, deps' = deps, persistent' = persistent,
           \A f : Emitted(f)' <=> Emitted(f)
    PROVE  OutputInv'
<1> USE DEF OutputInv
<1>1. /\ ~thrown /\ pc = "done" /\ pc' = "done" /\ TypedefsLeft = {} /\ ~Finished
      /\ idl' = closeNamespaces(idl, Len(idl.m_namespace)) /\ typedefs_it' = EndOfFile
      /\ UNCHANGED <<config, m_typedefs, m_exported_typedefs, thrown>>
  BY Zenon DEF IDLEnd, Finished, vars
<1>2. /\ Len(NsOrder) \in Nat /\ DOMAIN NsOrder = 1..Len(NsOrder)
      /\ typedefs_it \in Nat /\ EndOfFile \in Nat /\ EndOfFile \in 1..EndOfFile /\ EndOfFile # 1
      /\ \A l \in DOMAIN NsOrder : l \in Nat /\ l < EndOfFile
  BY NamespacesKnown DEF StreamInv
<1>3. /\ idl \in Streams /\ idl.m_namespace \in Seq(Token) /\ idl.modules = idl.m_namespace
      /\ Len(idl.m_namespace) \in Nat
  <2>1. idl \in Streams /\ idl.modules = idl.m_namespace
    BY <1>1, Zenon DEF StreamInv
  <2>2. idl.m_namespace \in Seq(Token)
    BY <2>1, Zenon DEF Streams
  <2> QED BY <2>1, <2>2
<1>4. idl' \in Streams /\ idl'.modules = <<>> /\ idl'.stream = idl.stream
  <2>1. Len(idl.m_namespace) <= Len(idl.modules) /\ Len(idl.modules) - Len(idl.m_namespace) = 0
    BY <1>3
  <2>2. SubSeq(idl.modules, 1, Len(idl.modules) - Len(idl.m_namespace)) = <<>>
    <3>1. SubSeq(idl.modules, 1, 0) = <<>>
      OBVIOUS
    <3> QED BY <2>1, <3>1, Zenon
  <2>3. idl' = [m_namespace |-> idl.m_namespace, modules |-> <<>>, fresh |-> 0, malformed |-> FALSE,
                stream |-> idl.stream]
    BY <1>1, <1>3, <2>1, <2>2, Closes, Zenon
  <2>4. <<>> \in Seq(Token) /\ idl.stream \in Seq(Declarations)
    BY <1>3 DEF Streams
  <2> QED BY <1>3, <2>3, <2>4, Zenon DEF Streams
<1>5. StreamInv'
  <2>1. Finished'
    BY <1>1, Zenon DEF Finished, EndOfFile
  <2> QED BY <1>1, <1>2, <1>4, <2>1, SameNames, Zenon DEF StreamInv
<1>6. \A f : Declares(f)' = Declares(f)
  BY <1>4, Zenon DEF Declares
<1>7. \A f, ns : Lines(f, ns)' = Lines(f, ns)
  BY <1>1, Zenon DEF Lines
<1>8. TypesInv'
  <2>1. \A t \in Type : Written(t)' <=> Written(t)
    BY <1>1, SameConfig, Zenon DEF Written
  <2>2. \A t, i : DeclaredAt(t, i)' <=> DeclaredAt(t, i)
    BY <1>1, <1>4, <1>6, SameNames, SameConfig, Zenon DEF DeclaredAt
  <2> QED BY <1>4, <1>6, <2>1, <2>2, Zenon DEF TypesInv
<1>9. LinesInv'
  <2>1. \A a \in Alias : Kept(a)' => Kept(a)
    BY <1>1, SameConfig, Zenon DEF Kept, Tagged, Marked, Reserved
  <2> QED BY <1>1, <1>7, <2>1, Zenon DEF LinesInv
<1>10. AliasesInv'
  <2> SUFFICES ASSUME NEW a \in Alias, NEW l \in DOMAIN NsOrder, Namespace[a] = NsOrder[l]
               PROVE  /\ \A i \in Declares(a) : idl.stream[i].modules = HomeOf(a)
                      /\ \A i, j \in Declares(a) : i = j
                      /\ Lines(a, Namespace[a]) # {} => Declares(a) # {}
    <3>1. \A a : HomeOf(a)' = HomeOf(a)
      BY <1>1, SameConfig, Zenon
    <3> QED BY <1>1, <1>2, <1>4, <1>6, <1>7, <3>1, Zenon DEF AliasesInv
  <2>1. CASE l < typedefs_it
    BY <2>1, Zenon DEF AliasesInv
  <2>2. CASE ~(l < typedefs_it)
    <3>1. Declares(a) = {}
      BY <2>2, Zenon DEF AliasesInv
    <3>2. m_typedefs[NsOrder[l]] = <<>>
      BY <1>1, <1>2, <2>2 DEF TypedefsLeft
    <3> QED BY <3>1, <3>2 DEF Lines
  <2> QED BY <2>1, <2>2, Zenon
<1>11. \A r, i : Resolved(r, i)' <=> Resolved(r, i)
  BY <1>1, <1>4, SameNames, SameConfig, Zenon DEF Resolved
<1>12. ReferencesResolved' /\ TypedefsResolved'
  BY <1>1, <1>4, <1>11, Zenon DEF ReferencesResolved, TypedefsResolved
<1>13. RefusedInv'
  <2>1. \A e \in Entry : Emitted(e)' /\ Selected(e)' => Supported(e)'
    BY <1>1, SameConfig, SupportedStays, Zenon DEF RefusedInv
  <2> QED BY <1>1, <2>1, Zenon DEF RefusedInv, RefusedWithCause
<1> QED BY <1>5, <1>8, <1>9, <1>10, <1>12, <1>13, Zenon

\* Nothing is written in the initial state.
LEMMA OutputInit == IDLInit => OutputInv
<1> SUFFICES ASSUME IDLInit PROVE OutputInv
  BY Zenon
<1>1. /\ deps \in Dependencies /\ config \in Configs /\ output = <<>> /\ thrown = FALSE /\ typedefs_it = 1
      /\ idl = [m_namespace |-> <<>>, modules |-> <<>>, fresh |-> 0, malformed |-> FALSE, stream |-> <<>>]
      /\ m_typedefs = [ns \in Range(NsOrder) |-> <<>>] /\ m_exported_typedefs = {}
  BY Zenon DEF IDLInit, Init
<1>2. Len(NsOrder) \in Nat /\ EndOfFile # 1 /\ 1 \in 1..EndOfFile /\ \A l \in DOMAIN NsOrder : ~(l < 1)
  BY NamespacesKnown
<1>3. idl \in Streams /\ idl.stream = <<>> /\ idl.modules = idl.m_namespace
  <2>1. <<>> \in Seq(Token) /\ <<>> \in Seq(Declarations)
    OBVIOUS
  <2> QED BY <1>1, <2>1, Zenon DEF Streams
<1>4. StreamInv
  <2>1. m_typedefs \in [Range(NsOrder) -> Seq(Declarations)]
    BY <1>1
  <2> QED BY <1>1, <1>2, <1>3, <2>1, Zenon DEF StreamInv, Finished
<1>5. \A f : Declares(f) = {} /\ ~Emitted(f)
  BY <1>1, <1>3 DEF Declares, Emitted
<1>6. TypesInv /\ AliasesInv
  BY <1>1, <1>2, <1>5, Zenon DEF TypesInv, AliasesInv, Written
<1>7. \A ns \in Range(NsOrder) : m_typedefs[ns] = <<>>
  BY <1>1, Zenon
<1>8. LinesInv
  <2>1. \A a \in Alias : Lines(a, Namespace[a]) = {}
    <3>1. \A a \in Alias : Namespace[a] \in Range(NsOrder)
      BY NamespacesKnown, Zenon DEF Entry
    <3> QED BY <1>7, <3>1 DEF Lines
  <2>2. \A ns \in Range(NsOrder) : DOMAIN m_typedefs[ns] = {}
    BY <1>7
  <2> QED BY <1>5, <2>1, <2>2, Zenon DEF LinesInv, Kept
<1>9. ReferencesResolved /\ TypedefsResolved
  BY <1>3, <1>7 DEF ReferencesResolved, TypedefsResolved
<1>10. RefusedInv
  BY <1>1, <1>5, Zenon DEF RefusedInv, RefusedWithCause
<1> QED BY <1>4, <1>6, <1>8, <1>9, <1>10, Zenon DEF OutputInv

==============================================================================
