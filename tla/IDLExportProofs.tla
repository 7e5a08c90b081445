-------------------------- MODULE IDLExportProofs --------------------------
(***************************************************************************)
(* The IDL exporter, for every registry, configuration and selection: it   *)
(* is an exporter, so that what is proved of the order of the entries      *)
(* holds of it; all that its declarations refer to is declared before,     *)
(* where the text looks for it; each entry is declared once, in its own    *)
(* modules; it refuses exactly the registries it cannot express; and the   *)
(* relative names it gives to types reach them.                            *)
(***************************************************************************)
EXTENDS IDLStepProofs, WellFoundedInduction, SequenceTheorems

-----------------------------------------------------------------------------
(* The stream *)

\* A nonempty set of natural numbers with a bound has a greatest element.
LEMMA GreatestNat ==
    ASSUME NEW n \in Nat, NEW S \in SUBSET (0..n), S # {}
    PROVE  Longest(S) \in S /\ \A k \in S : k <= Longest(S)
<1> DEFINE R == {p \in Nat \X Nat : p[1] < p[2]}
           F == {k \in 0..n : n - k \in S}
<1>1. IsWellFoundedOn(R, Nat)
  BY NatLessThanWellFounded, Zenon DEF OpToRel
<1>2. F \subseteq 0..n /\ F # {}
  <2>1. PICK k \in S : TRUE
    BY Zenon
  <2>2. n - k \in 0..n /\ n - (n - k) = k
    OBVIOUS
  <2>3. n - k \in F
    BY <2>2, Zenon
  <2> QED BY <2>3, Zenon
<1>3. F \in SUBSET Nat
  BY <1>2
<1>4. \A k \in F, m \in F : <<k, m>> \in R <=> k < m
  OBVIOUS
<1> HIDE DEF R
<1>5. PICK m \in F : \A k \in F : <<k, m>> \notin R
  BY <1>1, <1>2, <1>3, WFMin, Zenon
<1>6. \A k \in F : ~(k < m)
  BY <1>4, <1>5, Zenon
<1>7. ASSUME NEW x \in S PROVE n - m >= x
  <2>1. n - x \in 0..n /\ n - (n - x) = x /\ m \in 0..n
    BY <1>5
  <2>2. ~(n - x < m)
    BY <1>6, <2>1, Zenon
  <2> QED BY <2>1, <2>2
<1>8. n - m \in S /\ \A x \in S : x <= n - m
  BY <1>5, <1>7, Zenon
<1> QED BY <1>8, Zenon DEF Longest

\* The common prefix of two namespaces.
LEMMA CommonPrefix ==
    ASSUME NEW s \in Seq(Token), NEW t \in Seq(Token)
    PROVE  /\ CommonLength(s, t) \in 0..Len(s) /\ CommonLength(s, t) <= Len(t)
           /\ SubSeq(s, 1, CommonLength(s, t)) = SubSeq(t, 1, CommonLength(s, t))
<1> DEFINE K == {k \in 0..Len(s) : k <= Len(t) /\ SubSeq(s, 1, k) = SubSeq(t, 1, k)}
<1>1. Len(s) \in Nat /\ Len(t) \in Nat
  OBVIOUS
<1>2. SubSeq(s, 1, 0) = <<>> /\ SubSeq(t, 1, 0) = <<>>
  BY SubSeqEmpty
<1>3. K \in SUBSET (0..Len(s)) /\ 0 \in K
  BY <1>1, <1>2
<1>4. Longest(K) \in K
  BY <1>1, <1>3, GreatestNat, Zenon
<1>5. CommonLength(s, t) = Longest(K)
  BY Zenon DEF CommonLength
<1> QED BY <1>4, <1>5, Zenon

\* Closing the modules that are left and opening those that are entered.
LEMMA Rejoined ==
    ASSUME NEW s \in Seq(Token), NEW t \in Seq(Token)
    PROVE  SubSeq(s, 1, CommonLength(s, t)) \o SubSeq(t, CommonLength(s, t) + 1, Len(t)) = t
<1> DEFINE k == CommonLength(s, t)
<1>1. /\ k \in 0..Len(t) /\ SubSeq(s, 1, k) = SubSeq(t, 1, k) /\ Len(t) \in Nat
      /\ 1 \in 1..(Len(t) + 1) /\ k \in (1 - 1)..Len(t) /\ Len(t) \in k..Len(t)
  <2>1. k \in 0..Len(t) /\ SubSeq(s, 1, k) = SubSeq(t, 1, k)
    BY CommonPrefix, SMTT(30)
  <2> HIDE DEF k
  <2>2. Len(t) \in Nat
    OBVIOUS
  <2> QED BY <2>1, <2>2
<1> HIDE DEF k
<1>2. SubSeq(t, 1, k) \o SubSeq(t, k + 1, Len(t)) = SubSeq(t, 1, Len(t))
  BY <1>1, ConcatAdjacentSubSeq, Zenon
<1>3. SubSeq(t, 1, Len(t)) = t
  BY SubSeqFull, Zenon
<1> QED BY <1>1, <1>2, <1>3, Zenon DEF k

\* Moving to another namespace: its modules are the ones that are open, none was
\* closed empty, and nothing is declared on the way.
LEMMA Adapted ==
    ASSUME NEW st \in Streams, st.modules = st.m_namespace, NEW ns \in Seq(Token)
    PROVE  /\ adaptNamespace(st, ns) \in [m_namespace : Seq(Token), modules : Seq(Token), fresh : Nat,
                                          malformed : {FALSE}, stream : Seq(Declarations)]
           /\ (adaptNamespace(st, ns)).m_namespace = ns /\ (adaptNamespace(st, ns)).modules = ns
           /\ (adaptNamespace(st, ns)).stream = st.stream
<1> DEFINE old == st.m_namespace
           k == CommonLength(old, ns)
           names == SubSeq(ns, k + 1, Len(ns))
<1>1. PICK written, no : written = st.stream /\ no = FALSE
  BY Zenon
<1>2. /\ st = [m_namespace |-> old, modules |-> old, fresh |-> 0, malformed |-> no, stream |-> written]
      /\ st.modules = old /\ st.fresh = 0 /\ st.malformed = no
  BY <1>1, Zenon DEF Streams
<1>3. old \in Seq(Token) /\ written \in Seq(Declarations) /\ Len(old) \in Nat /\ Len(ns) \in Nat
  BY <1>1 DEF Streams
<1> HIDE DEF old
<1>4. CASE old = ns
  <2>1. adaptNamespace(st, ns) = st
    BY <1>4, Zenon DEF adaptNamespace, old
  <2>2. no \in {FALSE}
    BY <1>1, Zenon
  <2>3. st \in [m_namespace : Seq(Token), modules : Seq(Token), fresh : Nat, malformed : {FALSE},
               stream : Seq(Declarations)]
    BY <1>2, <1>3, <2>2, Zenon
  <2> QED BY <1>2, <1>4, <2>1, <2>3, Zenon DEF old
<1>5. CASE old # ns
  <2>1. k \in 0..Len(old) /\ SubSeq(old, 1, k) \o names = ns
    BY <1>3, CommonPrefix, Rejoined, Zenon
  <2>2. Len(names) \in Nat
    <3>1. k + 1 \in Int /\ Len(ns) \in Int /\ \A i \in (k + 1)..Len(ns) : ns[i] \in Token
      BY <1>3, <2>1
    <3>2. names \in Seq(Token)
      BY <3>1, SubSeqProperties, Zenon
    <3> QED BY <3>2
  <2>3. PICK levels \in Nat : levels = Len(old) - k
    BY <1>3, <2>1
  <2> DEFINE closed == closeNamespaces(st, levels)
             opened == openNamespaces(closed, names)
  <2>4. adaptNamespace(st, ns) = [opened EXCEPT !.m_namespace = ns]
    BY <1>5, <2>3, Zenon DEF adaptNamespace, old
  <2> HIDE DEF k, names
  <2>5. levels <= Len(old) /\ Len(old) - levels = k
    BY <1>3, <2>1, <2>3
  <2>6. closed = [m_namespace |-> old, modules |-> SubSeq(old, 1, k), fresh |-> 0, malformed |-> no,
                  stream |-> written]
    <3>1. levels <= Len(st.modules) /\ Len(st.modules) - levels = k
      BY <1>2, <2>5, Zenon
    <3> QED BY <1>1, <1>2, <3>1, Closes, Zenon DEF old
  <2> HIDE DEF closed
  <2>7. opened = [m_namespace |-> old, modules |-> ns, fresh |-> 0 + Len(names), malformed |-> no,
                  stream |-> written]
    <3>1. opened = [closed EXCEPT !.modules = closed.modules \o names, !.fresh = closed.fresh + Len(names)]
      BY Zenon DEF openNamespaces
    <3>2. closed.modules \o names = ns /\ closed.fresh = 0
      BY <2>1, <2>6, Zenon
    <3> QED BY <2>6, <3>1, <3>2, Zenon
  <2> HIDE DEF opened
  <2>8. adaptNamespace(st, ns) = [m_namespace |-> ns, modules |-> ns, fresh |-> 0 + Len(names),
                                  malformed |-> no, stream |-> written]
    BY <2>4, <2>7, Zenon
  <2>9. 0 + Len(names) \in Nat
    BY <2>2
  <2>10. no \in {FALSE}
    BY <1>1, Zenon
  <2> QED BY <1>1, <1>3, <2>8, <2>9, <2>10, SMTT(30)
<1> QED BY <1>4, <1>5, Zenon

\* Writing declarations in a namespace.
LEMMA Writes ==
    ASSUME NEW st \in Streams, st.modules = st.m_namespace, NEW ns \in Seq(Token),
           NEW decls \in Seq(Declarations), NEW result,
           result = Write(adaptNamespace(st, ns), decls)
    PROVE  Follow(decls, ns, st, result)
<1> DEFINE at == adaptNamespace(st, ns)
           lines == [i \in DOMAIN decls |-> [decls[i] EXCEPT !.modules = at.modules]]
<1>1. /\ at \in [m_namespace : Seq(Token), modules : Seq(Token), fresh : Nat,
                 malformed : {FALSE}, stream : Seq(Declarations)]
      /\ at.m_namespace = ns /\ at.modules = ns /\ at.stream = st.stream
  BY Adapted, Zenon
<1>2. result = [at EXCEPT !.fresh = 0, !.stream = at.stream \o lines]
  BY Zenon DEF Write
<1> HIDE DEF at
<1>3. /\ lines \in Seq(Declarations) /\ Len(lines) = Len(decls)
      /\ \A i \in 1..Len(decls) : lines[i] = [decls[i] EXCEPT !.modules = ns]
  <2>1. ASSUME NEW i \in 1..Len(decls) PROVE [decls[i] EXCEPT !.modules = ns] \in Declarations
    <3>1. decls[i] \in Declarations
      OBVIOUS
    <3> QED BY <3>1, Zenon DEF Declarations
  <2>2. DOMAIN decls = 1..Len(decls) /\ Len(decls) \in Nat
    OBVIOUS
  <2>3. /\ DOMAIN lines = 1..Len(decls)
        /\ \A i \in 1..Len(decls) : lines[i] = [decls[i] EXCEPT !.modules = ns]
    BY <1>1, <2>2, Zenon
  <2>4. lines = [i \in 1..Len(decls) |-> lines[i]]
    BY <2>2, Zenon
  <2> HIDE DEF lines
  <2>5. \A i \in 1..Len(decls) : lines[i] \in Declarations
    BY <2>1, <2>3, Zenon
  <2> QED BY <2>2, <2>3, <2>4, <2>5
<1> HIDE DEF lines
<1>4. st.stream \in Seq(Declarations)
  BY Zenon DEF Streams
<1>5. st.stream \o lines \in Seq(Declarations)
  BY <1>3, <1>4, ConcatProperties, Zenon
<1>6. /\ result \in Streams /\ result.modules = ns /\ result.m_namespace = ns
      /\ result.stream = st.stream \o lines
  BY <1>1, <1>2, <1>5, ZenonT(60) DEF Streams
<1>7. /\ Len(result.stream) = Len(st.stream) + Len(lines)
      /\ \A i \in 1..(Len(st.stream) + Len(lines)) : result.stream[i] =
            IF i <= Len(st.stream) THEN st.stream[i] ELSE lines[i - Len(st.stream)]
  <2>1. /\ Len(st.stream \o lines) = Len(st.stream) + Len(lines)
        /\ \A i \in 1..(Len(st.stream) + Len(lines)) : (st.stream \o lines)[i] =
              IF i <= Len(st.stream) THEN st.stream[i] ELSE lines[i - Len(st.stream)]
    <3>1. lines \in Seq(Declarations)
      BY <1>3, Zenon
    <3> QED BY <1>4, <3>1, ConcatProperties, Zenon
  <2> QED BY <1>6, <2>1, Zenon
<1>8. Len(st.stream) \in Nat /\ Len(decls) \in Nat
  BY <1>4
<1>9. \A i \in 1..Len(st.stream) : result.stream[i] = st.stream[i]
  BY <1>3, <1>7, <1>8
<1>10. \A i \in 1..Len(decls) : result.stream[Len(st.stream) + i] = lines[i]
  <2> TAKE i \in 1..Len(decls)
  <2>1. /\ Len(st.stream) + i \in 1..(Len(st.stream) + Len(lines)) /\ ~(Len(st.stream) + i <= Len(st.stream))
        /\ (Len(st.stream) + i) - Len(st.stream) = i
    <3>1. Len(lines) = Len(decls)
      BY <1>3, Zenon
    <3> QED BY <1>8, <3>1
  <2> QED BY <1>7, <2>1, Zenon
<1> QED BY <1>3, <1>6, <1>7, <1>9, <1>10, Zenon DEF Follow

\* From any state before the end.
LEMMA WritesFollow == StreamInv => StreamWrites
<1> SUFFICES ASSUME StreamInv, ~Finished, NEW ns \in Seq(Token), NEW decls \in Seq(Declarations)
             PROVE  Follow(decls, ns, idl, Write(adaptNamespace(idl, ns), decls))
  BY Zenon DEF StreamWrites
<1>1. idl \in Streams /\ idl.modules = idl.m_namespace
  BY Zenon DEF StreamInv
<1> QED BY <1>1, Writes, Zenon

-----------------------------------------------------------------------------
(* The steps *)

\* Every step of the IDL exporter keeps what it has written right.
LEMMA OutputNext ==
    ASSUME ExportInv, OutputInv, [IDLNext]_<<vars, idlvars>>
    PROVE  OutputInv'
<1>1. /\ StreamInv /\ TypesInv /\ deps \in Dependencies /\ config \in Configs /\ thrown \in BOOLEAN
      /\ StreamWrites
  BY WritesFollow, Zenon DEF OutputInv, StreamInv
<1>2. ASSUME UNCHANGED <<deps, persistent, output, idlvars>>, typedefs_it # 1 => pc' = "done" PROVE OutputInv'
  <2>1. UNCHANGED <<config, idl, m_typedefs, typedefs_it, m_exported_typedefs, thrown>>
    BY <1>2, Zenon DEF idlvars
  <2>2. \A f : Emitted(f)' <=> Emitted(f) \/ f \in {}
    BY <1>2, Zenon DEF Emitted
  <2> QED BY <1>1, <1>2, <2>1, <2>2, Quiet, Zenon
<1>3. CASE Order
  <2>1. UNCHANGED <<deps, persistent, output, idlvars>> /\ pc # "done"
    BY <1>3, Zenon DEF Order, Collect, Flush, Select, End, registry
  <2> QED BY <1>1, <1>2, <2>1, Zenon DEF StreamInv
<1>4. CASE UNCHANGED <<vars, idlvars>>
  BY <1>1, <1>2, <1>4, Zenon DEF vars, StreamInv
<1>5. CASE generateTypedefs
  <2>1. deps' = deps /\ persistent' = persistent /\ output' = output
    BY <1>5, Zenon DEF generateTypedefs, vars
  <2>2. \A f : Emitted(f)' <=> Emitted(f)
    BY <2>1, Zenon DEF Emitted
  <2> QED BY <1>1, <1>5, <2>1, <2>2, WritesTypedefs, Zenon
<1>6. CASE IDLEnd
  <2>1. deps' = deps /\ persistent' = persistent /\ output' = output
    BY <1>6, Zenon DEF IDLEnd, vars
  <2>2. \A f : Emitted(f)' <=> Emitted(f)
    BY <2>1, Zenon DEF Emitted
  <2> QED BY <1>6, <2>1, <2>2, Ends, Zenon
<1>7. ASSUME NEW e \in Entry, NEW saved, Handed(e), Returns(e, saved), UNCHANGED idlvars,
             Selected(e) => /\ Supported(e)
                            /\ e \in Type => ~Blob(e) /\ Ignored(e)
                            /\ e \in Alias => Tagged(e) \/ Reserved(e) # {} \/ Marked(e)
      PROVE  OutputInv'
  <2>1. UNCHANGED <<config, idl, m_typedefs, typedefs_it, m_exported_typedefs, thrown>>
    BY <1>7, Zenon DEF idlvars
  <2>2. deps' = deps /\ persistent' = persistent /\ \A f : Emitted(f)' <=> Emitted(f) \/ f \in {e}
    BY <1>1, <1>7, ReturnsFacts, Zenon
  <2>3. typedefs_it = 1 /\ {e} \in SUBSET Entry
    BY <1>1, <1>7, HandedFacts, Zenon
  <2> QED BY <1>1, <1>7, <2>1, <2>2, <2>3, Quiet, Zenon
<1>8. ASSUME NEW e \in Entry, Unselected(e) PROVE OutputInv'
  BY <1>7, <1>8, Zenon DEF Unselected
<1>9. ASSUME NEW a \in Alias, SkipAlias(a) PROVE OutputInv'
  <2>1. a \in Entry /\ a \notin Type
    BY EntryAssumption, Zenon DEF Entry
  <2>2. Supported(a)
    BY <1>1, <1>9, AliasSupported, Zenon DEF SkipAlias
  <2> QED BY <1>7, <1>9, <2>1, <2>2, Zenon DEF SkipAlias
<1>10. ASSUME NEW t \in Type, IgnoreType(t) PROVE OutputInv'
  <2>1. t \in Entry /\ t \notin Alias
    BY EntryAssumption, Zenon DEF Entry
  <2>2. Supported(t)
    BY <1>1, <1>10, TypeSupported, Zenon DEF IgnoreType
  <2> QED BY <1>7, <1>10, <2>1, <2>2, Zenon DEF IgnoreType
<1>11. ASSUME NEW a \in Alias, SaveAlias(a) PROVE OutputInv'
  <2>1. a \in Entry /\ a \notin Type /\ ~thrown /\ Handed(a) /\ Returns(a, TRUE) /\ ~AliasRefused(a)
    BY <1>11, EntryAssumption, Zenon DEF Entry, SaveAlias
  <2>2. typedefs_it = 1 /\ ~Emitted(a) /\ Target[a] \in saved_types
    BY <1>1, <2>1, HandedFacts, Zenon DEF Requires
  <2>3. deps' = deps /\ persistent' = persistent /\ \A f : Emitted(f)' <=> Emitted(f) \/ f = a
    BY <1>1, <2>1, ReturnsFacts, Zenon
  <2>4. Supported(a)
    BY <1>1, <2>1, AliasSupported, Zenon
  <2> QED BY <1>11, <2>1, <2>2, <2>3, <2>4, SavesAlias, Zenon DEF SaveAlias
<1>12. ASSUME NEW e \in Entry, Handed(e), ~thrown, Selected(e), thrown' = TRUE,
              ~Supported(e) \/ (e \in Alias /\ Reserved(e) # {}),
              UNCHANGED <<vars, config, idl, m_typedefs, typedefs_it, m_exported_typedefs>>
       PROVE  OutputInv'
  <2>1. e \in persistent /\ typedefs_it = 1
    BY <1>1, <1>12, HandedFacts, Zenon
  <2>2. deps' = deps /\ persistent' = persistent /\ \A f : Emitted(f)' <=> Emitted(f) \/ f \in {}
    BY <1>12, Zenon DEF vars, Emitted
  <2> QED BY <1>12, <2>1, <2>2, Quiet, Zenon
<1>13. ASSUME NEW a \in Alias, RefuseAlias(a) PROVE OutputInv'
  <2>1. ~Supported(a) \/ Reserved(a) # {}
    BY <1>1, <1>13, RefusedAlias, Zenon DEF RefuseAlias
  <2> QED BY <1>12, <1>13, <2>1, Zenon DEF RefuseAlias, Entry
<1>14. ASSUME NEW t \in Type, RefuseType(t) PROVE OutputInv'
  <2>1. ~Supported(t)
    BY <1>1, <1>14, RefusedType, Zenon DEF RefuseType
  <2> QED BY <1>12, <1>14, <2>1, Zenon DEF RefuseType, Entry
<1>15. ASSUME NEW t \in Type, SaveBlob(t) PROVE OutputInv'
  <2>1. t \in Entry /\ ~thrown /\ Handed(t) /\ Returns(t, TRUE) /\ Selected(t) /\ Blob(t)
    BY <1>15, Zenon DEF Entry, SaveBlob
  <2>2. typedefs_it = 1 /\ ~Finished /\ ~Emitted(t)
    BY <1>1, <2>1, HandedFacts, Zenon
  <2>3. deps' = deps /\ persistent' = persistent /\ \A f : Emitted(f)' <=> Emitted(f) \/ f = t
    BY <1>1, <2>1, ReturnsFacts, Zenon
  <2>4. Supported(t)
    BY <1>1, <2>1, TypeSupported, Zenon
  <2>5. HomeOf(t) = getIDLAbsoluteNamespace(Namespace[t]) /\ HomeOf(t) \in Seq(Token)
    <3>1. Namespace[t] \in Seq(Token)
      BY <2>1, NamespacesKnown, Zenon
    <3> QED BY <1>1, <2>1, <3>1, AbsoluteNamespace, Zenon DEF HomeOf
  <2>6. Basename[t] \in Identifiers /\ {} \in SUBSET References(Type)
    BY <2>1, Zenon DEF Identifiers
  <2>7. /\ idl' = Write(adaptNamespace(idl, HomeOf(t)), <<Declaration(t, Basename[t], {})>>)
        /\ UNCHANGED <<config, m_typedefs, typedefs_it, thrown, m_exported_typedefs>>
    BY <1>15, <2>5, Zenon DEF SaveBlob
  <2>8. \A r \in m_exported_typedefs' : r.type \in Type
    BY <1>1, <2>7, Zenon DEF StreamInv
  <2> QED BY <1>1, <2>1, <2>2, <2>3, <2>4, <2>5, <2>6, <2>7, <2>8, SavesType, ZenonT(60)
<1>16. ASSUME NEW t \in Type, SaveType(t) PROVE OutputInv'
  <2>1. /\ t \in Entry /\ ~thrown /\ Handed(t) /\ Returns(t, TRUE) /\ Selected(t) /\ ~Blob(t)
        /\ ~Ignored(t) /\ ~TypeRefused(t)
    BY <1>16, Zenon DEF Entry, SaveType
  <2>2. /\ typedefs_it = 1 /\ ~Finished /\ ~Emitted(t) /\ deps[t] \subseteq saved_types
        /\ \A S \in SUBSET Type : Cyclic(S) => t \notin S
    BY <1>1, <2>1, HandedFacts, Zenon DEF Requires
  <2>3. deps' = deps /\ persistent' = persistent /\ \A f : Emitted(f)' <=> Emitted(f) \/ f = t
    BY <1>1, <2>1, ReturnsFacts, Zenon
  <2>4. Supported(t)
    BY <1>1, <2>1, TypeSupported, Zenon
  <2>5. HomeOf(t) = TargetNamespace(t) /\ HomeOf(t) \in Seq(Token)
    <3>1. Category[t] \in {"numeric", "enum", "compound", "container", "string", "array", "pointer", "opaque", "null"}
      BY IDLAssumption, Zenon
    <3>2. Category[t] \in {"compound", "enum", "container"}
      BY <2>1, <3>1, Zenon DEF Ignored, TypeRefused
    <3> QED BY <1>1, <2>1, <2>2, <3>2, DeclaredNamespace, Zenon DEF HomeOf
  <2>6. Identifier(t) \in Identifiers
    BY Zenon DEF Identifiers
  <2>7. References(deps[t]) \in SUBSET References(Type)
    BY <1>1, Elements, Zenon DEF References
  <2>8. \A r \in References(deps[t]) : Resolved(r, Len(idl.stream) + 1)
    BY <1>1, <2>2, SavedResolved, Zenon DEF References
  <2>9. /\ idl' = Write(adaptNamespace(idl, HomeOf(t)), <<Declaration(t, Identifier(t), References(deps[t]))>>)
        /\ UNCHANGED <<config, m_typedefs, typedefs_it, thrown>>
        /\ m_exported_typedefs' = IF Category[t] = "container" THEN Reserve(t) ELSE m_exported_typedefs
    BY <1>16, <2>5, Zenon DEF SaveType
  <2>10. m_exported_typedefs \subseteq m_exported_typedefs' /\ \A r \in m_exported_typedefs' : r.type \in Type
    BY <1>1, <2>9 DEF StreamInv, Reserve
  <2> QED BY <1>1, <2>1, <2>2, <2>3, <2>4, <2>5, <2>6, <2>7, <2>8, <2>9, <2>10, SavesType, ZenonT(60)
<1> QED BY <1>3, <1>4, <1>5, <1>6, <1>8, <1>9, <1>10, <1>11, <1>13, <1>14, <1>15, <1>16, ZenonT(60) DEF IDLNext

-----------------------------------------------------------------------------

\* save() of the IDL exporter is called at the same points, for any entry.
LEMMA CallStep ==
    ASSUME NEW e \in Entry, NEW saved \in BOOLEAN, Returns(e, saved)
    PROVE  Next
BY Zenon DEF Returns, Next

\* A save() of the IDL exporter, returning or throwing, is one of the base class.
LEMMA SaveStep ==
    ASSUME NEW e \in Entry,
           \/ Unselected(e)
           \/ SkipAlias(e) \/ SaveAlias(e) \/ RefuseAlias(e)
           \/ SaveBlob(e) \/ IgnoreType(e) \/ SaveType(e) \/ RefuseType(e)
    PROVE  [Next]_vars
<1>1. CASE Unselected(e) \/ SkipAlias(e) \/ IgnoreType(e)
  BY <1>1, CallStep, Zenon DEF Unselected, SkipAlias, IgnoreType
<1>2. CASE SaveAlias(e) \/ SaveBlob(e) \/ SaveType(e)
  BY <1>2, CallStep, Zenon DEF SaveAlias, SaveBlob, SaveType
<1>3. CASE RefuseAlias(e) \/ RefuseType(e)
  BY <1>3, Zenon DEF RefuseAlias, RefuseType
<1> QED BY <1>1, <1>2, <1>3, Zenon

\* The IDL exporter implements Exporter::save() with an arbitrary exporter.
THEOREM IDLIsExporter == IDLSpec => Spec
<1>1. IDLInit => Init
  BY Zenon DEF IDLInit
<1>2. [IDLNext]_<<vars, idlvars>> => [Next]_vars
  <2>1. CASE Order
    BY <2>1, Zenon DEF Order, Next
  <2>2. CASE generateTypedefs \/ IDLEnd
    BY <2>2, Zenon DEF generateTypedefs, IDLEnd
  <2> QED BY <2>1, <2>2, SaveStep, Zenon DEF IDLNext, Entry
<1> QED BY <1>1, <1>2, PTL DEF IDLSpec, Spec

\* The IDL exporter is handed each entry at most once, and a type only after all that
\* the text of its declaration can refer to, whatever it skips or refuses.
THEOREM IDLOrder == IDLSpec => [](DependenciesFirst /\ SavedOnce)
BY IDLIsExporter, ExportOrder, ExportOnce, PTL

\* Every reachable state of the IDL exporter satisfies the invariant.
THEOREM IDLSafe == IDLSpec => []IDLInv
<1>1. IDLSpec => []ExportInv
  BY IDLIsExporter, ExportSafe, PTL
<1>2. ExportInv /\ OutputInv /\ [IDLNext]_<<vars, idlvars>> => OutputInv'
  BY OutputNext, Zenon
<1> QED BY <1>1, <1>2, OutputInit, PTL DEF IDLSpec, IDLInv

\* Every identifier in the text of a declaration, of the structures, the sequences
\* and the typedefs that export.cc writes, is declared before, and where the text
\* says: for every registry, configuration and namespace.
THEOREM IDLReferencesResolved == IDLSpec => []ReferencesResolved
<1>1. IDLInv => ReferencesResolved
  BY Zenon DEF IDLInv, OutputInv
<1> QED BY <1>1, IDLSafe, PTL

\* When end() has returned, the modules are closed, none of them was empty, and each
\* type and alias that has to be in the file is there once, in its own modules.
THEOREM IDLEachDeclared == IDLSpec => []EachDeclared
<1>1. IDLInv => EachDeclared
  <2> SUFFICES ASSUME IDLInv PROVE EachDeclared
    BY Zenon
  <2> USE DEF IDLInv, OutputInv
  <2>1. ModulesNest
    <3>1. /\ idl.m_namespace \in Seq(Token) /\ idl.fresh = 0 /\ idl.malformed = FALSE
          /\ idl.modules \in Seq(Token) /\ idl.stream \in Seq(Declarations)
      BY Zenon DEF StreamInv, Streams
    <3>2. idl.fresh \in 0..Len(idl.modules)
      BY <3>1
    <3>3. ASSUME NEW i \in DOMAIN idl.stream PROVE idl.stream[i].entry \in Entry
      <4>1. idl.stream[i] \in Declarations
        BY <3>1
      <4> QED BY <4>1, Zenon DEF Declarations
    <3>4. DOMAIN m_typedefs = Range(NsOrder)
      BY Zenon DEF StreamInv
    <3>5. IDLTypeOK
      BY <3>1, <3>2, <3>3, <3>4, Zenon DEF IDLTypeOK, StreamInv, LinesInv
    <3> QED BY <3>1, <3>5, Zenon DEF ModulesNest, StreamInv
  <2>2. ASSUME Finished, NEW e \in Entry
        PROVE  IF Expected(e) THEN \E i \in Declares(e) : Declares(e) = {i} /\ idl.stream[i].modules = HomeOf(e)
               ELSE e \in Type => Declares(e) = {}
    <3>1. /\ Len(NsOrder) \in Nat /\ DOMAIN NsOrder = 1..Len(NsOrder)
          /\ typedefs_it # 1 /\ \A k \in DOMAIN NsOrder : k < typedefs_it
      BY <2>2, NamespacesKnown DEF Finished
    <3>2. \A f \in persistent : Emitted(f)
      BY <3>1, Zenon DEF StreamInv, ExportInv, ControlInv, EntryInv
    <3>3. Emitted(e) => e \in persistent
      BY Zenon DEF Emitted, ExportInv, SavedOnce
    <3>4. CASE e \in Type
      <4>1. Expected(e) <=> Written(e)
        BY <3>2, <3>3, <3>4, EntryAssumption, Zenon DEF Expected, Written
      <4>2. ASSUME Written(e)
            PROVE  \E i \in Declares(e) : Declares(e) = {i} /\ idl.stream[i].modules = HomeOf(e)
        <5>1. PICK i : DeclaredAt(e, i)
          BY <3>4, <4>2, Zenon DEF TypesInv
        <5> QED BY <5>1, Zenon DEF DeclaredAt
      <4> QED BY <3>4, <4>1, <4>2, Zenon DEF TypesInv
    <3>5. CASE e \in Alias
      <4>1. e \notin Type
        BY <3>5, EntryAssumption, Zenon
      <4> SUFFICES ASSUME Expected(e)
                   PROVE  \E i \in Declares(e) : Declares(e) = {i} /\ idl.stream[i].modules = HomeOf(e)
        BY <4>1, Zenon
      <4>2. Kept(e)
        BY <3>2, <3>5, Zenon DEF Expected, Kept
      <4>3. Lines(e, Namespace[e]) # {}
        BY <3>5, <4>2, Zenon DEF LinesInv
      <4>4. PICK k \in DOMAIN NsOrder : NsOrder[k] = Namespace[e]
        BY IDLAssumption, Zenon
      <4>5. /\ \A i \in Declares(e) : idl.stream[i].modules = HomeOf(e)
            /\ \A i, j \in Declares(e) : i = j
            /\ Declares(e) # {}
        BY <3>1, <3>5, <4>3, <4>4, Zenon DEF AliasesInv
      <4>6. PICK i \in Declares(e) : TRUE
        BY <4>5, Zenon
      <4>7. Declares(e) = {i}
        BY <4>5, <4>6, Zenon
      <4> QED BY <4>5, <4>6, <4>7, Zenon
    <3> QED BY <3>4, <3>5, Zenon DEF Entry
  <2> QED BY <2>1, <2>2, Zenon DEF EachDeclared
<1> QED BY <1>1, IDLSafe, PTL

\* save() throws on a registry if, and only if, something that is selected in it
\* cannot be written in IDL, however deep in arrays and containers.
THEOREM IDLRefusesUnsupported == IDLSpec => []RefusedIffUnsupported
<1>1. IDLInv => RefusedIffUnsupported
  <2> SUFFICES ASSUME IDLInv PROVE SupportedOnly
    BY Zenon DEF RefusedIffUnsupported, IDLInv, OutputInv, RefusedInv
  <2> USE DEF IDLInv, OutputInv
  <2> SUFFICES ASSUME Finished, NEW e \in persistent, Selected(e) PROVE Supported(e)
    BY Zenon DEF SupportedOnly
  <2>1. typedefs_it # 1
    BY NamespacesKnown DEF Finished
  <2>2. Emitted(e) /\ e \in Entry
    BY <2>1, Zenon DEF StreamInv, ExportInv, ControlInv, EntryInv, TypeOK
  <2> QED BY <2>2, Zenon DEF RefusedInv
<1> QED BY <1>1, IDLSafe, PTL

-----------------------------------------------------------------------------
(* getIDLRelative() *)

\* The last component of a namespace, by itself.
LEMMA LastOne ==
    ASSUME NEW s \in Seq(Token), Len(s) > 0
    PROVE  SubSeq(s, Len(s), Len(s)) = <<s[Len(s)]>>
<1>1. Len(s) \in Nat /\ Len(s) \in 1..Len(s) /\ Len(s) \in Len(s)..Len(s) /\ s[Len(s)] \in Token
  OBVIOUS
<1>2. SubSeq(s, Len(s), Len(s)) = <<s[Len(s)]>> \o SubSeq(s, Len(s) + 1, Len(s))
  BY <1>1, SubSeqRecursiveFirst, Zenon
<1>3. SubSeq(s, Len(s) + 1, Len(s)) = <<>>
  BY <1>1
<1>4. <<s[Len(s)]>> \o <<>> = <<s[Len(s)]>>
  BY <1>1
<1> QED BY <1>2, <1>3, <1>4, Zenon

\* A namespace that ends with the suffix.
LEMMA LastAdded ==
    ASSUME NEW s \in Seq(Token), NEW x \in Token
    PROVE  LET t == s \o <<x>> IN Len(t) > 0 /\ t[Len(t)] = x
OBVIOUS

\* The modules around a declaration are modules of the file.
LEMMA PrefixModules ==
    ASSUME NEW m \in Homes, NEW k \in 0..Len(m)
    PROVE  SubSeq(m, 1, k) \in Modules
BY DEF Modules

\* A namespace in two parts.
LEMMA Split ==
    ASSUME NEW m \in Seq(Token), NEW k \in Nat, k < Len(m)
    PROVE  /\ SubSeq(m, 1, k) \o From(m, k) = m
           /\ Append(SubSeq(m, 1, k), m[k + 1]) = SubSeq(m, 1, k + 1)
           /\ From(m, k) # <<>> /\ Head(From(m, k)) = m[k + 1]
<1>1. /\ Len(m) \in Nat /\ 1 \in 1..(Len(m) + 1)
      /\ k \in (1 - 1)..Len(m) /\ Len(m) \in k..Len(m)
  OBVIOUS
<1>2. SubSeq(m, 1, k) \o SubSeq(m, k + 1, Len(m)) = SubSeq(m, 1, Len(m))
  BY <1>1, ConcatAdjacentSubSeq, Zenon
<1>3. SubSeq(m, 1, Len(m)) = m
  BY SubSeqFull, Zenon
<1>4. Append(SubSeq(m, 1, k), m[k + 1]) = SubSeq(m, 1, k + 1)
  BY <1>1
<1>5. From(m, k) # <<>>
  <2>1. Len(SubSeq(m, k + 1, Len(m))) = Len(m) - k
    BY <1>1
  <2>2. Len(SubSeq(m, k + 1, Len(m))) # Len(<<>>)
    BY <1>1, <2>1
  <2> QED BY <2>2, Zenon DEF From
<1>6. Head(From(m, k)) = m[k + 1]
  <2>1. k + 1 \in 1..Len(m) /\ Len(m) \in (k + 1)..Len(m)
    BY <1>1
  <2> QED BY <2>1, HeadTailOfSubSeq, Zenon DEF From
<1> QED BY <1>2, <1>3, <1>4, <1>5, <1>6, Zenon DEF From

\* A relative name reaches the module that it comes from, if no scope inside the
\* components they share has a module with its first component.
LEMMA ReachedFrom ==
    ASSUME Homes \subseteq Seq(Token), NEW m \in Homes, NEW n \in Homes,
           NEW k \in Nat, k <= Len(n), k < Len(m), SubSeq(m, 1, k) = SubSeq(n, 1, k),
           \A j \in 0..Len(n) : Append(SubSeq(n, 1, j), m[k + 1]) \in Modules => j <= k
    PROVE  Lookup(Relative(From(m, k)), n) = {m}
<1> DEFINE scopes == {j \in 0..Len(n) : Append(SubSeq(n, 1, j), m[k + 1]) \in Modules}
<1>1. m \in Seq(Token) /\ n \in Seq(Token) /\ Len(m) \in Nat /\ Len(n) \in Nat
  OBVIOUS
<1>2. SubSeq(m, 1, k + 1) \in Modules
  <2>1. k + 1 \in 0..Len(m)
    BY <1>1
  <2> QED BY <2>1, PrefixModules, Zenon
<1>3. /\ SubSeq(m, 1, k) \o From(m, k) = m /\ Append(SubSeq(m, 1, k), m[k + 1]) = SubSeq(m, 1, k + 1)
      /\ From(m, k) # <<>> /\ Head(From(m, k)) = m[k + 1]
  BY <1>1, Split, Zenon
<1>4. k \in scopes
  <2>1. k \in 0..Len(n)
    BY <1>1
  <2>2. Append(SubSeq(n, 1, k), m[k + 1]) \in Modules
    BY <1>2, <1>3, Zenon
  <2> QED BY <2>1, <2>2, Zenon
<1>5. Longest(scopes) \in scopes /\ k <= Longest(scopes)
  <2>1. scopes \in SUBSET (0..Len(n)) /\ scopes # {}
    BY <1>4, Zenon
  <2> HIDE DEF scopes
  <2> QED BY <1>1, <1>4, <2>1, GreatestNat, Zenon
<1>6. Longest(scopes) = k
  BY <1>5
<1>7. Lookup(Relative(From(m, k)), n) = IF scopes = {} THEN {} ELSE {SubSeq(n, 1, Longest(scopes)) \o From(m, k)}
  BY <1>3, Zenon DEF Lookup, Relative
<1> HIDE DEF scopes
<1> QED BY <1>3, <1>4, <1>6, <1>7, Zenon

\* The shortest path that getMinimalPathTo() finds is that of the type: a name that
\* does not occur in the namespace it is used in is not one of its modules.
LEMMA MinimalPathReaches ==
    ASSUME Homes \subseteq Seq(Token), Unambiguous, NEW m \in Homes, NEW n \in Homes,
           \A x : config.suffix = <<x>> => Len(n) > 0 /\ n[Len(n)] = x
    PROVE  Lookup(getMinimalPathTo(m, n), n) = {m}
<1>1. m \in Seq(Token) /\ n \in Seq(Token) /\ Len(m) \in Nat /\ Len(n) \in Nat
  OBVIOUS
<1>2. SubSeq(m, 1, Len(m)) = m /\ SubSeq(n, 1, Len(n)) = n
  BY <1>1, SubSeqFull, Zenon
<1>3. CASE CommonLength(n, m) = Len(n)
  <2>1. getMinimalPathTo(m, n) = Relative(From(m, Len(n)))
    BY <1>3, Zenon DEF getMinimalPathTo
  <2>2. Len(n) <= Len(m) /\ SubSeq(n, 1, Len(n)) = SubSeq(m, 1, Len(n))
    BY <1>1, <1>3, CommonPrefix, Zenon
  <2>3. CASE Len(n) = Len(m)
    <3>1. m = n
      BY <1>2, <2>2, <2>3, Zenon
    <3>2. From(m, Len(n)) = <<>>
      BY <1>1, <2>3 DEF From
    <3> QED BY <2>1, <3>1, <3>2 DEF Lookup, Relative
  <2>4. CASE Len(n) < Len(m)
    <3>1. /\ Len(n) <= Len(n) /\ SubSeq(m, 1, Len(n)) = SubSeq(n, 1, Len(n))
          /\ \A j \in 0..Len(n) : Append(SubSeq(n, 1, j), m[Len(n) + 1]) \in Modules => j <= Len(n)
      BY <1>1, <2>2
    <3> QED BY <1>1, <2>1, <2>4, <3>1, ReachedFrom, Zenon
  <2> QED BY <1>1, <2>2, <2>3, <2>4
<1>4. CASE CommonLength(n, m) # Len(n)
  <2> DEFINE clear == {k \in 1..CommonLength(m, n) : ~Occurs(From(m, k), n)}
             k == Longest(clear)
  <2>1. CASE Occurs(m, n) \/ clear = {}
    <3>1. getMinimalPathTo(m, n) = Absolute(m)
      BY <1>4, <2>1, Zenon DEF getMinimalPathTo
    <3> QED BY <3>1 DEF Lookup, Absolute
  <2>2. CASE ~Occurs(m, n) /\ clear # {}
    <3>1. getMinimalPathTo(m, n) = Relative(From(m, k))
      BY <1>4, <2>2, Zenon DEF getMinimalPathTo
    <3>2. /\ CommonLength(m, n) \in Nat /\ CommonLength(m, n) <= Len(m) /\ CommonLength(m, n) <= Len(n)
          /\ SubSeq(m, 1, CommonLength(m, n)) = SubSeq(n, 1, CommonLength(m, n))
      BY <1>1, CommonPrefix, SMTT(30)
    <3>3. k \in clear
      <4>1. clear \in SUBSET (0..CommonLength(m, n)) /\ clear # {}
        BY <2>2, <3>2
      <4> HIDE DEF clear
      <4> QED BY <3>2, <4>1, GreatestNat, Zenon
    <3>4. k \in Nat /\ 1 <= k /\ k <= CommonLength(m, n) /\ ~Occurs(From(m, k), n)
      BY <3>2, <3>3
    <3> HIDE DEF k, clear
    <3>5. SubSeq(m, 1, k) = SubSeq(n, 1, k)
      BY <1>1, <3>2, <3>4, SMTT(30)
    <3>6. k < Len(m)
      <4> SUFFICES ASSUME k = Len(m) PROVE FALSE
        BY <1>1, <3>2, <3>4, SMTT(30)
      <4>1. From(m, k) = <<>> /\ SubSeq(n, 1, 0) = <<>> /\ Len(<<>>) = 0
        BY <1>1 DEF From
      <4> QED BY <1>1, <3>4, <4>1 DEF Occurs
    <3>7. ASSUME NEW j \in 0..Len(n), Append(SubSeq(n, 1, j), m[k + 1]) \in Modules
          PROVE  j <= k
      <4> SUFFICES ASSUME j # k PROVE FALSE
        BY <3>4
      <4> DEFINE p == Append(SubSeq(n, 1, j), m[k + 1])
                 q == SubSeq(m, 1, k + 1)
      <4>1. Len(p) = j + 1 /\ p[j + 1] = m[k + 1]
        BY <1>1
      <4>2. Len(q) = k + 1 /\ q[k + 1] = m[k + 1]
        BY <1>1, <3>4, <3>6
      <4>3. q \in Modules /\ m \in Modules
        <5>1. k + 1 \in 0..Len(m) /\ Len(m) \in 0..Len(m)
          BY <1>1, <3>4, <3>6
        <5> QED BY <1>2, <5>1, PrefixModules, Zenon
      <4>4. p \in Modules /\ p # <<>> /\ q # <<>> /\ p # q
        <5>1. Len(p) # Len(<<>>) /\ Len(q) # Len(<<>>) /\ Len(p) # Len(q)
          <6>1. Len(<<>>) = 0
            BY Zenon
          <6> HIDE DEF p, q
          <6> QED BY <3>4, <4>1, <4>2, <6>1, SMTT(30)
        <5> QED BY <3>7, <5>1, Zenon
      <4>5. p[Len(p)] = m[k + 1] /\ q[Len(q)] = m[k + 1]
        BY <4>1, <4>2, Zenon
      <4> HIDE DEF p, q
      <4>6. <<m[k + 1]>> = config.suffix
        BY <4>3, <4>4, <4>5, Zenon DEF Unambiguous
      <4>7. k + 1 = Len(m)
        <5>1. k + 1 \notin 1..(Len(m) - 1)
          BY <4>3, <4>6, Zenon DEF Unambiguous
        <5> QED BY <1>1, <3>4, <3>6, <5>1, SMTT(30)
      <4>8. Len(n) > 0 /\ n[Len(n)] = m[k + 1]
        BY <4>6, Zenon
      <4>9. From(m, k) = <<m[k + 1]>>
        BY <1>1, <3>4, <4>7, LastOne, SMTT(30) DEF From
      <4>10. SubSeq(n, Len(n) - 1 + 1, Len(n) - 1 + 1) = <<m[k + 1]>>
        <5>1. Len(n) - 1 + 1 = Len(n)
          BY <1>1
        <5>2. SubSeq(n, Len(n), Len(n)) = <<n[Len(n)]>>
          BY <1>1, <4>8, LastOne, Zenon
        <5> QED BY <4>8, <5>1, <5>2, Zenon
      <4>11. Len(<<m[k + 1]>>) = 1 /\ Len(n) - 1 \in 0..(Len(n) - 1)
        BY <1>1, <4>8, SMTT(30)
      <4> QED BY <3>4, <4>9, <4>10, <4>11, Zenon DEF Occurs
    <3>8. k <= Len(n)
      BY <1>1, <3>2, <3>4
    <3> QED BY <3>1, <3>4, <3>5, <3>6, <3>7, <3>8, ReachedFrom, ZenonT(60)
  <2> QED BY <2>1, <2>2, Zenon
<1> QED BY <1>3, <1>4, Zenon

\* The modules that hold declarations are the exported namespaces of entries.
LEMMA HomesExported ==
    ASSUME IDLInv, Finished, NEW m \in Homes
    PROVE  m \in Seq(Token) /\ \E ns \in Seq(Token) : m = getIDLAbsoluteNamespace(ns)
<1> USE DEF IDLInv, OutputInv
<1>1. PICK i \in DOMAIN idl.stream : m = idl.stream[i].modules
  BY Zenon DEF Homes
<1>2. PICK e \in Entry : e = idl.stream[i].entry /\ m \in Seq(Token)
  <2>1. idl.stream \in Seq(Declarations)
    BY Zenon DEF StreamInv, Streams
  <2>2. idl.stream[i] \in Declarations
    BY <2>1
  <2> QED BY <1>1, <2>2, Zenon DEF Declarations
<1>3. i \in Declares(e)
  BY <1>2, Zenon DEF Declares
<1>4. typedefs_it = EndOfFile /\ typedefs_it # 1 /\ \A k \in DOMAIN NsOrder : k < typedefs_it
  BY NamespacesKnown DEF Finished
<1>5. config \in Configs /\ deps \in Dependencies /\ pc = "done"
  BY <1>4, Zenon DEF StreamInv
<1>6. Namespace[e] \in Seq(Token)
  BY NamespacesKnown, Zenon
<1>7. CASE e \in Type
  <2>1. Written(e) /\ m = HomeOf(e)
    <3>1. Written(e)
      BY <1>3, <1>7, Zenon DEF TypesInv
    <3>2. PICK j : DeclaredAt(e, j)
      BY <1>7, <3>1, Zenon DEF TypesInv
    <3> QED BY <1>1, <1>3, <3>1, <3>2, ZenonT(60) DEF DeclaredAt
  <2>2. CASE Blob(e)
    BY <1>2, <1>6, <2>1, <2>2, ZenonT(60) DEF HomeOf
  <2>3. CASE ~Blob(e)
    <3>1. Supported(e) /\ ~Ignored(e)
      BY <2>1, <2>3, Zenon DEF Written, RefusedInv
    <3>2. Category[e] \in {"numeric", "enum", "compound", "container", "string", "array", "pointer", "opaque", "null"}
      BY <1>7, IDLAssumption, Zenon
    <3>3. Category[e] \notin {"numeric", "string"} /\ ~(Category[e] = "opaque" /\ config.any)
      BY <3>1, Zenon DEF Ignored
    <3>4. Category[e] # "array" /\ Writable({e} \cup deps[e])
      BY <1>7, <2>3, <3>1, <3>3, Zenon DEF Supported
    <3>5. Category[e] \notin {"pointer", "null"} /\ (Category[e] = "opaque" => config.any)
      BY <3>4, Zenon DEF Writable, Spelled
    <3>6. Category[e] \in {"compound", "enum", "container"}
      BY <3>2, <3>3, <3>4, <3>5, Zenon
    <3>7. \A S \in SUBSET Type : Cyclic(S) => e \notin S
      BY <1>5, Zenon DEF ExportInv, ControlInv, EntryInv
    <3>8. \E ns \in Seq(Token) : TargetNamespace(e) = getIDLAbsoluteNamespace(ns)
      BY <1>5, <1>7, <3>6, <3>7, DeclaredNamespace, Zenon
    <3> QED BY <1>2, <1>7, <2>1, <2>3, <3>8, ZenonT(60) DEF HomeOf
  <2> QED BY <2>2, <2>3, Zenon
<1>8. CASE e \in Alias
  <2>1. PICK k \in DOMAIN NsOrder : NsOrder[k] = Namespace[e]
    BY IDLAssumption, Zenon
  <2>2. m = HomeOf(e)
    BY <1>1, <1>3, <1>4, <1>8, <2>1, ZenonT(60) DEF AliasesInv
  <2>3. e \notin Type
    BY <1>8, EntryAssumption, Zenon
  <2> QED BY <1>2, <1>6, <2>2, <2>3, Zenon DEF HomeOf
<1> QED BY <1>7, <1>8, Zenon DEF Entry

\* The name that getIDLRelative() gives to a type reaches the module the type is
\* declared in, from every other module with declarations, for every prefix and suffix,
\* unless the file has ambiguous module names.
THEOREM IDLRelativeResolves == IDLSpec => []RelativeResolves
<1>1. IDLInv => RelativeResolves
  <2> SUFFICES ASSUME IDLInv, Finished, Unambiguous, NEW m \in Homes, NEW n \in Homes
               PROVE  Lookup(getMinimalPathTo(m, n), n) = {m}
    BY Zenon DEF RelativeResolves
  <2>1. Homes \subseteq Seq(Token)
    BY HomesExported, Zenon
  <2>2. PICK ns \in Seq(Token) : n = getIDLAbsoluteNamespace(ns)
    BY HomesExported, Zenon
  <2>3. ASSUME NEW x, config.suffix = <<x>> PROVE Len(n) > 0 /\ n[Len(n)] = x
    <3>1. config.prefix \in Seq(Token) /\ config.suffix \in Seq(Token)
      BY IDLAssumption, Zenon DEF IDLInv, OutputInv, StreamInv
    <3>2. PICK s \in Seq(Token) : s = config.prefix \o ns
      <4>1. config.prefix \o ns \in Seq(Token)
        BY <3>1
      <4> QED BY <4>1, Zenon
    <3>3. x \in Token
      BY <2>3, <3>1
    <3>4. n = s \o <<x>>
      BY <2>2, <2>3, <3>2, Zenon DEF getIDLAbsoluteNamespace
    <3> QED BY <3>2, <3>3, <3>4, LastAdded, Zenon
  <2> QED BY <2>1, <2>3, MinimalPathReaches, Zenon
<1> QED BY <1>1, IDLSafe, PTL

============================================================================
