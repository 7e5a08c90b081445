----------------------------- MODULE IDLExport -----------------------------
(***************************************************************************)
(* The IDL exporter, lang/idl/export.cc, driven by Exporter::save().       *)
(*                                                                         *)
(* Exporter decides which entry save() gets next; this module is that      *)
(* save(), and the end() that follows the last one.  The stream is kept as *)
(* the sequence of declarations written to it, each with the modules that  *)
(* were open around it and the identifiers its text refers to.             *)
(*                                                                         *)
(* A name is a sequence of tokens, where the marks of templates stand by   *)
(* themselves; a namespace is a sequence of plain identifiers.  Numbers,   *)
(* strings and opaques marshalled as any have identifiers of the language, *)
(* which belong to no namespace.                                           *)
(***************************************************************************)
EXTENDS Exporter, Integers, Functions

CONSTANTS
    Category,     \* [Type -> categories], Type::getCategory(), "string" being
                  \* the container /std/string
    Namespace,    \* [Entry -> Seq(identifiers)], the components of NsOf
    Basename,     \* [Entry -> Seq(tokens)]
    NsOrder,      \* all the namespaces, in the order of std::map
    Token,        \* what names are made of
    Configs       \* the configurations considered

\* What the types of a category depend on, what names are made of, and that each
\* namespace comes once in a map.
ASSUME IDLAssumption ==
    /\ Category \in [Type -> {"numeric", "enum", "compound", "container", "string", "array",
                             "pointer", "opaque", "null"}]
    /\ \A deps_ \in Dependencies, t \in Type :
          /\ Category[t] \in {"numeric", "enum", "opaque", "null"} => deps_[t] = {}
          /\ Category[t] \in {"array", "container"} => \E u \in Type : deps_[t] = {u}
    /\ Namespace \in [Entry -> Seq(Token)] /\ Basename \in [Entry -> Seq(Token)]
    /\ NsOrder \in Seq(Seq(Token))
    /\ \A e \in Entry : \E k \in DOMAIN NsOrder : NsOrder[k] = Namespace[e]
    /\ \A k, l \in DOMAIN NsOrder : NsOrder[k] = NsOrder[l] => k = l
    /\ "" \notin Token
    /\ \A c \in Configs : c.prefix \in Seq(Token) /\ c.suffix \in Seq(Token)

VARIABLES
    config,              \* prefix, suffix, selected, big (above blob_threshold), any
    idl,                 \* m_namespace and what the stream contains
    m_typedefs,          \* [namespaces -> Seq(declarations)]
    typedefs_it,         \* the iterator on them in end(), an index of NsOrder
    m_exported_typedefs, \* the reserved names, with their types
    thrown               \* an exception left save()

idlvars == <<config, idl, m_typedefs, typedefs_it, m_exported_typedefs, thrown>>

Marks == {"<", ">", "/"}
Language == <<"">>  \* the empty namespace: not even the root
Indirects == {t \in Type : Category[t] \in {"array", "container"}}

The(S) == CHOOSE x \in S : TRUE

-----------------------------------------------------------------------------
(* Identifiers *)

stripLeadingUnderscore(name) == IF Head(name) = "_" THEN Tail(name) ELSE name

normalizeIDLName(name) ==
    stripLeadingUnderscore([i \in DOMAIN name |-> IF name[i] \in Marks \cup {","} THEN "_" ELSE name[i]])

getIDLAbsoluteNamespace(ns) == config.prefix \o ns \o config.suffix

\* The characters of an absolute name, with "_" for the namespace marks.
Flattened(e) ==
    [i \in 1..(2 * Len(Namespace[e])) |-> IF i % 2 = 1 THEN "_" ELSE Namespace[e][i \div 2]]
        \o <<"_">> \o Basename[e]

Element(t) == The(deps[t])

\* The arrays and containers that the visitor goes through to name t, from the
\* outermost one to the innermost one, and all that it visits.
Closed(D) == \A d \in D : deps[d] \cap Indirects \subseteq D
Nested(t) ==
    {u \in Indirects : \A D \in SUBSET Indirects : {t} \cap Indirects \subseteq D /\ Closed(D) => u \in D}
Visited(t) == {t} \cup UNION {deps[d] : d \in Nested(t)}

\* IDL has no name for some types, on which the visitor throws UnsupportedType.
Nameable(u) ==
    /\ Category[u] \notin {"pointer", "null"}
    /\ Category[u] = "opaque" => config.any
    /\ Category[u] = "array" => Category[Element(u)] # "array"
Visitable(t) == \A u \in Visited(t) : Nameable(u)

\* Arrays and containers live in the namespace of the innermost element, and
\* containers never in none.
Innermost(t) == The(Visited(t) \ Indirects)
TargetNamespace(t) ==
    IF Category[Innermost(t)] \in {"compound", "enum"} THEN getIDLAbsoluteNamespace(Namespace[Innermost(t)])
    ELSE IF \E d \in Nested(t) : Category[d] = "container" THEN getIDLAbsoluteNamespace(<<>>)
    ELSE Language

\* A container is named after its elements.  The text of an array is that of its
\* element, normalized once more, and a dimension.
OwnIdentifier(t) ==
    CASE Category[t] \in {"numeric", "string"} -> Basename[t]
      [] Category[t] = "opaque" -> <<"any">>
      [] Category[t] = "container" -> normalizeIDLName(<<"vector", "_">> \o Flattened(Element(t)) \o <<"_">>)
      [] OTHER -> normalizeIDLName(Basename[t])
Identifier(t) ==
    IF Category[t] = "array" THEN normalizeIDLName(OwnIdentifier(Element(t))) ELSE OwnIdentifier(t)

\* The text that refers to a type.
getIDLAbsolute(t) == [of |-> t, ns |-> TargetNamespace(t), id |-> Identifier(t)]
References(T) == {getIDLAbsolute(t) : t \in T}

-----------------------------------------------------------------------------
(* The stream *)

Longest(K) == CHOOSE k \in K : \A l \in K : l <= k
CommonLength(s, t) == Longest({k \in 0..Len(s) : k <= Len(t) /\ SubSeq(s, 1, k) = SubSeq(t, 1, k)})

\* fresh counts the innermost modules that have no declaration yet; the text is
\* malformed if one of them is closed, or more modules than there are.
closeNamespaces(st, levels) ==
    [st EXCEPT !.modules = SubSeq(@, 1, Len(@) - levels),
               !.malformed = @ \/ levels > Len(st.modules) \/ (levels > 0 /\ st.fresh > 0),
               !.fresh = IF levels > @ THEN 0 ELSE @ - levels]

openNamespaces(st, names) ==
    [st EXCEPT !.modules = @ \o names, !.fresh = @ + Len(names)]

adaptNamespace(st, ns) ==
    IF st.m_namespace = ns THEN st
    ELSE [openNamespaces(closeNamespaces(st, Len(st.m_namespace) - CommonLength(st.m_namespace, ns)),
                         SubSeq(ns, CommonLength(st.m_namespace, ns) + 1, Len(ns)))
            EXCEPT !.m_namespace = ns]

Write(st, decls) ==
    [st EXCEPT !.fresh = 0,
               !.stream = @ \o [i \in DOMAIN decls |-> [decls[i] EXCEPT !.modules = st.modules]]]

Declaration(e, id, refs) == [entry |-> e, modules |-> <<>>, id |-> id, refs |-> refs]

-----------------------------------------------------------------------------
(* save(stream, iterator) *)

\* save() is called on e, in the main loop of Exporter::save() or after it.
Handed(e) ==
    \/ pc = "save" /\ e \in cursor
    \/ pc = "collect" /\ types = {} /\ IsFirst(e, free_types) /\ e \in persistent

\* The call returns.
Returns(e, saved) == SaveOne(e, saved) \/ (e \in persistent /\ Drain(e))

Selected(e) == config.selected = {} \/ TypeOf(e) \in config.selected
Blob(e) == TypeOf(e) \in config.big

Unselected(e) ==
    /\ ~thrown /\ Handed(e) /\ ~Selected(e)
    /\ Returns(e, FALSE)
    /\ UNCHANGED idlvars

\* "struct A" and A are the same thing in IDL, be one the alias of the other.
Tagged(a) ==
    /\ Namespace[a] = Namespace[Target[a]]
    /\ \E tag \in {"struct", "enum"} :
         \/ Basename[Target[a]] = <<tag, " ">> \o Basename[a]
         \/ Basename[a] = <<tag, " ">> \o Basename[Target[a]]

\* Mutant: arrays are not looked into.
checkNotPointer(t) == Category[t] # "pointer"

checkType(t) ==
    /\ Category[t] # "pointer"
    /\ Category[t] = "array" => Category[Element(t)] \notin {"array", "pointer"}

\* The name of an alias is that of a typedef written for a container.
Reserved(a) == {r \in m_exported_typedefs : r.ns = Namespace[a] /\ r.base = Basename[a]}
Marked(a) == \E i \in DOMAIN Basename[a] : Basename[a][i] \in Marks
Spaced(a) == \E i \in DOMAIN Basename[a] : Basename[a][i] = " "

\* The types the typedef of an alias refers to.
AliasRefs(a) ==
    CASE Category[Target[a]] \in {"array", "container"} -> deps[Target[a]]
      [] Category[Target[a]] = "opaque" -> {}
      [] OTHER -> IF Spaced(a) THEN {} ELSE {Target[a]}

\* Whether the alias has a typedef at all.
AliasWritten(a) ==
    CASE Category[Target[a]] \in {"array", "container"} -> TRUE
      [] Category[Target[a]] = "opaque" -> config.any
      [] OTHER -> ~Spaced(a)

AliasRefused(a) ==
    \/ ~checkType(Target[a])
    \/ Reserved(a) # {} /\ (The(Reserved(a))).type # Target[a]
    \/ Reserved(a) = {} /\ ~Marked(a) /\ \E t \in AliasRefs(a) : ~Visitable(t)

SkipAlias(a) ==
    /\ ~thrown /\ Handed(a) /\ Selected(a)
    /\ Tagged(a) \/ (~AliasRefused(a) /\ (Reserved(a) # {} \/ Marked(a)))
    /\ Returns(a, FALSE)
    /\ UNCHANGED idlvars

\* The typedef is kept for end().
SaveAlias(a) ==
    /\ ~thrown /\ Handed(a) /\ Selected(a)
    /\ ~Tagged(a) /\ ~AliasRefused(a) /\ Reserved(a) = {} /\ ~Marked(a)
    /\ Returns(a, TRUE)
    /\ m_typedefs' =
         IF AliasWritten(a)
         THEN [m_typedefs EXCEPT ![Namespace[a]] = Append(@,
                 Declaration(a, stripLeadingUnderscore(Basename[a]), References(AliasRefs(a))))]
         ELSE m_typedefs
    /\ UNCHANGED <<config, idl, typedefs_it, m_exported_typedefs, thrown>>

RefuseAlias(a) ==
    /\ ~thrown /\ Handed(a) /\ Selected(a) /\ ~Tagged(a) /\ AliasRefused(a)
    /\ thrown' = TRUE
    /\ UNCHANGED <<vars, config, idl, m_typedefs, typedefs_it, m_exported_typedefs>>

\* What the visitor writes, and what it throws on; the fields of a compound are
\* its dependencies.
Ignored(t) == Category[t] \in {"numeric", "string"} \/ (Category[t] = "opaque" /\ config.any)

TypeRefused(t) ==
    \/ Category[t] \in {"pointer", "array", "null"} \/ (Category[t] = "opaque" /\ ~config.any)
    \/ Category[t] \in {"compound", "container"} /\ \E f \in deps[t] : ~Visitable(f)

SaveBlob(t) ==
    /\ ~thrown /\ Handed(t) /\ Selected(t) /\ Blob(t)
    /\ Returns(t, TRUE)
    /\ idl' = Write(adaptNamespace(idl, getIDLAbsoluteNamespace(Namespace[t])),
                    <<Declaration(t, Basename[t], {})>>)
    /\ UNCHANGED <<config, m_typedefs, typedefs_it, m_exported_typedefs, thrown>>

IgnoreType(t) ==
    /\ ~thrown /\ Handed(t) /\ Selected(t) /\ ~Blob(t) /\ Ignored(t)
    /\ Returns(t, FALSE)
    /\ UNCHANGED idlvars

\* std::map::insert() keeps the type that has the name already.
Reserve(t) ==
    LET name == [ns |-> Namespace[Element(t)], base |-> Identifier(t)] IN
    IF \E r \in m_exported_typedefs : r.ns = name.ns /\ r.base = name.base THEN m_exported_typedefs
    ELSE m_exported_typedefs \cup {[ns |-> name.ns, base |-> name.base, type |-> t]}

\* Mutant: a container is declared where its own name says.
SaveTypeAtHome(t) ==
    /\ ~thrown /\ Handed(t) /\ Selected(t) /\ ~Blob(t) /\ ~Ignored(t) /\ ~TypeRefused(t)
    /\ Returns(t, TRUE)
    /\ idl' = Write(adaptNamespace(idl, getIDLAbsoluteNamespace(Namespace[t])),
                    <<Declaration(t, Identifier(t), References(deps[t]))>>)
    /\ m_exported_typedefs' = IF Category[t] = "container" THEN Reserve(t) ELSE m_exported_typedefs
    /\ UNCHANGED <<config, m_typedefs, typedefs_it, thrown>>

SaveType(t) ==
    /\ ~thrown /\ Handed(t) /\ Selected(t) /\ ~Blob(t) /\ ~Ignored(t) /\ ~TypeRefused(t)
    /\ Returns(t, TRUE)
    /\ idl' = Write(adaptNamespace(idl, TargetNamespace(t)),
                    <<Declaration(t, Identifier(t), References(deps[t]))>>)
    /\ m_exported_typedefs' = IF Category[t] = "container" THEN Reserve(t) ELSE m_exported_typedefs
    /\ UNCHANGED <<config, m_typedefs, typedefs_it, thrown>>

RefuseType(t) ==
    /\ ~thrown /\ Handed(t) /\ Selected(t) /\ ~Blob(t) /\ TypeRefused(t)
    /\ thrown' = TRUE
    /\ UNCHANGED <<vars, config, idl, m_typedefs, typedefs_it, m_exported_typedefs>>

-----------------------------------------------------------------------------
(* end(stream, registry), after the last save() *)

\* The namespaces with typedefs that generateTypedefs() has not come to.
TypedefsLeft == {k \in typedefs_it..Len(NsOrder) : m_typedefs[NsOrder[k]] # <<>>}

\* Mutant: the typedefs are written in the module that is open.
generateTypedefsInPlace ==
    /\ ~thrown /\ pc = "done"
    /\ \E k \in TypedefsLeft :
        /\ \A l \in TypedefsLeft : k <= l
        /\ idl' = Write(idl, m_typedefs[NsOrder[k]])
        /\ typedefs_it' = k + 1
    /\ UNCHANGED <<vars, config, m_typedefs, m_exported_typedefs, thrown>>

\* One turn of generateTypedefs(); namespaces without typedefs are not in the map.
generateTypedefs ==
    /\ ~thrown /\ pc = "done"
    /\ \E k \in TypedefsLeft :
        /\ \A l \in TypedefsLeft : k <= l
        /\ idl' = Write(adaptNamespace(idl, getIDLAbsoluteNamespace(NsOrder[k])), m_typedefs[NsOrder[k]])
        /\ typedefs_it' = k + 1
    /\ UNCHANGED <<vars, config, m_typedefs, m_exported_typedefs, thrown>>

\* The remaining namespaces are closed.
EndOfFile == Len(NsOrder) + 2
IDLEnd ==
    /\ ~thrown /\ pc = "done" /\ TypedefsLeft = {} /\ typedefs_it # EndOfFile
    /\ idl' = closeNamespaces(idl, Len(idl.m_namespace))
    /\ typedefs_it' = EndOfFile
    /\ UNCHANGED <<vars, config, m_typedefs, m_exported_typedefs, thrown>>

\* The steps of Exporter::save() that do not call save().  What it drains at the
\* end is persistent: its loop is left with no other entry in free_types.
Order ==
    /\ ~thrown
    /\ Collect \/ Flush \/ Select \/ End
    /\ UNCHANGED idlvars

\* A type is not smaller than what it holds in place.
Realizable(c) ==
    \A t \in Type : Category[t] \in {"compound", "array"} /\ deps[t] \cap c.big # {} => t \in c.big

IDLInit ==
    /\ Init
    /\ config \in {c \in Configs : Realizable(c)}
    /\ idl = [m_namespace |-> <<>>, modules |-> <<>>, fresh |-> 0, malformed |-> FALSE, stream |-> <<>>]
    /\ m_typedefs = [ns \in Range(NsOrder) |-> <<>>]
    /\ typedefs_it = 1
    /\ m_exported_typedefs = {}
    /\ thrown = FALSE

IDLNext ==
    \/ Order \/ generateTypedefs \/ IDLEnd
    \/ \E e \in Entry : Unselected(e)
    \/ \E a \in Alias : SkipAlias(a) \/ SaveAlias(a) \/ RefuseAlias(a)
    \/ \E t \in Type : SaveBlob(t) \/ IgnoreType(t) \/ SaveType(t) \/ RefuseType(t)

IDLSpec == IDLInit /\ [][IDLNext]_<<vars, idlvars>>

-----------------------------------------------------------------------------
(* getIDLRelative() *)

Absolute(path) == [absolute |-> TRUE, path |-> path]
Relative(path) == [absolute |-> FALSE, path |-> path]

\* The text of t occurs in that of s.
Occurs(t, s) == \E i \in 0..(Len(s) - Len(t)) : SubSeq(s, i + 1, i + Len(t)) = t

\* What is left of a namespace after its k first components.
From(ns, k) == SubSeq(ns, k + 1, Len(ns))

\* Mutant: an enclosing namespace is not special.
MinimalPathInto(type_ns, ns) ==
    IF CommonLength(ns, type_ns) = Len(ns) THEN Relative(From(type_ns, Len(ns)))
    ELSE Relative(From(type_ns, CommonLength(type_ns, ns)))

\* The namespace specification that reaches a type from ns: what is left of type_ns
\* after the components they share, with as many of these as it takes for the text
\* not to occur in ns.  If the full name of the type occurs in ns, type_ns does.
getMinimalPathTo(type_ns, ns) ==
    IF CommonLength(ns, type_ns) = Len(ns) THEN Relative(From(type_ns, Len(ns)))
    ELSE IF Occurs(type_ns, ns) THEN Absolute(type_ns)
    ELSE LET clear == {k \in 1..CommonLength(type_ns, ns) : ~Occurs(From(type_ns, k), ns)} IN
         IF clear = {} THEN Absolute(type_ns) ELSE Relative(From(type_ns, Longest(clear)))

-----------------------------------------------------------------------------
(* Properties *)

Finished == typedefs_it = EndOfFile

\* The fields of the exporter, with m_namespace the modules that are open.
IDLTypeOK ==
    /\ config \in Configs /\ thrown \in BOOLEAN /\ typedefs_it \in 1..EndOfFile
    /\ idl.m_namespace \in Seq(Token) /\ (~Finished => idl.modules = idl.m_namespace)
    /\ idl.fresh \in 0..Len(idl.modules) /\ idl.malformed \in BOOLEAN
    /\ \A i \in DOMAIN idl.stream : idl.stream[i].entry \in Entry
    /\ \A ns \in DOMAIN m_typedefs : \A i \in DOMAIN m_typedefs[ns] : m_typedefs[ns][i].entry \in Alias
    /\ \A r \in m_exported_typedefs : r.type \in Type

\* The modules of the stream nest: each closing brace closes one, none is left
\* open at the end, and none is empty, "which is not accepted in IDL".
ModulesNest == IDLTypeOK /\ ~idl.malformed /\ (Finished => idl.modules = <<>>)

\* The declaration that a reference to t needs: an array has none of its own.
Denoted(t) == IF Category[t] = "array" THEN Element(t) ELSE t

\* A type written as a blob is declared under its own name, in its own namespace,
\* which for containers and templates is not what refers to it; and an array of a
\* type with two leading underscores loses both of them.
Misnamed(t) ==
    LET u == Denoted(t) IN
    \/ Blob(u) /\ (u \in Indirects \/ normalizeIDLName(Basename[u]) # Basename[u])
    \/ Identifier(t) # Identifier(u)

\* Every identifier in the text of a declaration is one of the language, or that of
\* a declaration written before, and in the modules the identifier names: the
\* order of Exporter::save() and the names of the visitors fit together, through
\* arrays, containers and aliases.  Types that are not selected are the caller's.
Resolved(r, i) ==
    \/ r.ns = Language
    \/ \E j \in 1..(i - 1) : idl.stream[j].modules = r.ns /\ idl.stream[j].id = r.id
    \/ ~Selected(Denoted(r.of)) \/ Denoted(r.of) \notin persistent \/ Misnamed(r.of)
ReferencesResolved == \A i \in DOMAIN idl.stream : \A r \in idl.stream[i].refs : Resolved(r, i)

\* The declarations of an entry, whether it needs one, and the modules it belongs in.
Declares(e) == {i \in DOMAIN idl.stream : idl.stream[i].entry = e}
Expected(e) ==
    /\ e \in persistent /\ Selected(e)
    /\ e \in Type => Blob(e) \/ ~Ignored(e)
    /\ e \in Alias => ~Tagged(e) /\ Reserved(e) = {} /\ ~Marked(e) /\ AliasWritten(e)
HomeOf(e) ==
    IF e \in Type /\ ~Blob(e) THEN TargetNamespace(e) ELSE getIDLAbsoluteNamespace(Namespace[e])

\* The modules nest, and the export ends with one declaration of each selected type
\* that IDL does not have already, and of each alias that can be a typedef, in its
\* own modules, though the order of the entries is the exporter's and the typedefs
\* come at the end.
EachDeclared ==
    /\ ModulesNest
    /\ Finished => \A e \in Entry :
         IF Expected(e) THEN \E i \in Declares(e) : Declares(e) = {i} /\ idl.stream[i].modules = HomeOf(e)
         ELSE e \in Type => Declares(e) = {}

\* D holds the arrays and containers that are spelled out for the types of T, and
\* no identifier is missing on the way.
Spelled(T, D) ==
    /\ T \cap Indirects \subseteq D
    /\ \A d \in D : deps[d] \cap Indirects \subseteq D
    /\ \A d \in D : Category[d] = "array" => \A u \in deps[d] : Category[u] # "array"
    /\ \A u \in T \cup UNION {deps[d] : d \in D} :
         Category[u] \notin {"pointer", "null"} /\ (Category[u] = "opaque" => config.any)
Writable(T) == \E D \in SUBSET Indirects : Spelled(T, D)
Supported(e) ==
    IF e \in Type
    THEN Blob(e) \/ Category[e] = "string" \/ (Category[e] # "array" /\ Writable({e} \cup deps[e]))
    ELSE \/ Tagged(e)
         \/ Reserved(e) # {} /\ checkType(Target[e])
         \/ Marked(e) /\ checkType(Target[e])
         \/ Spaced(e) /\ Target[e] \notin Indirects /\ Category[Target[e]] # "pointer"
         \/ Category[Target[e]] = "opaque"
         \/ Writable({Target[e]})

\* An export that ends had nothing in it that IDL cannot express: no pointer, no
\* array of arrays, no opaque unless it is marshalled as any, however deep in the
\* containers of a selected type.
SupportedOnly == Finished => \A e \in persistent : Selected(e) => Supported(e)

\* Conversely save() only throws on such an entry, or on an alias that takes the
\* name of the typedef of a container.
RefusedWithCause ==
    thrown => \E e \in persistent : Selected(e) /\ (~Supported(e) \/ (e \in Alias /\ Reserved(e) # {}))

\* save() refuses a registry exactly when what is selected cannot be written in IDL.
RefusedIffUnsupported == SupportedOnly /\ RefusedWithCause

\* The modules that hold declarations, and all those of the stream.
Homes == {idl.stream[i].modules : i \in DOMAIN idl.stream}
Modules == UNION {{SubSeq(m, 1, k) : k \in 0..Len(m)} : m \in Homes}

\* What IDL takes a scoped name for: its first component is looked up from the
\* innermost module outwards.
Lookup(name, ns) ==
    IF name.absolute THEN {name.path}
    ELSE IF name.path = <<>> THEN {ns}
    ELSE LET scopes == {k \in 0..Len(ns) : Append(SubSeq(ns, 1, k), Head(name.path)) \in Modules} IN
         IF scopes = {} THEN {} ELSE {SubSeq(ns, 1, Longest(scopes)) \o name.path}

\* No module has the name of another one, the namespace suffix aside, which names
\* innermost modules only.
Unambiguous ==
    /\ \A m, n \in Modules \ {<<>>} : m[Len(m)] = n[Len(n)] => m = n \/ <<m[Len(m)]>> = config.suffix
    /\ \A m \in Modules : \A i \in 1..(Len(m) - 1) : <<m[i]>> # config.suffix

\* The name getIDLRelative() gives a type reaches its module from that of every
\* other declaration, if the names of modules are not ambiguous.
RelativeResolves ==
    Finished /\ Unambiguous => \A m, n \in Homes : Lookup(getMinimalPathTo(m, n), n) = {m}
=============================================================================
