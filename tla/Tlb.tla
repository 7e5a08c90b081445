--------------------------------- MODULE Tlb ---------------------------------
(***************************************************************************)
(* The native file format: the exporter (lang/tlb/export.cc), the importer *)
(* (lang/tlb/import.cc) and the registries they are called on.             *)
(*                                                                         *)
(* A document is a function from the names of its nodes to the nodes: the  *)
(* importer reads all the nodes into a map before it builds any type.  It  *)
(* builds the types in the order of their names, and the types that a type *)
(* needs before it; a name with modifiers is built from its base, and a    *)
(* name that the registry already has is not read again.                   *)
(*                                                                         *)
(* A registry r holds the types it owns, by their names (r.types), and     *)
(* what every name denotes (r.names): the own name of a type, or an alias. *)
(* The names are absolute, and an XML document holds what was written.     *)
(* Of the modifiers of a name the arrays are modelled, pointers are alike. *)
(***************************************************************************)
EXTENDS Naturals, Integers, Sequences, SequencesExt, FiniteSets, TLC

CONSTANTS
    NameOrder,    \* every name considered, in the order of nameSort()
    FieldOrder,   \* the names of fields, in their order
    Derived,      \* <<modifier, name>> -> name, getIndirectTypeName()
    Parsed,       \* name -> [base, mods], parseTypename()
    Built,        \* the derived names a program asks for
    Definitions,  \* the types a program defines, with their sources
    Aliases,      \* <<name, name>>, the aliases a program defines
    Others,       \* the registries that a document may be loaded into
    MaxEdits      \* bound: the number of changes made to a registry

VARIABLES
    work,         \* the registry that is edited and saved
    saved,        \* the registry as it was when the document was saved
    doc,          \* the document
    other,        \* the registry that the document is loaded into
    fresh,        \* other was empty before the document was loaded
    edits,        \* the number of changes
    last          \* history: the last call, and whether it has thrown

vars == <<work, saved, doc, other, fresh, edits, last>>

NoSource == ""
NoValue == ""
NoSize == -1
NaturalVectorSize == 24
EnumSize == 4
Indirect == {"Array", "Container"}
Empty == [types |-> <<>>, names |-> <<>>]

-----------------------------------------------------------------------------
(* Registries *)

Entry(t, persistent, source) == [to |-> t, persistent |-> persistent, source |-> source]
Names(r) == DOMAIN r.names
IsAlias(r, n) == r.names[n].to # n
AliasesOf(r, t) == {n \in Names(r) : IsAlias(r, n) /\ r.names[n].to = t}
DependsOn(r, t) == {r.types[t].refs[i].type : i \in DOMAIN r.types[t].refs}
Sorted(S) == SelectSeq(NameOrder, LAMBDA n : n \in S)

RECURSIVE alias(_, _, _, _)

\* Indirect::modifiedDependencyAliases()
modifiedDependencyAliases(r, t) ==
    LET d == r.types[t]
        Name(a) == Derived[<<d.mod, a>>]
        One(s, a) == IF Name(a) \in Names(s) THEN s ELSE alias(s, t, Name(a), FALSE)
    IN  IF d.cat \notin Indirect THEN r
        ELSE FoldLeft(One, r, Sorted(AliasesOf(r, d.refs[1].type)))

\* Registry::alias() for a name that is free
alias(r, base, n, persistent) ==
    LET t == r.names[base].to
        added == [r EXCEPT !.names = @ @@ (n :> Entry(t, persistent, NoSource))]
    IN  FoldLeft(modifiedDependencyAliases, added,
                 Sorted({u \in DOMAIN r.types : t \in DependsOn(r, u)}))

\* Registry::isPersistent() for the own name of a type
isPersistent(d) == d.cat # "Array"

\* Registry::add() of a type whose name is free
Add(r, n, d, source) ==
    modifiedDependencyAliases([types |-> r.types @@ (n :> d),
                               names |-> r.names @@ (n :> Entry(n, isPersistent(d), source))], n)

Ref(field, offset, t, meta) == [field |-> field, offset |-> offset, type |-> t, meta |-> meta]
On(cat, size, data, mod, t) ==
    [cat |-> cat, size |-> size, data |-> data, mod |-> mod, refs |-> <<Ref("", 0, t, <<>>)>>, meta |-> <<>>]

\* TypeBuilder::build(): each modifier, on the type built so far
AddModifier(st, mod) ==
    LET n == Derived[<<mod, st.ret>>]
        d == On("Array", 2 * st.reg.types[st.ret].size, 2, mod, st.ret)
    IN  IF n \in Names(st.reg) THEN [st EXCEPT !.ret = st.reg.names[n].to]
        ELSE [st EXCEPT !.reg = Add(@, n, d, NoSource), !.ret = n]

\* Registry::build()
Build(st, name) ==
    IF name \in Names(st.reg) THEN [st EXCEPT !.ret = st.reg.names[name].to]
    ELSE FoldLeft(AddModifier, [st EXCEPT !.ret = st.reg.names[Parsed[name].base].to], Parsed[name].mods)

\* Container::createContainer() of a vector: the one the registry has, or a
\* new one of the size it has on this platform
createContainer(st, of) ==
    LET n == Derived[<<"vector", of>>] IN
    IF n \in Names(st.reg) THEN [st EXCEPT !.ret = st.reg.names[n].to]
    ELSE [st EXCEPT !.reg = Add(@, n, On("Container", NaturalVectorSize, "vector", "vector", of), NoSource),
                    !.ret = n]

-----------------------------------------------------------------------------
(* Export *)

\* emitMetaData(): an element for every value, or an empty one for the key
emitMetaData(meta) ==
    UNION {IF meta[k] = {} THEN {<<k, NoValue>>} ELSE {k} \X meta[k] : k \in DOMAIN meta}

\* The attributes of every node; a source that is empty is not written.
Node(tag, d, source) ==
    [tag |-> tag, size |-> NoSize, data |-> "", fields |-> <<>>, of |-> "", meta |-> emitMetaData(d.meta),
     source |-> source]

visit_numeric(d, source) == [Node("Numeric", d, source) EXCEPT !.size = d.size, !.data = d.data]
visit_null(d, source) == Node("Null", d, source)
visit_opaque(d, source) == [Node("Opaque", d, source) EXCEPT !.size = d.size]
\* An enumeration is the set of its symbols with their values.
visit_enum(d, source) == [Node("Enum", d, source) EXCEPT !.data = d.data]
visit_compound(d, source) ==
    [Node("Compound", d, source) EXCEPT !.size = d.size,
        !.fields = [i \in DOMAIN d.refs |-> [d.refs[i] EXCEPT !.meta = emitMetaData(@)]]]
visit_container(d, source) ==
    [Node("Container", d, source) EXCEPT !.size = d.size, !.data = d.data, !.of = d.refs[1].type]

NodeOf(d, source) ==
    CASE d.cat = "Numeric" -> visit_numeric(d, source)
      [] d.cat = "Null" -> visit_null(d, source)
      [] d.cat = "Opaque" -> visit_opaque(d, source)
      [] d.cat = "Enum" -> visit_enum(d, source)
      [] d.cat = "Compound" -> visit_compound(d, source)
      [] d.cat = "Container" -> visit_container(d, source)

AliasNode(source) ==
    [tag |-> "alias", size |-> NoSize, data |-> "", fields |-> <<>>, of |-> source, meta |-> {},
     source |-> NoSource]

\* TlbExport::save() for every entry that Exporter::save() hands to it
Save(r) ==
    [n \in {k \in Names(r) : r.names[k].persistent} |->
        IF IsAlias(r, n) THEN AliasNode(r.names[n].to) ELSE NodeOf(r.types[n], r.names[n].source)]

-----------------------------------------------------------------------------
(* Import.  st holds the registry, the nodes that are left (m_map), the name *)
(* of the type returned, and whether no exception was thrown.                *)

RECURSIVE build(_, _), loader(_, _, _)

\* loadMetaData(), into what is there already
loadMetaData(meta, elements) ==
    [k \in DOMAIN meta \cup {e[1] : e \in elements} |->
        (IF k \in DOMAIN meta THEN meta[k] ELSE {})
            \cup {e[2] : e \in {x \in elements : x[1] = k /\ x[2] # NoValue}}]

\* Factory::insert(): the metadata of the node, then Registry::add(), which
\* throws if the name has been taken meanwhile
insert(st, n, node, size, data, refs) ==
    IF n \in Names(st.reg) THEN [st EXCEPT !.ok = FALSE]
    ELSE [st EXCEPT !.reg = Add(@, n, [cat |-> node.tag, size |-> size, data |-> data, mod |-> "",
                                       refs |-> refs, meta |-> loadMetaData(<<>>, node.meta)], node.source),
                    !.ret = n]

load_numeric(st, n, node) == insert(st, n, node, node.size, node.data, <<>>)
load_null(st, n, node) == insert(st, n, node, 0, "", <<>>)
load_opaque(st, n, node) == insert(st, n, node, node.size, "", <<>>)
load_enum(st, n, node) == insert(st, n, node, EnumSize, node.data, <<>>)

\* Factory::alias(): a name that denotes another type is refused.
AliasSource(st, n, node) ==
    IF ~st.ok THEN st
    ELSE IF n \notin Names(st.reg) THEN [st EXCEPT !.reg = alias(@, node.of, n, TRUE)]
    ELSE [st EXCEPT !.ok = (st.reg.names[n].to = st.reg.names[node.of].to)]

\* load_alias()
load_alias(st, n, node) == AliasSource(build(st, node.of), n, node)

\* Mutant: the container keeps the size of this platform.
LoadedContainerNatural(st, node) ==
    [st EXCEPT !.reg.types[st.ret].meta = loadMetaData(@, node.meta)]

\* The size "to match the one saved in the registry" and the metadata of a
\* container; its source is not read.
LoadedContainer(st, node) ==
    [st EXCEPT !.reg.types[st.ret].size = IF node.size > 0 THEN node.size ELSE @,
               !.reg.types[st.ret].meta = loadMetaData(@, node.meta)]

\* load_container(), of the type that was built
ContainerOf(st, node) == IF st.ok THEN LoadedContainer(createContainer(st, st.ret), node) ELSE st
load_container(st, n, node) == ContainerOf(build(st, node.of), node)

\* The loop of load_compound(): the types of the fields, one after the other
FieldBuilt(st, refs, f) == [st |-> st, refs |-> Append(refs, [f EXCEPT !.type = st.ret, !.meta = loadMetaData(<<>>, @)])]
LoadFields(st, fields) ==
    FoldLeft(LAMBDA s, f : IF s.st.ok THEN FieldBuilt(build(s.st, f.type), s.refs, f) ELSE s,
             [st |-> st, refs |-> <<>>], fields)

\* Fields at one offset are ordered by their names.
Position(field) == CHOOSE i \in DOMAIN FieldOrder : FieldOrder[i] = field
fieldOffsetOrdering(f, g) ==
    \/ f.offset < g.offset
    \/ f.offset = g.offset /\ Position(f.field) < Position(g.field)
normalizeFieldOrder(refs) == SortSeq(refs, fieldOffsetOrdering)

\* load_compound(): the compound is in the registry when its fields are built.
CompoundOf(s, n, node) ==
    IF s.st.ok THEN insert(s.st, n, node, node.size, "", normalizeFieldOrder(s.refs)) ELSE s.st
load_compound(st, n, node) == CompoundOf(LoadFields(st, node.fields), n, node)

\* The loader of a node (node_categories)
loader(st, n, node) ==
    CASE node.tag = "alias" -> load_alias(st, n, node)
      [] node.tag = "Container" -> load_container(st, n, node)
      [] node.tag = "Compound" -> load_compound(st, n, node)
      [] node.tag = "Numeric" -> load_numeric(st, n, node)
      [] node.tag = "Null" -> load_null(st, n, node)
      [] node.tag = "Opaque" -> load_opaque(st, n, node)
      [] node.tag = "Enum" -> load_enum(st, n, node)

Erase(st, n) == [st EXCEPT !.left = @ \ {n}]

\* "if (type->getName() != name && !has(name, false)) alias(...)"
NameIt(st, n) ==
    IF st.ok /\ st.ret # n /\ n \notin Names(st.reg)
    THEN [st EXCEPT !.reg = alias(@, st.ret, n, TRUE)] ELSE st

\* Mutant: the metadata of the file is added to a type that is known already.
BuildBaseMerges(st, base) ==
    IF base \in Names(st.reg)
    THEN [st EXCEPT !.ret = st.reg.names[base].to, !.left = @ \ {base},
                    !.reg.types[st.reg.names[base].to].meta =
                        IF base \in st.left THEN loadMetaData(@, doc[base].meta) ELSE @]
    ELSE IF base \notin st.left THEN [st EXCEPT !.ok = FALSE]
    ELSE NameIt(loader(Erase(st, base), base, doc[base]), base)

\* The base of a name: what the registry has under this name, or the node
BuildBase(st, base) ==
    IF base \in Names(st.reg) THEN [Erase(st, base) EXCEPT !.ret = st.reg.names[base].to]
    ELSE IF base \notin st.left THEN [st EXCEPT !.ok = FALSE]
    ELSE NameIt(loader(Erase(st, base), base, doc[base]), base)

\* The modifiers of a name, when its base is there
BuildDerived(st, name) ==
    IF ~st.ok \/ Parsed[name].base = name THEN st ELSE Erase(NameIt(Build(st, name), name), name)

\* Factory::build(name)
build(st, name) == BuildDerived(BuildBase(st, Parsed[name].base), name)

RECURSIVE BuildAll(_)
\* Factory::build(map)
BuildAll(st) ==
    IF st.left = {} \/ ~st.ok THEN st ELSE BuildAll(build(st, Sorted(st.left)[1]))

\* TlbImport::load()
Load(r) == BuildAll([reg |-> r, left |-> DOMAIN doc, ret |-> "", ok |-> TRUE])

-----------------------------------------------------------------------------
(* The calls of a program *)

Init ==
    /\ work = Empty /\ saved = Empty /\ doc = <<>>
    /\ other \in Others /\ fresh = FALSE
    /\ edits = 0 /\ last = [call |-> "none", ok |-> TRUE]

Edit(r) ==
    /\ edits < MaxEdits
    /\ work' = r /\ work' # work /\ edits' = edits + 1
    /\ last' = [call |-> "edit", ok |-> TRUE]
    /\ UNCHANGED <<saved, doc, other, fresh>>

\* Registry::add() of a type whose dependencies are in the registry
Define(n, d, source) ==
    /\ n \notin Names(work) /\ \A i \in DOMAIN d.refs : d.refs[i].type \in DOMAIN work.types
    /\ Edit(Add(work, n, d, source))

\* Registry::build() of a name whose base is in the registry
Derive(n) ==
    /\ Parsed[n].base \in Names(work)
    /\ Edit(Build([reg |-> work, ret |-> ""], n).reg)

\* Registry::alias()
Alias(n, base) ==
    /\ n \notin Names(work) /\ base \in Names(work)
    /\ Edit(alias(work, base, n, TRUE))

\* Registry::removeAlias()
RemoveAlias(n) ==
    /\ IsAlias(work, n)
    /\ Edit([work EXCEPT !.names = [k \in DOMAIN @ \ {n} |-> @[k]]])

\* PluginManager::save()
SaveWork ==
    /\ saved # work
    /\ saved' = work /\ doc' = Save(work) /\ fresh' = FALSE
    /\ last' = [call |-> "save", ok |-> TRUE]
    /\ UNCHANGED <<work, other, edits>>

\* PluginManager::load() into a registry
LoadOther ==
    /\ doc # <<>> /\ last.call = "save"
    /\ \E st \in {Load(other)} : other' = st.reg /\ last' = [call |-> "load", ok |-> st.ok]
    /\ fresh' = (other = Empty)
    /\ UNCHANGED <<work, saved, doc, edits>>

\* PluginManager::load() of an earlier document into the edited registry
LoadWork ==
    /\ doc # <<>> /\ last.call = "edit"
    /\ \E st \in {Load(work)} : work' = st.reg /\ last' = [call |-> "reload", ok |-> st.ok]
    /\ UNCHANGED <<saved, doc, other, fresh, edits>>

Next ==
    \/ \E t \in Definitions : Define(t.name, t.def, t.source)
    \/ \E n \in Built : Derive(n)
    \/ \E a \in Aliases : Alias(a[1], a[2])
    \/ \E n \in Names(work) : RemoveAlias(n)
    \/ SaveWork
    \/ LoadOther
    \/ LoadWork

Spec == Init /\ [][Next]_vars

-----------------------------------------------------------------------------
(* Properties *)

\* Every name denotes a type of the registry that has its own name there.
TypeOK ==
    \A r \in {work, saved, other} :
        /\ DOMAIN r.types \subseteq Names(r)
        /\ \A n \in Names(r) : r.names[n].to \in DOMAIN r.types
        /\ \A n \in DOMAIN r.types : r.names[n].to = n

\* Types only refer to types of their registry, also after an import that has
\* thrown half-way (a compound is added after the types of its fields).
RegistryClosed ==
    \A r \in {work, other} : \A t \in DOMAIN r.types : DependsOn(r, t) \subseteq DOMAIN r.types

\* An import leaves a registry whose types refer to its own; if it has not thrown, it
\* has every name of the document, and loading it once more changes nothing.
LoadComplete ==
    TypeOK /\ RegistryClosed /\ (last.call = "load" /\ last.ok => DOMAIN doc \subseteq Names(other) /\ Load(other).reg = other)

\* What a name means in a registry; derived types have no metadata in a file.
Meaning(r, n) == [r.types[r.names[n].to] EXCEPT !.meta = IF r.names[r.names[n].to].persistent THEN @ ELSE <<>>]

\* The derived aliases of which the alias they come from has been removed
Orphans(r) ==
    {n \in Names(r) : IsAlias(r, n) /\ ~r.names[n].persistent /\
        LET d == r.types[r.names[n].to]
        IN  ~\E a \in AliasesOf(r, d.refs[1].type) : Derived[<<d.mod, a>>] = n}

\* Every document that was saved can be loaded into an empty registry, though types
\* are built in the order of their names, and gives back what was saved: the
\* same types with their fields, sizes and metadata, under the same names and
\* with the same aliases, whatever the order in which they were defined, and
\* the source of every type that is not a container.  The fields of a compound
\* come back in the order of their offsets.  Of the derived types,
\* which the file does not hold, those are rebuilt that something refers to,
\* with their aliases; no name is invented but such aliases.  Loaded into a registry
\* that is not empty, a document is complete as well.
RoundTrip ==
    LoadComplete /\ (last.call = "load" /\ fresh =>
        /\ last.ok
        /\ \A n \in DOMAIN doc :
            /\ n \in Names(other)
            /\ other.names[n].to = saved.names[n].to
            /\ Meaning(other, n) = [Meaning(saved, n) EXCEPT !.refs = normalizeFieldOrder(@)]
            /\ ~IsAlias(saved, n) /\ saved.types[n].cat # "Container" =>
                  other.names[n].source = saved.names[n].source
        /\ \A n \in Names(saved) \ Orphans(saved) :
            saved.names[n].to \in DOMAIN other.types =>
                n \in Names(other) /\ other.names[n].to = saved.names[n].to
        /\ \A n \in Names(other) \ Names(saved) : IsAlias(other, n) /\ ~other.names[n].persistent)

\* An import leaves what the registry has as it is: no name changes its type,
\* and no type its definition, even where the document disagrees.
LoadConservative ==
    [][last'.call \in {"load", "reload"} =>
        LET before == IF last'.call = "load" THEN other ELSE work
            after == IF last'.call = "load" THEN other' ELSE work'
        IN  /\ \A n \in Names(before) : n \in Names(after) /\ after.names[n] = before.names[n]
            /\ \A t \in DOMAIN before.types : after.types[t] = before.types[t]]_vars
=============================================================================
