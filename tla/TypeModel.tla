------------------------------ MODULE TypeModel ------------------------------
(***************************************************************************)
(* Operations on graphs of Type objects (typelib/typemodel.cc): the deep   *)
(* comparison behind isSame() and canCastTo(), the merge of a type into    *)
(* another registry, the propagation of a change of size; and the          *)
(* operations of Registry (registry.cc) that are made of them: merge(),    *)
(* minimal(), resize(), copySourceIDs(), mergeMetaData().                  *)
(*                                                                         *)
(* objs is the heap: the Type objects that have not been deleted, of every *)
(* registry.  A registry maps a name to its entry (m_global).  Every field *)
(* of a compound and the indirection of a pointer, array or container is   *)
(* an element of refs, in the order of the code.  Metadata, of types and   *)
(* of fields alike, is the set of its values; the value set for the key    *)
(* source_id is a member of Source.  The names are absolute and the        *)
(* namespace is "/", the rest of the name tables is in Registry.tla.       *)
(***************************************************************************)
EXTENDS Naturals, Integers, Sequences, SequencesExt, FiniteSets, TLC

CONSTANTS
    NameOrder,   \* every name considered, in the order of nameSort()
    Derived,     \* <<modifier, name>> -> name, getIndirectTypeName()
    BaseName,    \* name -> name without its modifiers, getBaseType()
    Libraries,   \* the pairs of registries that merge() is called with
    MinName,     \* the names that minimal() is called with
    NewSizes,    \* the maps that resize() is called with
    MaxCalls     \* bound: the number of calls on the registry

VARIABLES
    objs,        \* type object -> definition
    lib,         \* ["A", "B" -> registry], the arguments of merge()
    main,        \* the registry the calls are made on
    result,      \* the registry that the last call of minimal() returned
    calls,       \* the number of calls so far
    failed,      \* an exception has left one of the calls on main
    endless,     \* the last call never returns
    last         \* history: the last call and its arguments

vars == <<objs, lib, main, result, calls, failed, endless, last>>

NoObject == <<>>
NoSource == ""
Source == {"a.h", "b.h"}
PointerSize == 8
VectorSize == 24
Generation == <<"first", "second", "third", "fourth">>
Indirect == {"Pointer", "Array", "Container"}

Entry(t, source) == [type |-> t, source |-> source]
At(field, offset, t) == [field |-> field, offset |-> offset, type |-> t]

-----------------------------------------------------------------------------
(* Type definitions *)

Type(name, size, cat, data) ==
    [name |-> name, size |-> size, cat |-> cat, data |-> data, mod |-> "", refs |-> <<>>, meta |-> {}]

NullType(name) == Type(name, 0, "Null", 0)
OpaqueType(name, size) == Type(name, size, "Opaque", 0)
Numeric(name, size, category) == Type(name, size, "Numeric", category)
\* An enumeration is the set of its symbols with their values.
Enum(name, values) == Type(name, 4, "Enum", values)

\* A type on another one; getIndirectTypeName() makes its name.
Indirection(objects, cat, size, data, mod, on) ==
    [Type(Derived[<<mod, objects[on].name>>], size, cat, data) EXCEPT
        !.mod = mod, !.refs = <<At("", 0, on)>>]

Pointer(objects, on) == Indirection(objects, "Pointer", PointerSize, 0, "*", on)
\* The arrays considered have two elements.
Array(objects, of, dim) == Indirection(objects, "Array", dim * objects[of].size, dim, "[2]", of)
Vector(objects, of) == Indirection(objects, "Container", VectorSize, "/std/vector", "vector", of)

Compound(name) == Type(name, 0, "Compound", 0)

addField(objects, compound, field, t, offset) ==
    LET end == offset + objects[t].size IN
    [compound EXCEPT !.refs = Append(@, At(field, offset, t)),
                     !.size = IF @ < end THEN end ELSE @]

Target(objects, t) == objects[t].refs[1].type
dependsOn(objects, t) == {objects[t].refs[i].type : i \in DOMAIN objects[t].refs}
IsAlias(objects, m, n) == objects[m[n].type].name # n
Names(m) == SelectSeq(NameOrder, LAMBDA n : n \in DOMAIN m)
OwnNames(objects, m) == SelectSeq(Names(m), LAMBDA n : ~IsAlias(objects, m, n))
AliasNames(objects, m) == SelectSeq(Names(m), LAMBDA n : IsAlias(objects, m, n))

\* has(name, build_if_missing)
Has(m, n, build_if_missing) ==
    n \in DOMAIN m \/ (build_if_missing /\ BaseName[n] \in DOMAIN m)

-----------------------------------------------------------------------------
(* Comparison *)

Answer(same, stack) == [same |-> same, stack |-> stack]

RECURSIVE do_compare(_, _, _, _, _), CompareFields(_, _, _, _, _, _)

\* Mutant: a type that has been compared with another one is equal to any type.
rec_compare_loose(objects, left, right, equality, stack) ==
    IF left = right THEN Answer(TRUE, stack)
    ELSE IF left \in DOMAIN stack THEN Answer(TRUE, stack)
    ELSE do_compare(objects, left, right, equality, stack @@ (left :> right))

\* A pair is on the stack as soon as its comparison starts, and stays there.
rec_compare(objects, left, right, equality, stack) ==
    IF left = right THEN Answer(TRUE, stack)
    ELSE IF left \in DOMAIN stack
    THEN Answer(stack[left] = right, stack)
    ELSE do_compare(objects, left, right, equality, stack @@ (left :> right))

\* Type::do_compare()
CompareType(a, b) == a.size = b.size /\ a.cat = b.cat

\* NullType, OpaqueType, Numeric
CompareNull(a, b) == a.name = b.name
CompareOpaque(a, b) == CompareType(a, b) /\ a.name = b.name
CompareNumeric(a, b) == CompareType(a, b) /\ a.data = b.data

CompareEnum(a, b, equality) ==
    CompareType(a, b) /\ IF equality THEN a.data = b.data ELSE a.data \subseteq b.data

CompareIndirect(objects, left, right, equality, stack) ==
    IF CompareType(objects[left], objects[right])
    THEN rec_compare(objects, Target(objects, left), Target(objects, right), equality, stack)
    ELSE Answer(FALSE, stack)

\* Elements of arrays and containers are always compared for equality.
CompareArray(objects, left, right, equality, stack) ==
    IF CompareType(objects[left], objects[right]) /\ objects[left].data = objects[right].data
    THEN CompareIndirect(objects, left, right, TRUE, stack)
    ELSE Answer(FALSE, stack)

CompareContainer(objects, left, right, equality, stack) ==
    IF CompareType(objects[left], objects[right]) /\ objects[left].data = objects[right].data
    THEN CompareIndirect(objects, left, right, TRUE, stack)
    ELSE Answer(FALSE, stack)

\* The loop of Compound::do_compare(), from field i on.
CompareFields(objects, a, b, i, equality, stack) ==
    IF i > Len(a) THEN Answer(TRUE, stack)
    ELSE IF a[i].field # b[i].field \/ a[i].offset # b[i].offset THEN Answer(FALSE, stack)
    ELSE LET here == rec_compare(objects, a[i].type, b[i].type, equality, stack)
         IN  IF here.same THEN CompareFields(objects, a, b, i + 1, equality, here.stack) ELSE here

CompareCompound(objects, left, right, equality, stack) ==
    LET a == objects[left]
        b == objects[right]
    IN  IF b.cat # "Compound" \/ (equality /\ ~CompareType(a, b)) \/ Len(a.refs) # Len(b.refs)
        THEN Answer(FALSE, stack)
        ELSE CompareFields(objects, a.refs, b.refs, 1, equality, stack)

\* The virtual call
do_compare(objects, left, right, equality, stack) ==
    LET a == objects[left]
        b == objects[right]
    IN  CASE a.cat = "Null" -> Answer(CompareNull(a, b), stack)
          [] a.cat = "Opaque" -> Answer(CompareOpaque(a, b), stack)
          [] a.cat = "Numeric" -> Answer(CompareNumeric(a, b), stack)
          [] a.cat = "Enum" -> Answer(CompareEnum(a, b, equality), stack)
          [] a.cat = "Pointer" -> CompareIndirect(objects, left, right, equality, stack)
          [] a.cat = "Array" -> CompareArray(objects, left, right, equality, stack)
          [] a.cat = "Container" -> CompareContainer(objects, left, right, equality, stack)
          [] a.cat = "Compound" -> CompareCompound(objects, left, right, equality, stack)

Compare(objects, left, right, equality) ==
    left = right \/ do_compare(objects, left, right, equality, left :> right).same

isSame(objects, left, right) == Compare(objects, left, right, TRUE)
canCastTo(objects, left, right) == Compare(objects, left, right, FALSE)

-----------------------------------------------------------------------------
(* Entries of a registry *)

RECURSIVE WithDerived(_, _, _)

\* The derived names that modifiedDependencyAliases() still has to bind.
MissingAliases(objects, m) ==
    {<<u, n>> \in {m[k].type : k \in DOMAIN m} \X DOMAIN BaseName :
        /\ n \notin DOMAIN m
        /\ objects[u].cat \in Indirect
        /\ \E a \in DOMAIN m :
              /\ m[a].type = Target(objects, u) /\ a # objects[m[a].type].name
              /\ <<objects[u].mod, a>> \in DOMAIN Derived
              /\ Derived[<<objects[u].mod, a>>] = n}

\* What the nested alias() calls make of a map; they have no source.
WithDerived(objects, m, depth) ==
    LET missing == MissingAliases(objects, m) IN
    IF missing = {} \/ depth = 0 THEN m
    ELSE LET c == CHOOSE c \in missing : TRUE
         IN  WithDerived(objects, m @@ (c[2] :> Entry(c[1], NoSource)), depth - 1)

\* add(Type*), and alias(base, newname, persistent, source_id)
Bound(objects, m, n, t, source) ==
    WithDerived(objects, m @@ (n :> Entry(t, source)), Len(NameOrder))

-----------------------------------------------------------------------------
(* Merge.  st holds the heap, the target map, the RecursionStack, the type   *)
(* returned, and whether no exception was thrown; gen tells the objects that *)
(* a call creates from those of the other calls.                             *)

RECURSIVE Merge(_, _, _), MergeFields(_, _, _, _, _)

\* Mutant: a type of the same name is reused without being compared.
TryMergeByName(st, t) ==
    LET n == st.objs[t].name IN
    IF t \in DOMAIN st.stack THEN [st EXCEPT !.ret = st.stack[t]]
    ELSE IF n \notin DOMAIN st.m THEN [st EXCEPT !.ret = NoObject]
    ELSE [st EXCEPT !.ret = st.m[n].type, !.stack = @ @@ (t :> st.m[n].type)]

\* try_merge(): the pairs of the comparison stay on the stack.
try_merge(st, t) ==
    LET n == st.objs[t].name IN
    IF t \in DOMAIN st.stack THEN [st EXCEPT !.ret = st.stack[t]]
    ELSE IF n \notin DOMAIN st.m THEN [st EXCEPT !.ret = NoObject]
    ELSE LET old == st.m[n].type
             c == do_compare(st.objs, old, t, TRUE, st.stack)
         IN  IF c.same THEN [st EXCEPT !.ret = old, !.stack = c.stack @@ (t :> old)]
             ELSE [st EXCEPT !.ok = FALSE]

\* The loop of Compound::do_merge(), from field i on; addField() lets the
\* new object, whose size is 0 at first, grow to the end of the field.
MergeFields(st, t, new, i, gen) ==
    IF i > Len(st.objs[t].refs) THEN st
    ELSE LET field == st.objs[t].refs[i]
             merged == Merge(st, field.type, gen)
         IN  IF ~merged.ok THEN merged
             ELSE MergeFields([merged EXCEPT !.objs[new] =
                        addField(merged.objs, @, field.field, merged.ret, field.offset)],
                        t, new, i + 1, gen)

\* A new type is entered in the registry; its stack entry may exist already.
Registered(st, t, new) ==
    [st EXCEPT !.stack = @ @@ (t :> new), !.ret = new,
               !.m = Bound(st.objs, @, st.objs[new].name, new, NoSource)]

\* Compound::do_merge(), and the rest of Type::merge().  The new object is on
\* the stack while its fields are merged, and deleted when that fails.
MergeCompound(st, t, gen) ==
    LET new == <<gen, st.objs[t].name>>
        open == [st EXCEPT !.objs = @ @@ (new :> Compound(st.objs[t].name)),
                           !.stack = @ @@ (t :> new)]
        closed == MergeFields(open, t, new, 1, gen)
    IN  IF closed.ok
        THEN Registered([closed EXCEPT !.objs[new].size = st.objs[t].size], t, new)
        ELSE [closed EXCEPT
                !.objs = [o \in DOMAIN @ \ {new} |-> @[o]],
                !.stack = [o \in DOMAIN @ \ {t} |-> @[o]]]

\* The do_merge() of arrays and containers.  A container is made by its
\* factory, which has the size of the host, and takes the size of the merged one.
MergeArray(objects, d, on) == Array(objects, on, d.data)
MergeContainer(objects, d, on) == [Vector(objects, on) EXCEPT !.size = d.size]

\* Indirect::merge(): the indirection first, then Type::merge().
MergeIndirect(st, t, gen) ==
    LET inner == Merge(st, Target(st.objs, t), gen)
        tried == IF inner.ok THEN try_merge(inner, t) ELSE inner
        new == <<gen, st.objs[t].name>>
        d == st.objs[t]
        copy == CASE d.cat = "Pointer" -> Pointer(inner.objs, inner.ret)
                  [] d.cat = "Array" -> MergeArray(inner.objs, d, inner.ret)
                  [] d.cat = "Container" -> MergeContainer(inner.objs, d, inner.ret)
    IN  IF ~tried.ok \/ tried.ret # NoObject THEN tried
        ELSE Registered([tried EXCEPT !.objs = @ @@ (new :> copy)], t, new)

\* The merge() of every class; the other types are copied as they are.
Merge(st, t, gen) ==
    LET tried == try_merge(st, t)
        new == <<gen, st.objs[t].name>>
    IN  IF ~tried.ok \/ tried.ret # NoObject THEN tried
        ELSE CASE st.objs[t].cat = "Compound" -> MergeCompound(tried, t, gen)
               [] st.objs[t].cat \in Indirect -> MergeIndirect(tried, t, gen)
               [] OTHER -> Registered([tried EXCEPT !.objs = @ @@ (new :> st.objs[t])], t, new)

MergeStart(objects, m) ==
    [objs |-> objects, m |-> m, stack |-> <<>>, ret |-> NoObject, ok |-> TRUE]

-----------------------------------------------------------------------------
(* Registry::merge() and Registry::minimal() *)

\* One alias of the merged registry: an existing name has to denote the same
\* type, an unknown one becomes an alias of the type of that name.
MergeAlias(st, other, n) ==
    LET t == other[n].type IN
    IF ~st.ok THEN st
    ELSE IF n \in DOMAIN st.m
    THEN [st EXCEPT !.ok = isSame(st.objs, st.m[n].type, t)]
    ELSE [st EXCEPT !.m = Bound(st.objs, @, n, st.m[st.objs[t].name].type, other[n].source)]

\* MetaData::set() of the key source_id, MetaData::merge()
SetMetaData(meta, source) == (meta \ Source) \cup {source}
AddMetaData(meta, other) == meta \cup other

\* setSourceID(type, source_id): the entry of the name of the type.
setSourceID(st, t, source) ==
    [st EXCEPT !.m[st.objs[t].name].source = source,
               !.objs[t].meta = SetMetaData(@, source)]

\* "all source IDs from types in +this+ which have no source ID yet"; the entry
\* looked at is the one of the name, which may be that of an alias.
CopySource(st, other, n) ==
    IF n \in DOMAIN st.m /\ other[n].source # NoSource /\ st.m[n].source = NoSource
    THEN setSourceID(st, st.m[n].type, other[n].source)
    ELSE st

\* copySourceIDs(), one entry after the other
copySourceIDs(st, other) ==
    FoldLeft(LAMBDA s, n : CopySource(s, other, n), st, Names(other))

\* mergeMetaData()
mergeMetaData(st, other) ==
    LET From(o) == UNION {st.objs[other[n].type].meta :
                             n \in {k \in DOMAIN other \cap DOMAIN st.m : st.m[k].type = o}}
    IN  [st EXCEPT !.objs = [o \in DOMAIN @ |-> [@[o] EXCEPT !.meta = AddMetaData(@, From(o))]]]

\* merge(registry), with the stack shared by all the types
MergeAll(objects, m, other, gen) ==
    LET types == FoldLeft(LAMBDA s, n : IF s.ok THEN Merge(s, other[n].type, gen) ELSE s,
                          MergeStart(objects, m), OwnNames(objects, other))
        aliases == FoldLeft(LAMBDA s, n : MergeAlias(s, other, n), types,
                            AliasNames(objects, other))
    IN  IF aliases.ok THEN mergeMetaData(copySourceIDs(aliases, other), other) ELSE aliases

\* alias(), to a type of the registry: AlreadyDefined if the name has another one.
AliasTo(st, n, t) ==
    IF n \in DOMAIN st.m THEN [st EXCEPT !.ok = st.m[n].type = t]
    ELSE [st EXCEPT !.m = Bound(st.objs, @, n, t, NoSource)]

\* Mutant: the aliases are copied whether the caller wants them or not.
MinimalOfAliased(objects, m, n, with_aliases, gen) ==
    LET type == Merge(MergeStart(objects, <<>>), m[n].type, gen)
        Alias(s, a) ==
            IF s.ok /\ objects[m[a].type].name \in DOMAIN s.m
            THEN AliasTo(s, a, s.m[objects[m[a].type].name].type) ELSE s
    IN  mergeMetaData(copySourceIDs(FoldLeft(Alias, type, AliasNames(objects, m)), m), m)

\* minimal(name, with_aliases).  The aliases are copied without their source.
MinimalOf(objects, m, n, with_aliases, gen) ==
    LET type == Merge(MergeStart(objects, <<>>), m[n].type, gen)
        Alias(s, a) ==
            IF s.ok /\ objects[m[a].type].name \in DOMAIN s.m
            THEN AliasTo(s, a, s.m[objects[m[a].type].name].type) ELSE s
        named == IF with_aliases THEN FoldLeft(Alias, type, AliasNames(objects, m)) ELSE type
    IN  mergeMetaData(copySourceIDs(named, m), m)

\* minimal(auto_types, keep_auto_aliases): every type has a stack of its own.
MinimalWithout(objects, m, auto, keep_auto_aliases, gen) ==
    LET One(s, n) ==
            IF Has(auto, n, TRUE) THEN s
            ELSE Merge([s EXCEPT !.stack = <<>>], m[n].type, gen)
        types == FoldLeft(One, MergeStart(objects, <<>>), OwnNames(objects, m))
        Alias(s, a) ==
            IF (~keep_auto_aliases /\ Has(auto, a, TRUE)) \/ ~Has(s.m, objects[m[a].type].name, FALSE)
            THEN s ELSE MergeAlias(s, m, a)
        named == FoldLeft(Alias, types, AliasNames(objects, m))
    IN  mergeMetaData(copySourceIDs(named, m), m)

-----------------------------------------------------------------------------
(* Resize.  sizes maps the name of a type that has changed to its old size.  *)
(* active are the types whose resize() has not returned: nothing tells it    *)
(* that it is called again for one of them, and it never returns.            *)

RECURSIVE ResizeType(_, _, _), ResizeFields(_, _, _, _, _)

\* Mutant: the offsets are not moved.
ResizeInPlace(r, t, i, shift, active) ==
    IF i > Len(r.objs[t].refs) THEN [r EXCEPT !.shift = shift]
    ELSE LET u == r.objs[t].refs[i].type
             done == ResizeType(r, u, active)
         IN  IF done.endless THEN done
             ELSE ResizeFields(done, t, i + 1,
                    IF done.changed THEN shift + done.objs[u].size - done.sizes[done.objs[u].name]
                    ELSE shift, active)

\* The loop of Compound::do_resize(), with global_offset in shift.
ResizeFields(r, t, i, shift, active) ==
    IF i > Len(r.objs[t].refs) THEN [r EXCEPT !.shift = shift]
    ELSE LET moved == [r EXCEPT !.objs[t].refs[i].offset = @ + shift]
             u == r.objs[t].refs[i].type
             done == ResizeType(moved, u, active)
         IN  IF done.endless THEN done
             ELSE ResizeFields(done, t, i + 1,
                    IF done.changed THEN shift + done.objs[u].size - done.sizes[done.objs[u].name]
                    ELSE shift, active)

\* new_sizes gets the old size of a type that do_resize() has changed.
Resized(r, t, size) ==
    [r EXCEPT !.objs[t].size = size, !.changed = TRUE,
              !.sizes = @ @@ (r.objs[t].name :> r.objs[t].size)]

\* Indirect::do_resize(), with Array::do_resize()
ResizeIndirect(r, t, active) ==
    LET inner == ResizeType(r, Target(r.objs, t), active)
        d == r.objs[t]
    IN  IF inner.endless \/ ~inner.changed THEN inner
        ELSE Resized(inner, t, IF d.cat = "Array" THEN d.data * inner.objs[Target(r.objs, t)].size
                               ELSE d.size)

ResizeCompound(r, t, active) ==
    LET fields == ResizeFields(r, t, 1, 0, active) IN
    IF fields.endless THEN fields
    ELSE IF fields.shift # 0 THEN Resized(fields, t, r.objs[t].size + fields.shift)
    ELSE [fields EXCEPT !.changed = FALSE]

\* Type::resize()
ResizeType(r, t, active) ==
    IF r.objs[t].name \in DOMAIN r.sizes THEN [r EXCEPT !.changed = TRUE]
    ELSE IF t \in active THEN [r EXCEPT !.endless = TRUE]
    ELSE IF r.objs[t].cat \in Indirect THEN ResizeIndirect(r, t, active \cup {t})
    ELSE IF r.objs[t].cat = "Compound" THEN ResizeCompound(r, t, active \cup {t})
    ELSE [r EXCEPT !.changed = FALSE]

\* resize(new_sizes)
ResizeAll(objects, m, new_sizes) ==
    LET given == {m[n].type : n \in DOMAIN new_sizes}
        NewSize(t) == new_sizes[CHOOSE n \in DOMAIN new_sizes : m[n].type = t]
        start == [objs |-> [o \in DOMAIN objects |->
                      IF o \in given THEN [objects[o] EXCEPT !.size = NewSize(o)] ELSE objects[o]],
                  sizes |-> [n \in {objects[t].name : t \in given} |-> objects[m[n].type].size],
                  changed |-> FALSE, shift |-> 0, endless |-> FALSE]
    IN  FoldLeft(LAMBDA r, n : IF r.endless THEN r ELSE ResizeType(r, m[n].type, {}),
                 start, OwnNames(objects, m))

-----------------------------------------------------------------------------
(* The calls *)

Init ==
    /\ \E l \in Libraries : objs = l.objs /\ lib = l.lib
    /\ main = <<>> /\ result = <<>>
    /\ calls = 0 /\ failed = FALSE /\ endless = FALSE /\ last = <<"none">>

CanCall == calls < MaxCalls /\ ~failed /\ ~endless

MergeLibrary(l) ==
    /\ CanCall
    /\ LET st == MergeAll(objs, main, lib[l], Generation[calls + 1]) IN
        objs' = st.objs /\ main' = st.m /\ failed' = ~st.ok
    /\ calls' = calls + 1 /\ last' = <<"merge", l>>
    /\ UNCHANGED <<lib, result, endless>>

\* The result is dropped when an exception leaves the call.
Minimal(n, with_aliases) ==
    /\ CanCall /\ n \in DOMAIN main
    /\ LET st == MinimalOf(objs, main, n, with_aliases, Generation[calls + 1]) IN
        IF st.ok THEN objs' = st.objs /\ result' = st.m ELSE UNCHANGED <<objs, result>>
    /\ calls' = calls + 1 /\ last' = <<"minimal", n, with_aliases>>
    /\ UNCHANGED <<lib, main, failed, endless>>

MinimalAuto(l, keep_auto_aliases) ==
    /\ CanCall /\ main # <<>>
    /\ LET st == MinimalWithout(objs, main, lib[l], keep_auto_aliases, Generation[calls + 1]) IN
        IF st.ok THEN objs' = st.objs /\ result' = st.m ELSE UNCHANGED <<objs, result>>
    /\ calls' = calls + 1 /\ last' = <<"auto", l>>
    /\ UNCHANGED <<lib, main, failed, endless>>

Resize(new_sizes) ==
    /\ CanCall /\ DOMAIN new_sizes \subseteq DOMAIN main
    /\ LET r == ResizeAll(objs, main, new_sizes) IN
        objs' = r.objs /\ endless' = r.endless
    /\ calls' = calls + 1 /\ last' = <<"resize", new_sizes>>
    /\ UNCHANGED <<lib, main, result, failed>>

Next ==
    \/ \E l \in DOMAIN lib : MergeLibrary(l)
    \/ \E n \in MinName, with_aliases \in BOOLEAN : Minimal(n, with_aliases)
    \/ \E l \in DOMAIN lib, keep \in BOOLEAN : MinimalAuto(l, keep)
    \/ \E s \in NewSizes : Resize(s)

Spec == Init /\ [][Next]_vars
-----------------------------------------------------------------------------
(* Properties *)

Objects(m) == {m[n].type : n \in DOMAIN m}

\* Every entry of a registry denotes a type that has not been deleted; the
\* entry of an alias and the entry of the name of its type agree.
TypeOK ==
    /\ calls \in 0..MaxCalls /\ failed \in BOOLEAN /\ endless \in BOOLEAN
    /\ \A m \in {lib[l] : l \in DOMAIN lib} \cup {main, result} : \A n \in DOMAIN m :
        /\ m[n].type \in DOMAIN objs
        /\ m[n].source \in Source \cup {NoSource}
        /\ objs[m[n].type].name \in DOMAIN m
        /\ m[objs[m[n].type].name].type = m[n].type

\* "Any complex type in a Registry object can only reference types in the
\* same registry" (registry.hh), as long as no call has thrown.
RegistryClosed ==
    ~failed => \A m \in {main, result} : \A t \in Objects(m) : dependsOn(objs, t) \subseteq Objects(m)

\* What a pair of types has to agree on, the types it refers to left aside.
Alike(a, b, equality) ==
    /\ a.cat = b.cat
    /\ (a.cat # "Compound" \/ equality) => a.size = b.size
    /\ a.cat = "Opaque" => a.name = b.name
    /\ a.cat \in {"Numeric", "Array", "Container"} => a.data = b.data
    /\ a.cat = "Enum" => IF equality THEN a.data = b.data ELSE a.data \subseteq b.data
    /\ Len(a.refs) = Len(b.refs)
    /\ \A i \in DOMAIN a.refs : a.refs[i].field = b.refs[i].field /\ a.refs[i].offset = b.refs[i].offset

RECURSIVE Bisimulation(_)

\* The pairs of R whose references are pairs of R, again and again.
Bisimulation(R) ==
    LET kept == {p \in R : \A i \in DOMAIN objs[p[1]].refs :
                    \/ objs[p[1]].refs[i].type = objs[p[2]].refs[i].type
                    \/ <<objs[p[1]].refs[i].type, objs[p[2]].refs[i].type>> \in R}
    IN  IF kept = R THEN R ELSE Bisimulation(kept)

Equivalent(from, to, equality) ==
    Bisimulation({p \in from \X to : Alike(objs[p[1]], objs[p[2]], equality)})

\* isSame() answers true only for two types that agree, field after field, on
\* everything that can be reached from them, however the types refer back to
\* each other; canCastTo() only for types that agree on it up to padding and
\* added enumeration symbols.
CompareSound ==
    \A equality \in BOOLEAN :
        LET left == Objects(lib["A"]) \cup (IF failed THEN {} ELSE Objects(main))
            same == Equivalent(left, Objects(lib["B"]), equality)
        IN  \A a \in left, b \in Objects(lib["B"]) :
                Compare(objs, a, b, equality) => <<a, b>> \in same

\* After merge() the registry holds under every name of the merged registry
\* a type "equivalent to this one" (typemodel.hh), with its metadata.
MergeFaithful ==
    last[1] = "merge" /\ ~failed =>
        LET other == lib[last[2]]
            same == Equivalent(Objects(main), Objects(other), TRUE)
        IN  \A n \in DOMAIN other :
                /\ n \in DOMAIN main
                /\ <<main[n].type, other[n].type>> \in same
                /\ objs[other[n].type].meta \subseteq objs[main[n].type].meta

\* merge() leaves every name bound to the type it was bound to, and every type
\* as it was but for its metadata, also when it throws.
MergeConserves ==
    \A n \in DOMAIN main :
        /\ n \in DOMAIN main'
        /\ main'[n].type = main[n].type
        /\ [objs'[main[n].type] EXCEPT !.meta = {}] = [objs[main[n].type] EXCEPT !.meta = {}]

\* merge() adds what it lacks to a registry, changes nothing of what was there, and
\* shares no type with the registry that it merges, whatever refers to whatever.
MergeExact ==
    [][/\ TypeOK' /\ RegistryClosed'
       /\ last'[1] = "merge" => MergeFaithful' /\ MergeConserves]_vars

RECURSIVE Closure(_)

\* The types that some types depend on, themselves included.
Closure(T) ==
    LET more == T \cup UNION {dependsOn(objs, t) : t \in T}
    IN  IF more = T THEN T ELSE Closure(more)

\* minimal() returns the types that the requested ones depend on, each with
\* the definition it has in the registry, and no other; and all the aliases
\* of these types if the caller asked for them.
MinimalExact ==
    last[1] \in {"minimal", "auto"} =>
        LET roots == IF last[1] = "minimal" THEN {main[last[2]].type}
                     ELSE {main[n].type : n \in {k \in DOMAIN main :
                              ~IsAlias(objs, main, k) /\ ~Has(lib[last[2]], k, TRUE)}}
            needed == Closure(roots)
            same == Equivalent(Objects(main), Objects(result), TRUE)
        IN  /\ {n \in DOMAIN result : ~IsAlias(objs, result, n)} = {objs[t].name : t \in needed}
            /\ \A n \in DOMAIN result : n \in DOMAIN main /\ <<main[n].type, result[n].type>> \in same
            /\ last[1] = "minimal" =>
                {n \in DOMAIN result : IsAlias(objs, result, n)} =
                    {n \in DOMAIN main : last[3] /\ IsAlias(objs, main, n) /\ main[n].type \in needed}

\* The bytes between the end of one field and the start of the next one, and
\* after the last one.
Gaps(objects, t) ==
    LET refs == objects[t].refs
        End(i) == IF i = 0 THEN 0 ELSE refs[i].offset + objects[refs[i].type].size
    IN  [i \in 1..(Len(refs) + 1) |->
            (IF i > Len(refs) THEN objects[t].size ELSE refs[i].offset) - End(i - 1)]

\* "Modifies the size of a subset of the types, and propagate this size change
\* to the other types" (registry.hh): every compound that is not itself in
\* the call keeps the padding between its fields and after them, whatever the
\* depth of the types that were resized, and every array has room for exactly
\* its elements.  This is not said of a registry with a structure that refers to
\* itself and is not in the call, for which resize() does not return
\* (ResizeReturns), nor of changes of several sizes that cancel each other.
ResizePropagates ==
    [][last'[1] = "resize" /\ ~endless' => \A t \in Objects(main) :
            t \in {main[n].type : n \in DOMAIN last'[2]} \/
                /\ objs[t].cat = "Compound" => Gaps(objs', t) = Gaps(objs, t)
                /\ objs[t].cat = "Array" => objs'[t].size = objs[t].data * objs'[Target(objs, t)].size
       ]_vars

\* The same comment: resize() propagates the change in any registry, also in one
\* with a structure that refers to itself.
ResizeReturns == ~endless
=============================================================================
