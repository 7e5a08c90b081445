------------------------------ MODULE RubyMemory ------------------------------
(***************************************************************************)
(* Memory of the values that the Ruby bindings hand out                    *)
(* (bindings/ruby/ext/memory.cc, value.cc, specialized_types.cc and        *)
(* lib/typelib/*.rb).                                                      *)
(*                                                                         *)
(* A value object refers to a memory zone object, and a table maps the     *)
(* address of a zone to the zone and to a reference count.  A field or an  *)
(* element is a value of its own, at an address inside the memory of the   *)
(* toplevel value (root): its zone counts as a reference on the root.  The *)
(* first field has the address, and therefore the zone, of its structure.  *)
(* Ruby collects objects that nothing refers to at any time, also between  *)
(* two zones that a container invalidates; at exit it finalizes all of     *)
(* them in any order.                                                      *)
(*                                                                         *)
(* There is at most one zone for an address, and a zone is called by it.   *)
(* A value and the children that it caches refer to each other, so that a  *)
(* toplevel value and what was read from it are collected together.  The   *)
(* elements that delete_if yields have their container as parent, but it   *)
(* does not cache them: they are never invalidated.                        *)
(*                                                                         *)
(* memory_unref() calls itself for the root of a zone that goes, and       *)
(* deregisters the zone when that call has returned.  unref is the call    *)
(* that is to be made, and the calls that have not returned are those of   *)
(* the entries that have no reference any more.                            *)
(*                                                                         *)
(* The types are a structure "P" of two numeric fields, a vector "V" of    *)
(* such structures, and pointers "*".  The heap is a range of cells, a     *)
(* numeric value, a pointer and a vector object take one of them each.     *)
(***************************************************************************)
EXTENDS Naturals, FiniteSets

CONSTANTS
    MaxAddr,     \* bound: the number of cells of the heap
    MaxValues,   \* bound: the number of values that the program has at a time
    MaxZones,    \* bound: the number of zones, to allocate one or to read a field of a kept value
    MaxLength,   \* bound: the number of elements of a vector
    LowestFit    \* the allocator takes the lowest free cells, or any

ASSUME MemoryAssumption ==
    MaxAddr \in Nat /\ MaxValues \in Nat /\ MaxZones \in Nat /\ MaxLength \in Nat

VARIABLES
    heap,        \* address of a block -> its number of cells
    vec,         \* address of a vector -> its buffer, length and capacity
    refcount,    \* MemoryTable: address -> number of references
    root_ptr,    \* MemoryTable: address -> address of the root, or NULL
    owned,       \* MemoryTable: the addresses of entries that own their memory
    zones,       \* the zones that are neither finalized nor invalidated
    types,       \* memory_types: address -> type
    layouts,     \* memory_layouts: type -> number of references
    unref,       \* the call of memory_unref() for a root that is to be made, or NULL
    parent,      \* <<type, address>> of a value that is valid -> its parent, or NoValue
    target,      \* the same values -> the value that a pointer keeps, or NoValue
    kept,        \* the values yielded by delete_if, and read from these, that are in use
    invalid,     \* the zones that a container has still to invalidate
    wrapped,     \* the Ruby object of the registry exists
    removed,     \* the types that were removed from the registry
    exiting,     \* Ruby is exiting
    errors,      \* what went wrong
    stale        \* history: the blocks allocated at the address of an entry

tables == <<refcount, root_ptr, owned, zones>>
kinds == <<types, layouts>>
blocks == <<heap, vec>>
values == <<parent, target>>
program == <<wrapped, removed, exiting>>
vars == <<tables, kinds, blocks, values, program, kept, unref, invalid, errors, stale>>

NULL == 0
NoValue == <<"none", NULL>>
Address == 1..MaxAddr
Size(t) == IF t = "P" THEN 2 ELSE 1

Put(f, k, e) == [x \in DOMAIN f \cup {k} |-> IF x = k THEN e ELSE f[x]]
Drop(f, S) == [x \in DOMAIN f \ S |-> f[x]]
Error(what, occurs) == IF occurs THEN {what} ELSE {}

-----------------------------------------------------------------------------
(* The allocator *)

Block(b) == b..(b + heap[b] - 1)
Cells == UNION {Block(b) : b \in DOMAIN heap}
Fits(size) == {a \in Address : a + size - 1 <= MaxAddr /\ a..(a + size - 1) \cap Cells = {}}
Available(size) == {a \in Fits(size) : LowestFit => \A b \in Fits(size) : a <= b}

\* The types removed from the registry are deleted with the Ruby object
\* (registry_free), the others with the Registry, which the layouts refer to.
TypeDeleted(t) == ~wrapped /\ (t \in removed \/ DOMAIN layouts = {})

-----------------------------------------------------------------------------
(* memory.cc *)

\* A call of memory_unref() has not returned
Calling == unref # NULL \/ \E a \in DOMAIN refcount : refcount[a] = 0

\* Typelib::destroy() frees the buffer of a vector; the layout of a vector
\* refers to its type.
Destroyed(a) == a \in DOMAIN types /\ types[a] \in DOMAIN layouts /\ types[a] = "V"
Freed(a) == {a} \cup (IF Destroyed(a) THEN {vec[a].buf} \ {NULL} ELSE {})

memory_delete(a) ==
    /\ heap' = Drop(heap, Freed(a))
    /\ vec' = Drop(vec, IF Destroyed(a) THEN {a} ELSE {})
    /\ errors' = errors \cup Error("freed twice", ~(Freed(a) \subseteq DOMAIN heap))
                        \cup Error("type deleted", Destroyed(a) /\ TypeDeleted("V"))

\* The layout of the type of a zone that goes
ReleaseLayout(a) ==
    /\ types' = Drop(types, {a})
    /\ layouts' = IF a \notin DOMAIN types THEN layouts
                  ELSE IF layouts[types[a]] = 1 THEN Drop(layouts, {types[a]})
                  ELSE [layouts EXCEPT ![types[a]] = @ - 1]

\* Mutant: the layout is released before the value is destroyed.
memory_unref_swapped(a) ==
    /\ refcount' = [refcount EXCEPT ![a] = @ - 1]
    /\ IF refcount[a] > 1
       THEN unref' = NULL /\ UNCHANGED <<blocks, kinds, errors>>
       ELSE /\ unref' = root_ptr[a]
            /\ ReleaseLayout(a)
            /\ heap' = IF a \in owned THEN Drop(heap, {a}) ELSE heap
            /\ UNCHANGED <<vec, errors>>

\* memory_unref(), up to the call for the root
memory_unref(a) ==
    /\ IF a \notin DOMAIN refcount
       THEN /\ errors' = errors \cup {"not registered"}
            /\ unref' = NULL
            /\ UNCHANGED <<refcount, blocks>>
       ELSE /\ refcount' = [refcount EXCEPT ![a] = @ - 1]
            /\ unref' = IF refcount[a] > 1 THEN NULL ELSE root_ptr[a]
            /\ IF refcount[a] = 1 /\ a \in owned THEN memory_delete(a)
               ELSE UNCHANGED <<blocks, errors>>
    /\ UNCHANGED kinds

\* The call for the root
UnrefRoot ==
    /\ unref # NULL
    /\ memory_unref(unref)
    /\ UNCHANGED <<root_ptr, owned, zones, values, program, invalid, kept, stale>>

\* The end of memory_unref(a), after the call for the root
Deregister(a) ==
    /\ unref = NULL /\ refcount[a] = 0
    /\ root_ptr[a] \in DOMAIN refcount => refcount[root_ptr[a]] > 0
    /\ refcount' = Drop(refcount, {a})
    /\ root_ptr' = Drop(root_ptr, {a})
    /\ owned' = owned \ {a}
    /\ ReleaseLayout(a)
    /\ UNCHANGED <<zones, blocks, values, program, unref, invalid, errors, kept, stale>>

\* memory_wrap() of the addresses in S, one after the other: a known address
\* has its zone already, whatever the caller says of its ownership.  The table
\* does not keep the zone from being freed.
memory_wrap(S, owns, root) ==
    LET new == S \ DOMAIN refcount IN
    /\ zones' = zones \cup new
    /\ refcount' = [a \in DOMAIN refcount \cup new |->
                        IF a \in new THEN 1
                        ELSE IF a = root THEN refcount[a] + Cardinality(new) ELSE refcount[a]]
    /\ root_ptr' = [a \in DOMAIN refcount \cup new |-> IF a \in new THEN root ELSE root_ptr[a]]
    /\ owned' = IF owns THEN owned \cup new ELSE owned
WrapErrors(S, root) ==
    LET new == S \ DOMAIN refcount
    IN  Error("zone freed", ~(S \subseteq zones \cup new))
        \cup Error("not registered", new # {} /\ root # NULL /\ root \notin DOMAIN refcount)

\* memory_allocate(), at an address that malloc() is free to choose
memory_allocate(a, size) ==
    /\ heap' = Put(heap, a, size)
    /\ stale' = stale \cup ({a} \cap DOMAIN refcount)
    /\ memory_wrap({a}, TRUE, NULL)

\* memory_init(): the layout of the type, counted, and the initial value
memory_init(a, t) ==
    /\ types' = Put(types, a, t)
    /\ layouts' = Put(layouts, t, IF t \in DOMAIN layouts THEN layouts[t] + 1 ELSE 1)
    /\ vec' = IF t = "V" THEN Put(vec, a, [buf |-> NULL, len |-> 0, cap |-> 0]) ELSE vec
InitErrors(a) == Error("already initialized", a \in DOMAIN types)

\* Mutant: an invalidated zone keeps its pointer.
memory_zone_unref_kept(a) == memory_unref(a) /\ UNCHANGED zones

\* memory_zone_unref() of a zone that Ruby frees, and memory_zone_invalidate();
\* the zone that has been invalidated refers to no memory.
memory_zone_unref(a) ==
    /\ zones' = zones \ {a}
    /\ IF a \in zones THEN memory_unref(a)
       ELSE UNCHANGED <<refcount, unref, blocks, kinds, errors>>

-----------------------------------------------------------------------------
(* value.cc *)

\* The toplevel value, of which v is at most a field of an element
value_root(v) ==
    IF parent[v] = NoValue THEN v
    ELSE IF parent[parent[v]] = NoValue THEN parent[v] ELSE parent[parent[v]]

\* value_root_ptr()
value_root_ptr(v) == value_root(v)[2]

\* cxx2rb::value_wrap() for a child of v, which is then cached
value_wrap(v, child) ==
    IF child \in DOMAIN parent THEN UNCHANGED <<tables, values, errors>>
    ELSE /\ memory_wrap({child[2]}, FALSE, value_root_ptr(v))
         /\ errors' = errors \cup WrapErrors({child[2]}, value_root_ptr(v))
         /\ parent' = Put(parent, child, v)
         /\ target' = Put(target, child, NoValue)

Children(v) == {c \in DOMAIN parent : parent[c] = v}

\* invalidate_children() for the children in cs: Type#invalidate makes them and
\* their own children invalid, then each of their zones.
InvalidateChildren(cs) ==
    LET gone == {w \in DOMAIN parent : w \in cs \/ parent[w] \in cs} IN
    /\ parent' = Drop(parent, gone)
    /\ target' = Drop(target, gone)
    /\ invalid' = {w[2] : w \in gone}

\* A value that has its container as parent and that the container does not
\* cache; zoned tells that its zone has not been invalidated.
Kept(container, value) == [container |-> container, value |-> value, zoned |-> TRUE]

-----------------------------------------------------------------------------
(* Containers *)

ElementAddress(x, i) == x.buf + 2 * (i - 1)
Elements(x, n) == {<<"P", ElementAddress(x, i)>> : i \in 1..n}

contained_memory_id(x) == IF x.len = 0 THEN NULL ELSE x.buf

\* Mutant: only the elements that are past the end are invalidated.
handle_container_invalidation_short(v, after) == Children(v) \ Elements(vec[v[2]], after.len)

\* The children that handle_container_invalidation invalidates when v becomes
\* the vector after
handle_container_invalidation(v, after) ==
    LET id == contained_memory_id(vec[v[2]])
    IN  IF id # NULL /\ id # contained_memory_id(after)
        THEN Children(v) ELSE Children(v) \ Elements(after, after.len)

-----------------------------------------------------------------------------
(* The operations of a program *)

Init ==
    /\ heap = [a \in {} |-> 0] /\ vec = [a \in {} |-> 0]
    /\ refcount = [a \in {} |-> 0] /\ root_ptr = [a \in {} |-> 0] /\ owned = {} /\ zones = {}
    /\ types = [a \in {} |-> 0] /\ layouts = [t \in {} |-> 0]
    /\ parent = [v \in {} |-> 0] /\ target = [v \in {} |-> 0]
    /\ kept = {} /\ unref = NULL /\ invalid = {}
    /\ wrapped = TRUE /\ removed = {} /\ exiting = FALSE
    /\ errors = {} /\ stale = {}

Running == ~exiting /\ ~Calling /\ invalid = {}
Usable(v, t) == Running /\ v \in DOMAIN parent /\ v[1] = t
RoomFor(n) == Cardinality(DOMAIN parent) + Cardinality(kept) + n <= MaxValues
CanAllocate == RoomFor(1) /\ Cardinality(zones) < MaxZones

\* value_new(): memory_init() refuses a type that is not in the registry.
New(t, a) ==
    /\ Running /\ CanAllocate /\ a \in Available(Size(t))
    /\ memory_allocate(a, Size(t))
    /\ IF t \in removed /\ t \notin DOMAIN layouts
       THEN /\ errors' = errors \cup WrapErrors({a}, NULL)
            /\ UNCHANGED <<kinds, vec, values>>
       ELSE /\ memory_init(a, t)
            /\ errors' = errors \cup WrapErrors({a}, NULL) \cup InitErrors(a)
            /\ parent' = Put(parent, <<t, a>>, NoValue)
            /\ target' = Put(target, <<t, a>>, NoValue)
    /\ UNCHANGED <<program, kept, unref, invalid>>

\* Type#to_ptr: a pointer value that refers to the toplevel value it points into
PointInto(root, a) ==
    /\ CanAllocate /\ a \in Available(1)
    /\ memory_allocate(a, 1)
    /\ errors' = errors \cup WrapErrors({a}, NULL)
    /\ parent' = Put(parent, <<"*", a>>, NoValue)
    /\ target' = Put(target, <<"*", a>>, root)
    /\ UNCHANGED <<vec, kinds, program, kept, unref, invalid>>

ToPtr(v, a) == Usable(v, "P") /\ PointInto(value_root(v), a)

\* CompoundType#raw_get, with compound_field_get()
GetField(v, i) ==
    /\ Usable(v, "P") /\ RoomFor(1)
    /\ value_wrap(v, <<"N", v[2] + i>>)
    /\ UNCHANGED <<blocks, kinds, program, unref, invalid, kept, stale>>

\* RandomAccessContainer#raw_get, with container_do_get()
GetElement(v, i) ==
    /\ Usable(v, "V") /\ RoomFor(1) /\ i <= vec[v[2]].len
    /\ value_wrap(v, <<"P", ElementAddress(vec[v[2]], i)>>)
    /\ UNCHANGED <<blocks, kinds, program, unref, invalid, kept, stale>>

\* The vector v is changed; handle_container_invalidation follows.
Changed(v, after) ==
    /\ vec' = [vec EXCEPT ![v[2]] = after]
    /\ InvalidateChildren(handle_container_invalidation(v, after))

\* ContainerType#push, with container_do_push()
Push(v) ==
    LET x == vec[v[2]] IN
    /\ Usable(v, "V")
    /\ x.len < MaxLength /\ x.len < x.cap
    /\ Changed(v, [x EXCEPT !.len = @ + 1])
    /\ UNCHANGED <<heap, tables, kinds, program, unref, errors, kept, stale>>

\* The same: a buffer that is full is replaced by one at address a.
PushGrow(v, a) ==
    LET x == vec[v[2]] IN
    /\ Usable(v, "V")
    /\ x.len < MaxLength /\ x.len = x.cap /\ a \in Available(2 * (x.len + 1))
    /\ heap' = Drop(Put(heap, a, 2 * (x.len + 1)), {x.buf})
    /\ errors' = errors \cup Error("freed twice", x.buf \notin DOMAIN heap \cup {NULL})
    /\ Changed(v, [buf |-> a, len |-> x.len + 1, cap |-> x.len + 1])
    /\ UNCHANGED <<tables, kinds, program, unref, kept, stale>>

\* ContainerType#erase, with container_erase() of an element that is found
Erase(v) ==
    LET x == vec[v[2]] IN
    /\ Usable(v, "V") /\ x.len > 0
    /\ Changed(v, [x EXCEPT !.len = @ - 1])
    /\ UNCHANGED <<heap, tables, kinds, program, unref, errors, kept, stale>>

\* ContainerType#delete_if, with container_delete_if(): n elements are wrapped
\* for the block and k are left.  The wrappers are not cached, and the program
\* may keep those of the elements in S.
DeleteIf(v, n, k, S) ==
    LET x == vec[v[2]]
        yielded == {ElementAddress(x, i) : i \in 1..n}
    IN
    /\ Usable(v, "V")
    /\ x.len > 0 /\ n \in 1..x.len /\ k <= n
    /\ IF k = x.len THEN n = k ELSE n \in {k, k + 1}
    /\ S \subseteq 1..n /\ RoomFor(Cardinality(S))
    /\ memory_wrap(yielded, FALSE, value_root_ptr(v))
    /\ errors' = errors \cup WrapErrors(yielded, value_root_ptr(v))
    /\ kept' = kept \cup {Kept(v, <<"P", ElementAddress(x, i)>>) : i \in S}
    /\ Changed(v, [x EXCEPT !.len = k])
    /\ UNCHANGED <<heap, kinds, program, unref, stale>>

\* The program uses a value that it kept, which is still in the buffer of its
\* container (the use of any other is undefined).
UsableKept(k) ==
    /\ Usable(k.container, "V")
    /\ k.value \in Elements(vec[k.container[2]], vec[k.container[2]].cap)

\* CompoundType#raw_get of a field that such a value has not cached yet
KeptField(k, i) ==
    LET a == k.value[2] + i
        root == value_root_ptr(k.container)
    IN
    /\ UsableKept(k) /\ RoomFor(1) /\ Cardinality(zones) <= MaxZones
    /\ \A l \in kept : l.container = k.container => l.value # <<"N", a>>
    /\ memory_wrap({a}, FALSE, root)
    /\ errors' = errors \cup WrapErrors({a}, root)
    /\ kept' = kept \cup {Kept(k.container, <<"N", a>>)}
    /\ UNCHANGED <<blocks, kinds, values, program, unref, invalid, stale>>

\* Type#to_ptr of such a value
KeptToPtr(k, a) == UsableKept(k) /\ PointInto(value_root(k.container), a)

\* ContainerType#clear, with container_clear()
Clear(v) ==
    /\ Usable(v, "V") /\ vec[v[2]].len > 0
    /\ vec' = [vec EXCEPT ![v[2]].len = 0]
    /\ InvalidateChildren(Children(v))
    /\ UNCHANGED <<heap, tables, kinds, program, unref, errors, kept, stale>>

\* MemoryZone#invalidate, for a zone of the children that are invalidated
InvalidateZone(a) ==
    /\ ~Calling
    /\ memory_zone_unref(a)
    /\ invalid' = invalid \ {a}
    /\ kept' = {[k EXCEPT !.zoned = @ /\ k.value[2] # a] : k \in kept}
    /\ UNCHANGED <<root_ptr, owned, values, program, stale>>

\* Registry#remove, with registry_remove(): the Ruby object of the registry
\* takes the types over.
RemoveType(t) ==
    /\ Running /\ t \notin removed
    /\ removed' = removed \cup {t}
    /\ UNCHANGED <<tables, kinds, blocks, values, wrapped, exiting, unref, invalid, errors, kept, stale>>

-----------------------------------------------------------------------------
(* The garbage collector *)

\* The program refers no more to v nor to what was read from it.
Forget(v) ==
    LET gone == {w \in DOMAIN parent : value_root(w) = v} IN
    /\ Running /\ parent[v] = NoValue
    /\ \A w \in DOMAIN target : target[w] # v
    /\ parent' = Drop(parent, gone) /\ target' = Drop(target, gone)
    /\ kept' = {k \in kept : k.container # v}
    /\ UNCHANGED <<tables, kinds, blocks, program, unref, invalid, errors, stale>>

\* Nor to the value k, yielded by delete_if, and to its fields
ForgetKept(k) ==
    /\ Running /\ k.value[1] = "P"
    /\ kept' = {l \in kept : l.container # k.container \/ l.value[2] \notin {k.value[2], k.value[2] + 1}}
    /\ UNCHANGED <<tables, kinds, blocks, values, program, unref, invalid, errors, stale>>

\* A zone that no value refers to is freed at any time, or never.
CollectZone(a) ==
    /\ ~Calling /\ a \notin invalid
    /\ \A v \in DOMAIN parent : v[2] # a
    /\ \A k \in kept : k.zoned => k.value[2] # a
    /\ memory_zone_unref(a)
    /\ UNCHANGED <<root_ptr, owned, values, program, invalid, kept, stale>>

Exit ==
    /\ Running
    /\ exiting' = TRUE
    /\ parent' = [v \in {} |-> 0] /\ target' = [v \in {} |-> 0] /\ kept' = {}
    /\ UNCHANGED <<tables, kinds, blocks, wrapped, removed, unref, invalid, errors, stale>>

\* registry_free()
FreeRegistry ==
    /\ exiting /\ ~Calling /\ wrapped
    /\ wrapped' = FALSE
    /\ UNCHANGED <<tables, kinds, blocks, values, removed, exiting, unref, invalid, errors, kept, stale>>

Operation ==
    \/ \E t \in {"P", "V"}, a \in Address : New(t, a)
    \/ \E v \in DOMAIN parent, a \in Address : ToPtr(v, a) \/ PushGrow(v, a)
    \/ \E v \in DOMAIN parent, i \in 0..1 : GetField(v, i)
    \/ \E v \in DOMAIN parent, i \in 1..MaxLength : GetElement(v, i)
    \/ \E v \in DOMAIN parent : Push(v) \/ Erase(v) \/ Clear(v)
    \/ \E v \in DOMAIN parent, n \in 1..MaxLength, k \in 0..MaxLength, S \in SUBSET (1..MaxLength) :
        DeleteIf(v, n, k, S)
    \/ \E k \in kept, i \in 0..1 : KeptField(k, i)
    \/ \E k \in kept, a \in Address : KeptToPtr(k, a)
    \/ \E t \in {"V"} : RemoveType(t)

Next ==
    \/ Operation
    \/ UnrefRoot
    \/ \E a \in DOMAIN refcount : Deregister(a)
    \/ \E a \in invalid : InvalidateZone(a)
    \/ \E v \in DOMAIN parent : Forget(v)
    \/ \E k \in kept : ForgetKept(k)
    \/ \E a \in zones : CollectZone(a)
    \/ Exit
    \/ FreeRegistry

Spec == Init /\ [][Next]_vars

-----------------------------------------------------------------------------
(* Properties *)

\* What the tables of memory.cc hold.
TypeOK ==
    /\ \A a \in DOMAIN heap : a \in Address /\ heap[a] \in Nat \ {0}
    /\ \A a \in DOMAIN refcount :
        a \in Address /\ refcount[a] \in Nat /\ root_ptr[a] \in Address \cup {NULL}
    /\ owned \subseteq DOMAIN refcount
    /\ DOMAIN vec \subseteq Address /\ DOMAIN types \subseteq Address
    /\ \A v \in DOMAIN parent : v[2] \in Address

\* memory_unref() and memory_aset() always find the entry they look for, no
\* block is freed twice, memory_wrap() returns no zone that Ruby has freed and
\* memory_init() gets no zone that has a type, whatever the order in which zones
\* are invalidated by containers and finalized by Ruby: a zone that is not
\* registered has been invalidated.
NoMemoryError ==
    /\ errors \subseteq {"type deleted"}
    /\ zones \subseteq DOMAIN refcount

\* The reference count of an entry is the number of the zones at its address
\* (its own, if it has not been finalized or invalidated), of the entries with
\* references that have it as root and of the calls that drop one of these.
RefcountExact ==
    \A a \in DOMAIN refcount : refcount[a] =
        Cardinality(zones \cap {a}) + Cardinality({unref} \cap {a})
        + Cardinality({b \in DOMAIN refcount : root_ptr[b] = a /\ refcount[b] > 0})

\* memory_layouts counts the zones that were initialized with each type, and
\* only registered addresses have a type.
LayoutsCounted ==
    /\ DOMAIN types \subseteq DOMAIN refcount
    /\ DOMAIN layouts = {types[a] : a \in DOMAIN types}
    /\ \A t \in DOMAIN layouts : layouts[t] = Cardinality({a \in DOMAIN types : types[a] = t})

\* The tables of memory.cc always tell which memory is in use and by whom: no call
\* fails to find its entry, no memory is freed twice, and the counts of references
\* and of layouts are exact.
TablesConsistent == TypeOK /\ NoMemoryError /\ RefcountExact /\ LayoutsCounted

\* A value that has not been invalidated can be used: its zone exists, and its
\* cells are in memory that has not been freed, though the containers above
\* it were changed and the program only kept a field of an element.  This is not
\* said of the elements that delete_if yielded and the program kept: nothing
\* invalidates them (KeptUsable).
ValuesUsable ==
    \A v \in DOMAIN parent :
        /\ v[2] \in zones
        /\ v[2]..(v[2] + Size(v[1]) - 1) \subseteq Cells

\* Blocks that are owned by no zone: those that memory_allocate() got at an
\* address of which a stale zone existed, and the buffers of such vectors.
Lost == stale \cup {vec[a].buf : a \in stale \cap DOMAIN vec}

\* When Ruby has finalized everything, in any order, all the memory has been
\* freed, buffers of vectors included, and every table is empty.
ExitFrees ==
    exiting /\ ~Calling /\ zones = {} =>
        DOMAIN heap \subseteq Lost /\ DOMAIN refcount = {} /\ DOMAIN layouts = {}

\* "Allocates a new Typelib object that has a freshly initialized buffer
\* inside" (value.cc): the zone of a toplevel value owns its memory.
NewOwned == \A v \in DOMAIN parent : parent[v] = NoValue => v[2] \in owned

\* "This is used in the framework when the underlying memory zone has been made
\* invalid by some operation (as e.g. container resizing)" (container_type.rb, of
\* invalidate): an element that delete_if yielded and that has not been
\* invalidated can be used as well.
KeptUsable == \A k \in kept : k.value[2]..(k.value[2] + Size(k.value[1]) - 1) \subseteq Cells

\* "We cannot simply use the Type object as, at exit, the Ruby GC do not order
\* finalization and therefore the registry can be deleted before the Type
\* instances" (memory.cc): no value is destroyed after its type.
TypeOutlivesValues == "type deleted" \notin errors
=============================================================================
