--------------------------- MODULE RubyMemoryProofs ---------------------------
(***************************************************************************)
(* The tables of memory.cc are consistent, values that were not            *)
(* invalidated can be used, and exit frees everything: for every number    *)
(* of cells, of values and of elements, and every choice of the allocator. *)
(* This module has the steps that allocate or release memory, and the      *)
(* theorems.                                                               *)
(***************************************************************************)
EXTENDS RubyValueProofs

-----------------------------------------------------------------------------
(* Toplevel values that are made *)

\* memory_allocate() registers a block under an address that has neither a
\* value nor a type, though a stale entry may have that address.
LEMMA Allocated ==
    ASSUME MemoryInv, ~Calling, NEW size \in Nat \ {0}, NEW a \in Available(size),
           memory_allocate(a, size), unref' = unref
    PROVE  /\ RefInv' /\ WrapErrors({a}, NULL) = {}
           /\ Owners' = Owners \cup ({a} \ DOMAIN refcount) /\ Objects' = Objects \cup {a}
           /\ stale' \cap owned' = {}
           /\ a \in Address /\ a \notin DOMAIN heap /\ a \notin DOMAIN types /\ a \notin DOMAIN vec
           /\ zones \subseteq zones' /\ a \in zones'
           /\ DOMAIN refcount \subseteq DOMAIN refcount' /\ a \in DOMAIN refcount'
           /\ \A b \in DOMAIN refcount : refcount[b] > 0
           /\ \A b \in DOMAIN refcount' : root_ptr'[b] \in Objects \cup {NULL}
<1>1. /\ stale' = stale \cup ({a} \cap DOMAIN refcount) /\ memory_wrap({a}, TRUE, NULL)
    BY Zenon DEF memory_allocate
<1>2. RefInv /\ BlockInv /\ VecInv /\ KindInv /\ LayoutsCounted
    BY Zenon DEF MemoryInv
<1>3. a \in Address /\ a \notin DOMAIN heap
    BY <1>2, FreshBlock, Zenon
<1>4. a \notin Objects
    BY <1>2, <1>3, Zenon DEF BlockInv
<1>5. unref = NULL /\ Owners = owned /\ \A b \in DOMAIN refcount : refcount[b] \in Nat /\ refcount[b] > 0
    BY <1>2, NoCall, Zenon
<1>6. NULL \in DOMAIN refcount \cup {NULL} /\ {a} \subseteq Address
    BY <1>3, Zenon
<1>7. \A b \in {a} : b \in Objects => b \in zones
    BY <1>4, Zenon
<1>8. WrapErrors({a}, NULL) = {} /\ {a} \subseteq zones \cup ({a} \ DOMAIN refcount)
    BY <1>2, <1>6, <1>7, WrapNoError, Zenon
<1>9. RefInv'
    BY <1>1, <1>2, <1>6, WrapRef, Zenon
<1>10. /\ owned' = owned \cup ({a} \ DOMAIN refcount) /\ zones' = zones \cup ({a} \ DOMAIN refcount)
       /\ DOMAIN refcount' = DOMAIN refcount \cup {a}
       /\ \A b \in DOMAIN refcount : b # NULL => refcount'[b] = refcount[b]
       /\ \A b \in {a} \ DOMAIN refcount : refcount'[b] = 1 /\ root_ptr'[b] = NULL
       /\ \A b \in DOMAIN refcount : root_ptr'[b] = root_ptr[b]
    BY <1>1, Zenon DEF memory_wrap
<1>11. \A b \in DOMAIN refcount : b # NULL
    BY <1>2, NullAddress, Zenon DEF RefInv, TableInv
<1>12. \A b \in DOMAIN refcount' : refcount'[b] > 0
    BY <1>5, <1>10, <1>11
<1>13. Owners' = owned'
    BY <1>9, <1>12, Zenon DEF Owners, RefInv, TableInv
<1>14. Objects' = Objects \cup {a}
    BY <1>1, <1>5, <1>10, <1>13, Zenon DEF Objects
<1>15. a \notin DOMAIN types /\ a \notin DOMAIN vec
    BY <1>2, <1>4, <1>5, Zenon DEF KindInv, VecInv, LayoutsCounted
<1>16. stale' \cap owned' = {}
    <2>1. a \notin owned /\ a \notin stale /\ stale \cap owned = {}
        BY <1>2, <1>4, <1>5, Zenon DEF BlockInv, Objects
    <2> QED
        BY <1>1, <1>10, <2>1, Zenon
<1>17. \A b \in DOMAIN refcount' : root_ptr'[b] \in Objects \cup {NULL}
    BY <1>2, <1>5, <1>10, Zenon DEF BlockInv
<1> QED
    BY <1>3, <1>5, <1>8, <1>9, <1>10, <1>13, <1>14, <1>15, <1>16, <1>17, ZenonT(60)

\* The blocks after an allocation; the new object may be an empty vector
LEMMA AllocatedStore ==
    ASSUME MemoryInv, NEW size \in Nat \ {0}, NEW a \in Available(size), heap' = Put(heap, a, size),
           a \notin DOMAIN vec, Objects' = Objects \cup {a}, stale' \cap owned' = {},
           \A b \in DOMAIN refcount' : root_ptr'[b] \in Objects \cup {NULL},
           vec' = vec \/ vec' = Put(vec, a, [buf |-> NULL, len |-> 0, cap |-> 0])
    PROVE  /\ BlockInv' /\ VecInv' /\ DOMAIN vec \subseteq DOMAIN vec' /\ DOMAIN vec' \subseteq DOMAIN vec \cup {a}
           /\ heap'[a] = size /\ \A b \in DOMAIN heap : heap'[b] = heap[b]
           /\ \A b \in DOMAIN vec : vec'[b] = vec[b]
<1> DEFINE x == [buf |-> NULL, len |-> 0, cap |-> 0]
<1>1. BlockInv /\ VecInv
    BY Zenon DEF MemoryInv
<1>2. a \in Address /\ a \notin DOMAIN heap
    BY <1>1, FreshBlock, Zenon
<1>3. /\ DOMAIN heap' = DOMAIN heap \cup {a} /\ heap'[a] = size
      /\ \A b \in DOMAIN heap : heap'[b] = heap[b]
    BY <1>2, Zenon DEF Put
<1>4. x \in [buf : Address \cup {NULL}, len : Nat, cap : Nat] /\ x.buf = NULL /\ x.len = 0 /\ x.cap = 0
    BY Zenon
<1> HIDE DEF x
<1>5. /\ DOMAIN vec \subseteq DOMAIN vec' /\ DOMAIN vec' \subseteq DOMAIN vec \cup {a}
      /\ \A b \in DOMAIN vec : vec'[b] = vec[b]
      /\ \A b \in DOMAIN vec' : b \notin DOMAIN vec => b = a /\ vec'[b] = x
    <2>1. CASE vec' = vec
        BY <2>1, Zenon
    <2>2. CASE vec' = Put(vec, a, x)
        BY <2>2 DEF Put
    <2> QED
        BY <2>1, <2>2, Zenon DEF x
<1>6. Buffers' = Buffers
    BY <1>4, <1>5 DEF Buffers
<1>7. BlockInv'
    <2>1. /\ DOMAIN heap' \subseteq DOMAIN heap \cup {a}
          /\ \A b \in DOMAIN heap' : b # a => heap'[b] = heap[b]
        BY <1>3, Zenon
    <2>2. /\ \A b \in DOMAIN heap' :
                b \in Address /\ heap'[b] \in Nat \ {0} /\ b + heap'[b] - 1 <= MaxAddr
          /\ \A b, c \in DOMAIN heap' : b # c => Block(b)' \cap Block(c)' = {}
        BY <1>1, <1>3, <2>1, BlockAdded, Zenon
    <2>3. DOMAIN heap' = Objects' \cup Buffers' /\ Objects' \cap Buffers' = {}
        BY <1>1, <1>2, <1>3, <1>6, Zenon DEF BlockInv
    <2> QED
        BY <2>2, <2>3, Zenon DEF BlockInv
<1>8. VecInv'
    <2>1. ASSUME NEW b \in DOMAIN vec'
          PROVE  /\ vec'[b] \in [buf : Address \cup {NULL}, len : Nat, cap : Nat]
                 /\ vec'[b].len <= vec'[b].cap
                 /\ vec'[b].buf = NULL => vec'[b].cap = 0
                 /\ vec'[b].buf # NULL => heap'[vec'[b].buf] = 2 * vec'[b].cap
        <3>1. CASE b \in DOMAIN vec
            <4>1. vec[b].buf # NULL => heap'[vec[b].buf] = heap[vec[b].buf]
                BY <1>1, <1>3, <3>1, Zenon DEF BlockInv, Buffers
            <4> QED
                BY <1>1, <1>5, <3>1, <4>1, ZenonT(60) DEF VecInv
        <3>2. CASE b \notin DOMAIN vec
            BY <1>4, <1>5, <3>2
        <3> QED
            BY <3>1, <3>2, Zenon
    <2>2. \A b, c \in DOMAIN vec' : vec'[b].buf = vec'[c].buf => b = c \/ vec'[b].buf = NULL
        BY <1>1, <1>4, <1>5 DEF VecInv
    <2>3. DOMAIN vec' \subseteq Objects'
        BY <1>1, <1>5, Zenon DEF VecInv
    <2> QED
        BY <2>1, <2>2, <2>3, Zenon DEF VecInv
<1> QED
    BY <1>3, <1>5, <1>7, <1>8, Zenon

\* The values after an allocation
LEMMA AllocatedValues ==
    ASSUME MemoryInv, NEW a \in Address, NEW vs, Objects' = Objects \cup {a}, invalid' = {},
           DOMAIN vec \subseteq DOMAIN vec', \A b \in DOMAIN vec : vec'[b] = vec[b],
           \A b \in DOMAIN heap : heap'[b] = heap[b], zones \subseteq zones', a \in zones',
           DOMAIN parent' = DOMAIN parent \cup vs, \A w \in DOMAIN parent : parent'[w] = parent[w],
           \A w \in vs : /\ parent'[w] = NoValue /\ w \in {"P", "V", "*"} \X Address /\ w[2] = a
                         /\ heap'[a] = Size(w[1]) /\ (w[1] = "V" => a \in DOMAIN vec')
    PROVE  ValueInv'
<1>1. BlockInv /\ VecInv /\ ValueInv
    BY Zenon DEF MemoryInv
<1>2. ASSUME NEW w \in DOMAIN parent
      PROVE  ValueForm(w)'
    <2>1. ValueForm(w) /\ w \in DOMAIN parent' /\ parent'[w] = parent[w]
        BY <1>1, Zenon DEF ValueInv
    <2>2. parent[w] \in DOMAIN parent =>
              parent[w] \in DOMAIN parent' /\ parent'[parent[w]] = parent[parent[w]]
        BY Zenon
    <2>3. Toplevel(w) =>
              w[2] \in Objects' /\ heap'[w[2]] = heap[w[2]] /\ (w[2] \in DOMAIN vec => w[2] \in DOMAIN vec')
        BY <1>1, Zenon DEF Toplevel, BlockInv
    <2>4. ASSUME Element(w)
          PROVE  \E i \in 1..vec'[parent[w][2]].len : w[2] = ElementAddress(vec'[parent[w][2]], i)
        <3>1. /\ parent[w][2] \in DOMAIN vec
              /\ \E i \in 1..vec[parent[w][2]].len : w[2] = ElementAddress(vec[parent[w][2]], i)
            BY <1>1, <2>4, ElementHome, Zenon
        <3>2. vec'[parent[w][2]] = vec[parent[w][2]]
            BY <3>1, Zenon
        <3> QED
            BY <3>1, <3>2, Zenon
    <2> QED
        BY <2>1, <2>2, <2>3, <2>4, ValueKept, Zenon
<1>3. ASSUME NEW w \in vs
      PROVE  ValueForm(w)'
    BY <1>3, Zenon DEF ValueForm, Toplevel
<1> QED
    BY <1>1, <1>2, <1>3, Zenon DEF ValueInv

\* The cells of a value are allocated
LEMMA ValueCells ==
    ASSUME BlockInv, VecInv, ValueInv, NEW v \in DOMAIN parent
    PROVE  v[2] \in Cells /\ (v[1] = "P" => v[2] + 1 \in Cells)
<1>1. \A p \in DOMAIN parent : Toplevel(p) => p[2] \in Cells /\ (p[1] = "P" => p[2] + 1 \in Cells)
    BY ToplevelCells, BlockAddress, Zenon
<1>2. \A p \in DOMAIN parent : Element(p) => p[2] \in Cells /\ p[2] + 1 \in Cells
    BY ElementHome, BlockAddress, Zenon
<1>3. CASE Field(v)
    <2>1. /\ parent[v] \in DOMAIN parent /\ (Toplevel(parent[v]) \/ Element(parent[v]))
          /\ parent[v][1] = "P" /\ v[2] \in {parent[v][2], parent[v][2] + 1}
        BY <1>3, FieldHome, Zenon
    <2>2. parent[v][2] \in Cells /\ parent[v][2] + 1 \in Cells
        BY <1>1, <1>2, <2>1, Zenon
    <2>3. v[1] # "P"
        BY <1>3, Zenon DEF Field
    <2> QED
        BY <2>1, <2>2, <2>3, Zenon
<1> QED
    BY <1>1, <1>2, <1>3, Zenon DEF ValueInv, ValueForm

\* No value has the address of a block that is being allocated.
LEMMA NewAddress ==
    ASSUME MemoryInv, NEW size \in Nat \ {0}, NEW a \in Available(size)
    PROVE  \A w \in DOMAIN parent : w[2] # a
<1>1. a \in Address /\ a \notin Cells
    <2>1. a \in Address /\ a..(a + size - 1) \cap Cells = {}
        BY Zenon DEF Available, Fits
    <2>2. a \in a..(a + size - 1)
        BY <2>1, AddressNat
    <2> QED
        BY <2>1, <2>2, Zenon
<1> QED
    BY <1>1, ValueCells, Zenon DEF MemoryInv

\* value_new() preserves MemoryInv, also when memory_init() refuses the type.
LEMMA NewStep ==
    ASSUME MemoryInv, NEW t \in {"P", "V"}, NEW a \in Address, New(t, a)
    PROVE  MemoryInv'
<1> DEFINE size == Size(t)
           x == [buf |-> NULL, len |-> 0, cap |-> 0]
<1>1. /\ ~Calling /\ invalid = {} /\ a \in Available(size) /\ memory_allocate(a, size)
      /\ unref' = unref /\ invalid' = invalid
    BY Zenon DEF New, Running
<1>2. size \in Nat \ {0}
    BY DEF Size
<1>3. size = Size(t)
    BY Zenon
<1> HIDE DEF size
<1>4. /\ RefInv' /\ WrapErrors({a}, NULL) = {}
      /\ Owners' = Owners \cup ({a} \ DOMAIN refcount) /\ Objects' = Objects \cup {a}
      /\ stale' \cap owned' = {}
      /\ a \in Address /\ a \notin DOMAIN heap /\ a \notin DOMAIN types /\ a \notin DOMAIN vec
      /\ zones \subseteq zones' /\ a \in zones'
      /\ DOMAIN refcount \subseteq DOMAIN refcount' /\ a \in DOMAIN refcount'
      /\ \A b \in DOMAIN refcount : refcount[b] > 0
      /\ \A b \in DOMAIN refcount' : root_ptr'[b] \in Objects \cup {NULL}
    BY <1>1, <1>2, Allocated, Zenon
<1>5. heap' = Put(heap, a, size)
    BY <1>1, Zenon DEF memory_allocate
<1>6. RefInv /\ KindInv /\ LayoutsCounted /\ errors \subseteq {"type deleted"}
    BY Zenon DEF MemoryInv
<1>7. CASE t \in removed /\ t \notin DOMAIN layouts
    <2>1. errors' = errors \cup WrapErrors({a}, NULL) /\ UNCHANGED <<types, layouts, vec, parent>>
        BY <1>7, Zenon DEF New, kinds, values
    <2>2. /\ BlockInv' /\ VecInv' /\ \A b \in DOMAIN heap : heap'[b] = heap[b]
        BY <1>1, <1>2, <1>4, <1>5, <2>1, AllocatedStore, Zenon
    <2>3. KindInv'
        BY <1>4, <1>6, <2>1, Zenon DEF KindInv, LayoutsCounted
    <2>4. LayoutsCounted'
        BY <1>4, <1>6, <2>1, LayoutsKept, Zenon
    <2>5. ValueInv'
        <3> DEFINE vs == {}
        <3>1. /\ DOMAIN parent' = DOMAIN parent \cup vs /\ invalid' = {}
              /\ \A w \in DOMAIN parent : parent'[w] = parent[w]
              /\ \A w \in vs : /\ parent'[w] = NoValue /\ w \in {"P", "V", "*"} \X Address /\ w[2] = a
                               /\ heap'[a] = Size(w[1]) /\ (w[1] = "V" => a \in DOMAIN vec')
              /\ DOMAIN vec \subseteq DOMAIN vec' /\ \A b \in DOMAIN vec : vec'[b] = vec[b]
            BY <1>1, <2>1, Zenon
        <3> HIDE DEF vs
        <3> QED
            BY <1>4, <2>2, <3>1, AllocatedValues, ZenonT(60)
    <2> QED
        BY <1>4, <1>6, <2>1, <2>2, <2>3, <2>4, <2>5, ZenonT(60) DEF MemoryInv
<1>8. CASE ~(t \in removed /\ t \notin DOMAIN layouts)
    <2>1. /\ types' = Put(types, a, t)
          /\ layouts' = Put(layouts, t, IF t \in DOMAIN layouts THEN layouts[t] + 1 ELSE 1)
          /\ vec' = IF t = "V" THEN Put(vec, a, x) ELSE vec
          /\ errors' = errors \cup WrapErrors({a}, NULL) \cup InitErrors(a)
          /\ parent' = Put(parent, <<t, a>>, NoValue)
        BY <1>8, Zenon DEF New, memory_init
    <2>2. vec' = vec \/ vec' = Put(vec, a, [buf |-> NULL, len |-> 0, cap |-> 0])
        BY <2>1, Zenon
    <2>3. a \in DOMAIN vec' <=> t = "V"
        BY <1>4, <2>1, Zenon DEF Put
    <2> HIDE DEF x
    <2>4. /\ BlockInv' /\ VecInv' /\ DOMAIN vec \subseteq DOMAIN vec' /\ DOMAIN vec' \subseteq DOMAIN vec \cup {a}
          /\ heap'[a] = size /\ \A b \in DOMAIN heap : heap'[b] = heap[b]
          /\ \A b \in DOMAIN vec : vec'[b] = vec[b]
        BY <1>1, <1>2, <1>4, <1>5, <2>2, AllocatedStore, Zenon
    <2>5. /\ DOMAIN types' = DOMAIN types \cup {a} /\ types'[a] = t
          /\ \A b \in DOMAIN types : types'[b] = types[b]
        BY <1>4, <2>1, Zenon DEF Put
    <2>6. KindInv'
        <3>1. \A b \in DOMAIN types' : types'[b] \in {"P", "V"}
            BY <1>6, <2>5, Zenon DEF KindInv
        <3>2. \A b \in DOMAIN types' : refcount'[b] > 0 => b \in Objects'
            BY <1>4, <1>6, <2>5, Zenon DEF KindInv, LayoutsCounted
        <3>3. ASSUME NEW b \in Owners'
              PROVE  b \in DOMAIN vec' <=> b \in DOMAIN types' /\ types'[b] = "V"
            <4>1. CASE b = a
                BY <2>3, <2>5, <4>1, Zenon
            <4>2. CASE b # a
                <5>1. b \in Owners
                    BY <1>4, <3>3, <4>2, Zenon
                <5>2. b \in DOMAIN vec' <=> b \in DOMAIN vec
                    BY <2>4, <4>2, Zenon
                <5> QED
                    BY <1>6, <2>5, <4>2, <5>1, <5>2, Zenon DEF KindInv
            <4> QED
                BY <4>1, <4>2, Zenon
        <3> QED
            BY <3>1, <3>2, <3>3, Zenon DEF KindInv
    <2>7. LayoutsCounted'
        BY <1>4, <1>6, <2>1, LayoutAdded, Zenon
    <2>8. ValueInv'
        <3> DEFINE vs == {<<t, a>>}
        <3>1. vs \cap DOMAIN parent = {}
            BY <1>1, <1>2, NewAddress, Zenon
        <3>2. /\ DOMAIN parent' = DOMAIN parent \cup vs /\ parent'[<<t, a>>] = NoValue /\ invalid' = {}
              /\ \A w \in DOMAIN parent : parent'[w] = parent[w]
            BY <1>1, <2>1, <3>1, Zenon DEF Put
        <3>3. ASSUME NEW w \in vs
              PROVE  /\ parent'[w] = NoValue /\ w \in {"P", "V", "*"} \X Address /\ w[2] = a
                     /\ heap'[a] = Size(w[1]) /\ (w[1] = "V" => a \in DOMAIN vec')
            <4>1. w = <<t, a>> /\ w[1] = t /\ w[2] = a
                BY <3>3
            <4>2. heap'[a] = Size(t) /\ (t = "V" => a \in DOMAIN vec')
                BY <1>3, <1>4, <2>3, <2>4, Zenon
            <4>3. w \in {"P", "V", "*"} \X Address
                BY <4>1, Zenon
            <4> QED
                BY <3>2, <4>1, <4>2, <4>3, Zenon
        <3>4. \A w \in vs : /\ parent'[w] = NoValue /\ w \in {"P", "V", "*"} \X Address /\ w[2] = a
                            /\ heap'[a] = Size(w[1]) /\ (w[1] = "V" => a \in DOMAIN vec')
            BY <3>3, Zenon
        <3> HIDE DEF vs
        <3>5. /\ Objects' = Objects \cup {a} /\ invalid' = {} /\ zones \subseteq zones' /\ a \in zones'
              /\ DOMAIN vec \subseteq DOMAIN vec' /\ \A b \in DOMAIN vec : vec'[b] = vec[b]
              /\ \A b \in DOMAIN heap : heap'[b] = heap[b]
              /\ DOMAIN parent' = DOMAIN parent \cup vs
              /\ \A w \in DOMAIN parent : parent'[w] = parent[w]
            BY <1>4, <2>4, <3>2, Zenon
        <3> QED
            BY <3>4, <3>5, AllocatedValues, ZenonT(60)
    <2>9. errors' = errors
        BY <1>4, <2>1, Zenon DEF InitErrors, Error
    <2> QED
        BY <1>4, <1>6, <2>4, <2>6, <2>7, <2>8, <2>9, Zenon DEF MemoryInv
<1> QED
    BY <1>7, <1>8, Zenon

\* Type#to_ptr preserves MemoryInv.
LEMMA ToPtrStep ==
    ASSUME MemoryInv, ~Calling, invalid = {}, NEW root, NEW a \in Address, PointInto(root, a)
    PROVE  MemoryInv'
<1>1. /\ ~Calling /\ invalid = {} /\ a \in Available(1) /\ memory_allocate(a, 1)
      /\ errors' = errors \cup WrapErrors({a}, NULL)
      /\ parent' = Put(parent, <<"*", a>>, NoValue)
      /\ unref' = unref /\ invalid' = invalid /\ UNCHANGED <<vec, types, layouts>>
    BY Zenon DEF PointInto, kinds
<1>2. 1 \in Nat \ {0}
    BY SMTT(20)
<1>3. /\ RefInv' /\ WrapErrors({a}, NULL) = {}
      /\ Owners' = Owners \cup ({a} \ DOMAIN refcount) /\ Objects' = Objects \cup {a}
      /\ stale' \cap owned' = {}
      /\ a \notin DOMAIN heap /\ a \notin DOMAIN types /\ a \notin DOMAIN vec
      /\ zones \subseteq zones' /\ a \in zones'
      /\ DOMAIN refcount \subseteq DOMAIN refcount'
      /\ \A b \in DOMAIN refcount : refcount[b] > 0
      /\ \A b \in DOMAIN refcount' : root_ptr'[b] \in Objects \cup {NULL}
    BY <1>1, <1>2, Allocated, Zenon
<1>4. heap' = Put(heap, a, 1)
    BY <1>1, Zenon DEF memory_allocate
<1>5. RefInv /\ KindInv /\ LayoutsCounted /\ errors \subseteq {"type deleted"}
    BY Zenon DEF MemoryInv
<1>6. BlockInv' /\ VecInv' /\ heap'[a] = 1 /\ \A b \in DOMAIN heap : heap'[b] = heap[b]
    BY <1>1, <1>2, <1>3, <1>4, AllocatedStore, Zenon
<1>7. KindInv'
    BY <1>1, <1>3, <1>5, Zenon DEF KindInv, LayoutsCounted
<1>8. LayoutsCounted'
    BY <1>1, <1>3, <1>5, LayoutsKept, Zenon
<1>9. ValueInv'
    <2> DEFINE vs == {<<"*", a>>}
    <2>1. vs \cap DOMAIN parent = {}
        BY <1>1, <1>2, NewAddress, Zenon
    <2>2. /\ DOMAIN parent' = DOMAIN parent \cup vs /\ parent'[<<"*", a>>] = NoValue /\ invalid' = {}
          /\ \A w \in DOMAIN parent : parent'[w] = parent[w]
        BY <1>1, <2>1, Zenon DEF Put
    <2>3. \A w \in vs : /\ parent'[w] = NoValue /\ w \in {"P", "V", "*"} \X Address /\ w[2] = a
                        /\ heap'[a] = Size(w[1]) /\ (w[1] = "V" => a \in DOMAIN vec')
        BY <1>6, <2>2 DEF Size
    <2>4. DOMAIN vec \subseteq DOMAIN vec' /\ \A b \in DOMAIN vec : vec'[b] = vec[b]
        BY <1>1, Zenon
    <2> HIDE DEF vs
    <2> QED
        BY <1>3, <1>6, <2>2, <2>3, <2>4, AllocatedValues, ZenonT(60)
<1> QED
    BY <1>1, <1>3, <1>5, <1>6, <1>7, <1>8, <1>9, ZenonT(60) DEF MemoryInv

-----------------------------------------------------------------------------
(* memory_unref() *)

\* What memory_delete() frees is what the entry owns
LEMMA Deleted ==
    ASSUME RefInv, BlockInv, VecInv, KindInv, LayoutsCounted, NEW a \in Owners, memory_delete(a)
    PROVE  LET gone == IF a \in DOMAIN vec THEN {vec[a].buf} \ {NULL} ELSE {}
           IN  /\ DOMAIN heap' = DOMAIN heap \ ({a} \cup gone) /\ \A b \in DOMAIN heap' : heap'[b] = heap[b]
               /\ DOMAIN vec' = DOMAIN vec \ {a} /\ \A b \in DOMAIN vec' : vec'[b] = vec[b]
               /\ Buffers' = Buffers \ gone /\ gone \subseteq Buffers
               /\ errors' \subseteq errors \cup {"type deleted"}
<1> DEFINE gone == IF a \in DOMAIN vec THEN {vec[a].buf} \ {NULL} ELSE {}
<1>1. Destroyed(a) <=> a \in DOMAIN vec
    <2>1. a \in DOMAIN vec <=> a \in DOMAIN types /\ types[a] = "V"
        BY Zenon DEF KindInv
    <2>2. a \in DOMAIN types => types[a] \in DOMAIN layouts
        BY Zenon DEF LayoutsCounted
    <2> QED
        BY <2>1, <2>2, Zenon DEF Destroyed
<1>2. Freed(a) = {a} \cup gone
    BY <1>1, Zenon DEF Freed
<1>3. gone \subseteq Buffers
    BY Zenon DEF Buffers
<1>4. Freed(a) \subseteq DOMAIN heap
    BY <1>2, <1>3, Zenon DEF BlockInv, Objects
<1>5. DOMAIN heap' = DOMAIN heap \ ({a} \cup gone) /\ \A b \in DOMAIN heap' : heap'[b] = heap[b]
    BY <1>2, Zenon DEF memory_delete, Drop
<1>6. DOMAIN vec' = DOMAIN vec \ {a} /\ \A b \in DOMAIN vec' : vec'[b] = vec[b]
    BY <1>1, Zenon DEF memory_delete, Drop
<1>7. errors' \subseteq errors \cup {"type deleted"}
    BY <1>4, Zenon DEF memory_delete, Error
<1>8. Buffers' = Buffers \ gone
    <2>1. ASSUME NEW b \in Buffers'
          PROVE  b \in Buffers /\ b \notin gone
        <3>1. PICK c \in DOMAIN vec' : b = vec'[c].buf /\ b # NULL
            BY Zenon DEF Buffers
        <3>2. c \in DOMAIN vec /\ c # a /\ b = vec[c].buf
            BY <1>6, <3>1, Zenon
        <3> QED
            BY <3>1, <3>2, Zenon DEF Buffers, VecInv
    <2>2. ASSUME NEW b \in Buffers, b \notin gone
          PROVE  b \in Buffers'
        <3>1. PICK c \in DOMAIN vec : b = vec[c].buf /\ b # NULL
            BY Zenon DEF Buffers
        <3>2. c # a
            BY <2>2, <3>1, Zenon
        <3> QED
            BY <1>6, <3>1, <3>2, Zenon DEF Buffers
    <2> QED
        BY <2>1, <2>2, Zenon
<1> QED
    BY <1>3, <1>5, <1>6, <1>7, <1>8, Zenon

\* memory_unref() preserves MemoryInv, up to the call for the root: what it
\* deletes belongs to no other entry, and no value that is left is in it.
LEMMA UnrefStep ==
    ASSUME MemoryInv, NEW a \in DOMAIN refcount, refcount[a] > 0, memory_unref(a),
           root_ptr' = root_ptr, owned' = owned, stale' = stale, zones' \subseteq zones,
           parent' = parent, invalid' \subseteq invalid,
           \A x \in DOMAIN refcount :
               refcount[x] = (IF x \in zones' THEN 1 ELSE 0) + (IF x = a THEN 1 ELSE 0)
                             + Cardinality(Kids(x)),
           \A v \in DOMAIN parent : v[2] \in zones'
    PROVE  MemoryInv'
<1>1. /\ refcount' = [refcount EXCEPT ![a] = @ - 1]
      /\ unref' = IF refcount[a] > 1 THEN NULL ELSE root_ptr[a]
      /\ types' = types /\ layouts' = layouts
    BY Zenon DEF memory_unref, kinds
<1>2. RefInv /\ BlockInv /\ VecInv /\ KindInv /\ LayoutsCounted /\ ValueInv
    BY Zenon DEF MemoryInv
<1>3. RefInv'
    BY <1>1, <1>2, UnrefRef, Zenon
<1>4. /\ DOMAIN refcount' = DOMAIN refcount /\ refcount'[a] = refcount[a] - 1
      /\ \A x \in DOMAIN refcount : refcount[x] \in Nat /\ (x # a => refcount'[x] = refcount[x])
    BY <1>1, <1>2, Zenon DEF RefInv, TableInv
<1>5. \A b \in DOMAIN refcount : refcount'[b] > 0 => refcount[b] > 0
    BY <1>4, Zenon
<1>6. LayoutsCounted'
    BY <1>1, <1>2, <1>4, LayoutsKept, Zenon
<1>7. ValueInv' \/ \E w \in DOMAIN parent : ~ValueForm(w)'
    BY <1>2, Zenon DEF ValueInv
<1>8. CASE ~(refcount[a] = 1 /\ a \in owned)
    <2>1. heap' = heap /\ vec' = vec /\ errors' = errors
        BY <1>8, Zenon DEF memory_unref, blocks
    <2>2. Owners' = Owners
        BY <1>2, <1>4, <1>8, SMTT(30) DEF Owners, RefInv, TableInv
    <2>3. Objects' = Objects
        BY <2>2, Zenon DEF Objects
    <2>4. /\ DOMAIN types \subseteq DOMAIN refcount
          /\ \A b \in DOMAIN refcount' : refcount'[b] > 0 => root_ptr'[b] \in Objects \cup {NULL}
        BY <1>2, <1>4, <1>5, Zenon DEF LayoutsCounted, BlockInv
    <2>5. /\ DOMAIN vec' = DOMAIN vec
          /\ \A b \in DOMAIN vec :
               /\ vec'[b] \in [buf : Address \cup {NULL}, len : Nat, cap : Nat]
               /\ vec'[b].buf = vec[b].buf /\ vec'[b].cap = vec[b].cap /\ vec'[b].len <= vec[b].cap
        BY <1>2, <2>1, Zenon DEF VecInv
    <2>6. BlockInv' /\ VecInv' /\ KindInv'
        BY <1>1, <1>2, <1>5, <2>1, <2>2, <2>3, <2>4, <2>5, StoreKept, ZenonT(60)
    <2>7. \A w \in DOMAIN parent : ValueForm(w)'
        BY <1>2, <2>1, <2>3, ZenonT(60) DEF ValueInv, ValueForm, Toplevel, Element, Field
    <2> QED
        BY <1>3, <1>6, <1>7, <2>1, <2>6, <2>7, ZenonT(60) DEF MemoryInv
<1>9. CASE refcount[a] = 1 /\ a \in owned
    <2> DEFINE gone == IF a \in DOMAIN vec THEN {vec[a].buf} \ {NULL} ELSE {}
    <2>1. memory_delete(a) /\ a \in Owners
        BY <1>9, Zenon DEF memory_unref, Owners
    <2>2. /\ DOMAIN heap' = DOMAIN heap \ ({a} \cup gone) /\ \A b \in DOMAIN heap' : heap'[b] = heap[b]
          /\ DOMAIN vec' = DOMAIN vec \ {a} /\ \A b \in DOMAIN vec' : vec'[b] = vec[b]
          /\ Buffers' = Buffers \ gone /\ gone \subseteq Buffers
          /\ errors' \subseteq errors \cup {"type deleted"}
        BY <1>2, <2>1, Deleted, Zenon
    <2> HIDE DEF gone
    <2>3. Owners' = Owners \ {a}
        <3>1. owned \subseteq DOMAIN refcount
            BY <1>2, Zenon DEF RefInv, TableInv
        <3>2. ~(refcount'[a] > 0) /\ \A b \in owned : b # a => refcount'[b] = refcount[b]
            BY <1>4, <1>9, <3>1
        <3> QED
            BY <3>2, Zenon DEF Owners
    <2>4. a \notin stale /\ Objects' = Objects \ {a}
        BY <1>2, <1>9, <2>3, ZenonT(60) DEF Objects, BlockInv
    <2>5. a \notin zones' /\ \A b \in DOMAIN refcount : refcount[b] > 0 => root_ptr[b] # a
        <3>1. Cardinality(Kids(a)) = 0 /\ a \notin zones'
            BY <1>2, <1>9, KidsFinite
        <3>2. Kids(a) = {}
            BY <1>2, <3>1, KidsFinite, FS_EmptySet, Zenon
        <3> QED
            BY <3>1, <3>2, Zenon DEF Kids
    <2>6. BlockInv'
        <3>1. \A b \in DOMAIN heap' : b \in DOMAIN heap /\ Block(b)' = Block(b)
            BY <2>2, Zenon DEF Block
        <3>2. /\ \A b \in DOMAIN heap' :
                    b \in Address /\ heap'[b] \in Nat \ {0} /\ b + heap'[b] - 1 <= MaxAddr
              /\ \A b, c \in DOMAIN heap' : b # c => Block(b)' \cap Block(c)' = {}
            <4>1. \A b \in DOMAIN heap' :
                    b \in Address /\ heap'[b] \in Nat \ {0} /\ b + heap'[b] - 1 <= MaxAddr
                BY <1>2, <2>2, Zenon DEF BlockInv
            <4>2. \A b, c \in DOMAIN heap : b # c => Block(b) \cap Block(c) = {}
                BY <1>2, Zenon DEF BlockInv
            <4>3. \A b, c \in DOMAIN heap' : b # c => Block(b)' \cap Block(c)' = {}
                BY <3>1, <4>2, Zenon
            <4> QED
                BY <4>1, <4>3, Zenon
        <3>3. DOMAIN heap' = Objects' \cup Buffers' /\ Objects' \cap Buffers' = {}
            <4>1. a \in Objects /\ DOMAIN heap = Objects \cup Buffers /\ Objects \cap Buffers = {}
                BY <1>2, <2>1, Zenon DEF BlockInv, Objects
            <4> QED
                BY <2>2, <2>4, <4>1, ZenonT(60)
        <3>4. \A b \in DOMAIN refcount' : refcount'[b] > 0 => root_ptr'[b] \in Objects' \cup {NULL}
            BY <1>2, <1>4, <1>5, <2>4, <2>5, Zenon DEF BlockInv
        <3>5. stale' \cap owned' = {}
            BY <1>2, Zenon DEF BlockInv
        <3> QED
            BY <3>2, <3>3, <3>4, <3>5, Zenon DEF BlockInv
    <2>7. VecInv'
        <3>1. DOMAIN vec' \subseteq Objects'
            BY <1>2, <2>2, <2>4, Zenon DEF VecInv
        <3>2. ASSUME NEW b \in DOMAIN vec'
              PROVE  vec'[b].buf # NULL => heap'[vec'[b].buf] = heap[vec[b].buf]
            <4>1. vec'[b].buf # NULL => vec'[b].buf \in Buffers'
                BY Zenon DEF Buffers
            <4>2. Buffers' \subseteq DOMAIN heap'
                BY <2>6, Zenon DEF BlockInv
            <4> QED
                BY <2>2, <4>1, <4>2, Zenon
        <3> QED
            BY <1>2, <2>2, <3>1, <3>2, ZenonT(60) DEF VecInv
    <2>8. KindInv'
        <3>1. \A b \in DOMAIN types' : types'[b] \in {"P", "V"}
            BY <1>1, <1>2, Zenon DEF KindInv
        <3>2. \A b \in DOMAIN types' : refcount'[b] > 0 => b \in Objects'
            BY <1>1, <1>2, <1>4, <1>5, <1>9, <2>4, SMTT(30) DEF KindInv, LayoutsCounted
        <3>3. \A b \in Owners' : b \in DOMAIN vec' <=> b \in DOMAIN types' /\ types'[b] = "V"
            BY <1>1, <1>2, <2>2, <2>3, ZenonT(60) DEF KindInv
        <3> QED
            BY <3>1, <3>2, <3>3, Zenon DEF KindInv
    <2>9. ASSUME NEW w \in DOMAIN parent
          PROVE  ValueForm(w)'
        <3>1. ValueForm(w) /\ w[2] # a /\ \A u \in DOMAIN parent : u[2] # a
            BY <1>2, <2>5, Zenon DEF ValueInv
        <3>2. ASSUME Toplevel(w)
              PROVE  /\ w[2] \in Objects' /\ heap'[w[2]] = heap[w[2]]
                     /\ w[2] \in DOMAIN vec => w[2] \in DOMAIN vec'
            <4>1. w[2] \in Objects'
                BY <2>4, <3>1, <3>2, Zenon DEF Toplevel
            <4>2. w[2] \in DOMAIN heap'
                BY <2>6, <4>1, Zenon DEF BlockInv
            <4> QED
                BY <2>2, <3>1, <4>1, <4>2, ZenonT(60)
        <3>3. ASSUME Element(w)
              PROVE  \E i \in 1..vec'[parent[w][2]].len : w[2] = ElementAddress(vec'[parent[w][2]], i)
            <4>1. /\ parent[w] \in DOMAIN parent /\ parent[w][2] \in DOMAIN vec
                  /\ \E i \in 1..vec[parent[w][2]].len : w[2] = ElementAddress(vec[parent[w][2]], i)
                BY <1>2, <3>3, ElementHome, Zenon
            <4>2. parent[w][2] # a
                BY <3>1, <4>1, Zenon
            <4> QED
                BY <2>2, <4>1, <4>2, Zenon
        <3> QED
            BY <3>1, <3>2, <3>3, ValueKept, ZenonT(60)
    <2> QED
        BY <1>3, <1>6, <1>7, <2>2, <2>6, <2>7, <2>8, <2>9, Zenon DEF MemoryInv
<1> QED
    BY <1>8, <1>9, Zenon

\* UnrefRoot preserves MemoryInv: memory_unref() for the root of a zone that
\* goes finds its entry, which counts the zone as a reference.
LEMMA UnrefRootStep ==
    ASSUME MemoryInv, UnrefRoot
    PROVE  MemoryInv'
<1>1. RefInv /\ ValueInv
    BY Zenon DEF MemoryInv
<1>2. unref \in DOMAIN refcount
    BY <1>1, Zenon DEF UnrefRoot, RefInv, TableInv
<1>3. PICK a \in DOMAIN refcount : a = unref
    BY <1>2, Zenon
<1>4. /\ memory_unref(a) /\ root_ptr' = root_ptr /\ owned' = owned /\ zones' = zones
      /\ parent' = parent /\ invalid' = invalid /\ stale' = stale
    BY <1>3, Zenon DEF UnrefRoot, values
<1>5. \A x \in DOMAIN refcount :
          refcount[x] = (IF x \in zones' THEN 1 ELSE 0) + (IF x = a THEN 1 ELSE 0)
                        + Cardinality(Kids(x))
    BY <1>1, <1>3, <1>4, Exact, ZenonT(60)
<1>6. refcount[a] > 0
    BY <1>1, <1>5, KidsFinite, SMTT(30)
<1>7. \A v \in DOMAIN parent : v[2] \in zones'
    BY <1>1, <1>4, Zenon DEF ValueInv
<1> QED
    BY <1>4, <1>5, <1>6, <1>7, UnrefStep, Zenon

\* memory_zone_unref() of a zone to which no value refers preserves MemoryInv,
\* whether Ruby frees the zone or a container invalidates it.
LEMMA ZoneUnrefStep ==
    ASSUME MemoryInv, NEW a \in zones, ~Calling, memory_zone_unref(a),
           root_ptr' = root_ptr, owned' = owned, parent' = parent, stale' = stale,
           invalid' \subseteq invalid, \A v \in DOMAIN parent : v[2] # a
    PROVE  MemoryInv'
<1>1. RefInv /\ ValueInv
    BY Zenon DEF MemoryInv
<1>2. a \in DOMAIN refcount /\ unref = NULL
    BY <1>1, NoCall, Zenon DEF RefInv, TableInv
<1>3. memory_unref(a) /\ zones' = zones \ {a}
    BY Zenon DEF memory_zone_unref
<1>4. ASSUME NEW x \in DOMAIN refcount
      PROVE  refcount[x] = (IF x \in zones' THEN 1 ELSE 0) + (IF x = a THEN 1 ELSE 0)
                           + Cardinality(Kids(x))
    <2>1. x # unref
        BY <1>1, <1>2, NullAddress, Zenon DEF RefInv, TableInv
    <2>2. refcount[x] = (IF x \in zones THEN 1 ELSE 0) + 0 + Cardinality(Kids(x))
        BY <1>1, <2>1, Exact, Zenon
    <2>3. Cardinality(Kids(x)) \in Nat
        BY <1>1, KidsFinite, Zenon
    <2> QED
        BY <1>3, <2>2, <2>3
<1>5. refcount[a] > 0
    BY <1>1, <1>2, NoCall, Zenon
<1>6. \A v \in DOMAIN parent : v[2] \in zones'
    BY <1>1, <1>3, Zenon DEF ValueInv
<1>7. zones' \subseteq zones
    BY <1>3, Zenon
<1> QED
    BY <1>2, <1>3, <1>4, <1>5, <1>6, <1>7, UnrefStep, ZenonT(60)

\* CollectZone preserves MemoryInv: Ruby only frees a zone that no value uses.
LEMMA CollectZoneStep ==
    ASSUME MemoryInv, NEW a \in zones, CollectZone(a)
    PROVE  MemoryInv'
<1>1. /\ ~Calling /\ memory_zone_unref(a) /\ root_ptr' = root_ptr /\ owned' = owned
      /\ parent' = parent /\ stale' = stale /\ invalid' = invalid
      /\ \A v \in DOMAIN parent : v[2] # a
    BY Zenon DEF CollectZone, values
<1> QED
    BY <1>1, ZoneUnrefStep, Zenon

\* InvalidateZone preserves MemoryInv: handle_container_invalidation leaves no
\* value that uses the zone, and a zone that is invalidated twice is ignored.
LEMMA InvalidateZoneStep ==
    ASSUME MemoryInv, NEW a \in invalid, InvalidateZone(a)
    PROVE  MemoryInv'
<1>1. /\ ~Calling /\ memory_zone_unref(a) /\ root_ptr' = root_ptr /\ owned' = owned
      /\ parent' = parent /\ stale' = stale /\ invalid' \subseteq invalid
    BY Zenon DEF InvalidateZone, values
<1>2. \A v \in DOMAIN parent : v[2] # a
    BY Zenon DEF MemoryInv, ValueInv
<1>3. CASE a \in zones
    BY <1>1, <1>2, <1>3, ZoneUnrefStep, Zenon
<1>4. CASE a \notin zones
    <2>1. UNCHANGED <<refcount, root_ptr, owned, zones, types, layouts, heap, vec, unref,
                      parent, errors, stale>>
        BY <1>1, <1>4, Zenon DEF memory_zone_unref, blocks, kinds
    <2>2. RefInv' /\ Owners' = Owners /\ Objects' = Objects
          /\ \A b \in DOMAIN refcount' : refcount'[b] > 0 => root_ptr'[b] \in Objects \cup {NULL}
        BY <2>1, TablesKept, Zenon
    <2>3. Buffers' = Buffers /\ \A b : Block(b)' = Block(b)
        BY <2>1, Zenon DEF Buffers, Block
    <2>4. BlockInv'
        BY <2>1, <2>2, <2>3, ZenonT(60) DEF MemoryInv, BlockInv
    <2>5. VecInv'
        BY <2>1, <2>2, <2>3, Zenon DEF MemoryInv, VecInv
    <2>6. KindInv'
        BY <2>1, <2>2, <2>3, Zenon DEF MemoryInv, KindInv
    <2>7. LayoutsCounted'
        BY <2>1, LayoutsKept, Zenon DEF MemoryInv
    <2>8. ValueInv'
        <3>1. \A v \in DOMAIN parent : ValueForm(v)'
            BY <2>1, <2>2, ZenonT(60) DEF MemoryInv, ValueInv, ValueForm, Toplevel, Element, Field
        <3>2. \A v \in DOMAIN parent :
                v \in {"P", "V", "N", "*"} \X Address /\ v[2] \in zones' /\ v[2] \notin invalid'
            BY <1>1, <2>1, Zenon DEF MemoryInv, ValueInv
        <3> QED
            BY <2>1, <3>1, <3>2, Zenon DEF ValueInv
    <2> QED
        BY <2>1, <2>2, <2>4, <2>5, <2>6, <2>7, <2>8, ZenonT(60) DEF MemoryInv
<1> QED
    BY <1>3, <1>4, Zenon

\* Deregister preserves MemoryInv: the entry that memory_unref() erases owns
\* nothing any more.
LEMMA DeregisterStep ==
    ASSUME MemoryInv, NEW a \in DOMAIN refcount, Deregister(a)
    PROVE  MemoryInv'
<1>1. RefInv /\ BlockInv /\ VecInv /\ KindInv /\ LayoutsCounted /\ ValueInv
    BY Zenon DEF MemoryInv
<1>2. RefInv'
    BY <1>1, DeregisterRef, Zenon
<1>3. /\ DOMAIN refcount' = DOMAIN refcount \ {a} /\ refcount[a] = 0
      /\ \A x \in DOMAIN refcount' : refcount'[x] = refcount[x] /\ root_ptr'[x] = root_ptr[x]
      /\ owned' = owned \ {a}
      /\ DOMAIN types' = DOMAIN types \ {a} /\ \A x \in DOMAIN types' : types'[x] = types[x]
      /\ UNCHANGED <<zones, heap, vec, parent, invalid, errors, stale>>
    <2>1. DOMAIN root_ptr = DOMAIN refcount
        BY <1>1, SMTT(20) DEF RefInv, TableInv
    <2> QED
        BY <2>1, Zenon DEF Deregister, ReleaseLayout, Drop, blocks, values
<1>4. LayoutsCounted'
    BY <1>1, <1>3, LayoutReleased, Zenon DEF Deregister
<1>5. Owners' = Owners /\ Objects' = Objects /\ Buffers' = Buffers /\ \A b : Block(b)' = Block(b)
    <2>1. owned \subseteq DOMAIN refcount
        BY <1>1, Zenon DEF RefInv, TableInv
    <2>2. Owners' = Owners
        BY <1>3, <2>1 DEF Owners
    <2> QED
        BY <1>3, <2>2, Zenon DEF Objects, Buffers, Block
<1>6. BlockInv'
    <2>1. \A b \in DOMAIN refcount' : refcount'[b] > 0 => root_ptr'[b] \in Objects \cup {NULL}
        BY <1>1, <1>3, Zenon DEF BlockInv
    <2> QED
        BY <1>1, <1>3, <1>5, <2>1, ZenonT(60) DEF BlockInv
<1>7. VecInv'
    BY <1>1, <1>3, <1>5, Zenon DEF VecInv
<1>8. KindInv'
    <2>1. a \notin Owners
        BY <1>3 DEF Owners
    <2>2. \A b \in DOMAIN types' : b \in DOMAIN refcount'
        BY <1>4, SMTT(20) DEF LayoutsCounted
    <2>3. \A b \in DOMAIN types' : types'[b] \in {"P", "V"} /\ (refcount'[b] > 0 => b \in Objects')
        BY <1>1, <1>3, <1>5, <2>2, ZenonT(60) DEF KindInv
    <2>4. \A b \in Owners' : b \in DOMAIN vec' <=> b \in DOMAIN types' /\ types'[b] = "V"
        BY <1>1, <1>3, <1>5, <2>1, ZenonT(60) DEF KindInv
    <2> QED
        BY <2>3, <2>4, Zenon DEF KindInv
<1>9. ValueInv'
    <2>1. heap' = heap /\ vec' = vec /\ parent' = parent /\ zones' = zones /\ invalid' = invalid
        BY <1>3, Zenon
    <2>2. ASSUME NEW w \in DOMAIN parent
          PROVE  ValueForm(w)'
        <3>1. ValueForm(w)
            BY <1>1, Zenon DEF ValueInv
        <3>2. Toplevel(w) => w[2] \in Objects'
            BY <1>5, Zenon DEF Toplevel
        <3>3. Element(w) =>
                  \E i \in 1..vec'[parent[w][2]].len : w[2] = ElementAddress(vec'[parent[w][2]], i)
            BY <2>1, Zenon DEF Element
        <3> QED
            BY <2>1, <3>1, <3>2, <3>3, ValueKept, ZenonT(60)
    <2> QED
        BY <1>1, <2>1, <2>2, Zenon DEF ValueInv
<1> QED
    BY <1>2, <1>3, <1>4, <1>6, <1>7, <1>8, <1>9, ZenonT(60) DEF MemoryInv

\* Forgetting values changes nothing but the values: MemoryInv is preserved when
\* a value that is kept keeps its parent.
LEMMA ValuesForgotten ==
    ASSUME MemoryInv, UNCHANGED <<refcount, root_ptr, owned, zones, types, layouts, heap, vec,
                                  unref, invalid, errors, stale>>,
           \A w \in DOMAIN parent' :
               /\ w \in DOMAIN parent /\ parent'[w] = parent[w]
               /\ parent[w] \in DOMAIN parent => parent[w] \in DOMAIN parent'
    PROVE  MemoryInv'
<1>1. RefInv' /\ Owners' = Owners /\ Objects' = Objects
      /\ \A b \in DOMAIN refcount' : refcount'[b] > 0 => root_ptr'[b] \in Objects \cup {NULL}
    BY TablesKept, Zenon
<1>2. Buffers' = Buffers /\ \A b : Block(b)' = Block(b)
    BY Zenon DEF Buffers, Block
<1>3. BlockInv'
    BY <1>1, <1>2, ZenonT(60) DEF MemoryInv, BlockInv
<1>4. VecInv'
    BY <1>1, <1>2, ZenonT(60) DEF MemoryInv, VecInv
<1>5. KindInv'
    BY <1>1, <1>2, Zenon DEF MemoryInv, KindInv
<1>6. LayoutsCounted'
    BY LayoutsKept, Zenon DEF MemoryInv
<1>7. ASSUME NEW w \in DOMAIN parent'
      PROVE  ValueForm(w)'
    <2>1. /\ w \in DOMAIN parent /\ parent'[w] = parent[w] /\ ValueForm(w)
          /\ parent[w] \in DOMAIN parent =>
               parent[w] \in DOMAIN parent' /\ parent'[parent[w]] = parent[parent[w]]
        BY Zenon DEF MemoryInv, ValueInv
    <2>2. Toplevel(w) =>
              w[2] \in Objects' /\ heap'[w[2]] = heap[w[2]] /\ (w[2] \in DOMAIN vec => w[2] \in DOMAIN vec')
        BY <1>1, Zenon DEF Toplevel
    <2>3. Element(w) =>
              \E i \in 1..vec'[parent[w][2]].len : w[2] = ElementAddress(vec'[parent[w][2]], i)
        BY Zenon DEF Element
    <2> QED
        BY <2>1, <2>2, <2>3, ValueKept, ZenonT(60)
<1>8. \A w \in DOMAIN parent' :
          w \in {"P", "V", "N", "*"} \X Address /\ w[2] \in zones' /\ w[2] \notin invalid'
    BY Zenon DEF MemoryInv, ValueInv
<1>9. ValueInv'
    BY <1>7, <1>8, Zenon DEF ValueInv
<1> QED
    BY <1>1, <1>3, <1>4, <1>5, <1>6, <1>9, ZenonT(60) DEF MemoryInv

\* A value and its parent have the same toplevel value (value_root_ptr()).
LEMMA SameRoot ==
    ASSUME ValueInv, NEW w \in DOMAIN parent, parent[w] \in DOMAIN parent
    PROVE  value_root(parent[w]) = value_root(w)
<1>1. NoValue \notin DOMAIN parent
    BY Zenon DEF ValueInv, NoValue
<1>2. parent[w] # NoValue
    BY <1>1, Zenon
<1>3. CASE parent[parent[w]] = NoValue
    BY <1>2, <1>3, Zenon DEF value_root
<1>4. CASE parent[parent[w]] # NoValue
    <2>1. Field(w) /\ Element(parent[w])
        BY <1>2, <1>4, FieldHome, ZenonT(60) DEF ValueInv, ValueForm, Toplevel, Element
    <2>2. parent[parent[parent[w]]] = NoValue
        BY <2>1, Zenon DEF Element
    <2> QED
        BY <1>2, <1>4, <2>2, ZenonT(60) DEF value_root
<1> QED
    BY <1>3, <1>4, Zenon

\* Forget preserves MemoryInv: Ruby forgets a toplevel value with all the values
\* that were read from it.
LEMMA ForgetStep ==
    ASSUME MemoryInv, NEW v \in DOMAIN parent, Forget(v)
    PROVE  MemoryInv'
<1> DEFINE gone == {w \in DOMAIN parent : value_root(w) = v}
<1>1. /\ DOMAIN parent' = DOMAIN parent \ gone /\ \A w \in DOMAIN parent' : parent'[w] = parent[w]
      /\ UNCHANGED <<refcount, root_ptr, owned, zones, types, layouts, heap, vec,
                     unref, invalid, errors, stale>>
    BY Zenon DEF Forget, Drop, tables, kinds, blocks
<1>2. ASSUME NEW w \in DOMAIN parent'
      PROVE  /\ w \in DOMAIN parent /\ parent'[w] = parent[w]
             /\ parent[w] \in DOMAIN parent => parent[w] \in DOMAIN parent'
    <2>1. w \in DOMAIN parent /\ value_root(w) # v
        BY <1>1, Zenon
    <2>2. parent[w] \in DOMAIN parent => value_root(parent[w]) # v
        BY <2>1, SameRoot, Zenon DEF MemoryInv
    <2> QED
        BY <1>1, <2>1, <2>2, ZenonT(60)
<1> HIDE DEF gone
<1> QED
    BY <1>1, <1>2, ValuesForgotten, ZenonT(60)

\* Exit preserves MemoryInv: no value is left.
LEMMA ExitStep ==
    ASSUME MemoryInv, Exit
    PROVE  MemoryInv'
<1>1. /\ UNCHANGED <<refcount, root_ptr, owned, zones, types, layouts, heap, vec,
                     unref, invalid, errors, stale>>
      /\ DOMAIN parent' = {}
    BY Zenon DEF Exit, tables, kinds, blocks
<1> QED
    BY <1>1, ValuesForgotten, Zenon

-----------------------------------------------------------------------------
(* The inductive invariant *)

\* No memory has been allocated when the bindings are loaded.
LEMMA InitMemory == Init => MemoryInv
<1> SUFFICES ASSUME Init
             PROVE  MemoryInv
    BY Zenon
<1>1. /\ DOMAIN refcount = {} /\ DOMAIN root_ptr = {} /\ DOMAIN heap = {} /\ DOMAIN vec = {}
      /\ DOMAIN types = {} /\ DOMAIN layouts = {} /\ DOMAIN parent = {}
      /\ owned = {} /\ zones = {} /\ unref = NULL /\ errors = {} /\ stale = {}
    BY Zenon DEF Init
<1>2. RefInv
    BY <1>1, Zenon DEF RefInv, TableInv, RefcountExact, Acyclic
<1>3. Owners = {} /\ Objects = {} /\ Buffers = {}
    BY <1>1, Zenon DEF Owners, Objects, Buffers
<1>4. BlockInv /\ VecInv /\ KindInv
    BY <1>1, <1>3, Zenon DEF BlockInv, VecInv, KindInv
<1>5. LayoutsCounted /\ ValueInv
    BY <1>1, Zenon DEF LayoutsCounted, ValueInv
<1> QED
    BY <1>1, <1>2, <1>4, <1>5, Zenon DEF MemoryInv

\* Every operation of a program preserves MemoryInv.
LEMMA OperationStep ==
    ASSUME MemoryInv, Operation
    PROVE  MemoryInv'
<1>1. ASSUME NEW t \in {"P", "V"}, NEW a \in Address, New(t, a)
      PROVE  MemoryInv'
    BY <1>1, NewStep, Zenon
<1>2. ASSUME NEW v \in DOMAIN parent, NEW a \in Address, ToPtr(v, a) \/ PushGrow(v, a)
      PROVE  MemoryInv'
    <2>1. CASE ToPtr(v, a)
        BY <2>1, ToPtrStep, Zenon DEF ToPtr, Usable, Running
    <2>2. CASE PushGrow(v, a)
        BY <2>2, PushGrowStep, Zenon
    <2> QED
        BY <1>2, <2>1, <2>2, Zenon
<1>3. ASSUME NEW v \in DOMAIN parent, NEW i \in 0..1, GetField(v, i)
      PROVE  MemoryInv'
    BY <1>3, GetFieldStep, Zenon
<1>4. ASSUME NEW v \in DOMAIN parent, NEW i \in 1..MaxLength, GetElement(v, i)
      PROVE  MemoryInv'
    BY <1>4, GetElementStep, Zenon
<1>5. ASSUME NEW v \in DOMAIN parent, Push(v) \/ Erase(v) \/ Clear(v)
      PROVE  MemoryInv'
    BY <1>5, PushStep, EraseStep, ClearStep, ZenonT(60)
<1>6. ASSUME NEW v \in DOMAIN parent, NEW n \in 1..MaxLength, NEW k \in 0..MaxLength,
             NEW S \in SUBSET (1..MaxLength), DeleteIf(v, n, k, S)
      PROVE  MemoryInv'
    BY <1>6, DeleteIfStep, Zenon
<1>7. ASSUME NEW k \in kept, NEW i \in 0..1, KeptField(k, i)
      PROVE  MemoryInv'
    BY <1>7, KeptFieldStep, Zenon
<1>8. ASSUME NEW k \in kept, NEW a \in Address, KeptToPtr(k, a)
      PROVE  MemoryInv'
    BY <1>8, ToPtrStep, Zenon DEF KeptToPtr, UsableKept, Usable, Running
<1>9. ASSUME NEW t \in {"V"}, RemoveType(t)
      PROVE  MemoryInv'
    BY <1>9, MemoryKept, Zenon DEF RemoveType, tables, kinds, blocks, values
<1> QED
    BY <1>1, <1>2, <1>3, <1>4, <1>5, <1>6, <1>7, <1>8, <1>9, ZenonT(60) DEF Operation

\* MemoryInv is inductive: operations, containers, the collector and exit all
\* preserve it.
LEMMA MemoryStep == MemoryInv /\ [Next]_vars => MemoryInv'
<1> SUFFICES ASSUME MemoryInv, [Next]_vars
             PROVE  MemoryInv'
    BY Zenon
<1>1. CASE Operation
    BY <1>1, OperationStep, Zenon
<1>2. CASE UnrefRoot
    BY <1>2, UnrefRootStep, Zenon
<1>3. ASSUME NEW a \in DOMAIN refcount, Deregister(a)
      PROVE  MemoryInv'
    BY <1>3, DeregisterStep, Zenon
<1>4. ASSUME NEW a \in invalid, InvalidateZone(a)
      PROVE  MemoryInv'
    BY <1>4, InvalidateZoneStep, ZenonT(60)
<1>5. ASSUME NEW v \in DOMAIN parent, Forget(v)
      PROVE  MemoryInv'
    BY <1>5, ForgetStep, Zenon
<1>6. ASSUME NEW a \in zones, CollectZone(a)
      PROVE  MemoryInv'
    BY <1>6, CollectZoneStep, ZenonT(60)
<1>7. CASE Exit
    BY <1>7, ExitStep, Zenon
<1>8. CASE FreeRegistry
    BY <1>8, MemoryKept, Zenon DEF FreeRegistry, tables, kinds, blocks, values
<1>9. ASSUME NEW k \in kept, ForgetKept(k)
      PROVE  MemoryInv'
    BY <1>9, MemoryKept, Zenon DEF ForgetKept, tables, kinds, blocks, values
<1>10. CASE UNCHANGED vars
    BY <1>10, MemoryKept, Zenon DEF vars, tables, kinds, blocks, values
<1> QED
    BY <1>1, <1>2, <1>3, <1>4, <1>5, <1>6, <1>7, <1>8, <1>9, <1>10, ZenonT(60) DEF Next

\* MemoryInv holds in every state of the bindings.
THEOREM RubyInvariant == Spec => []MemoryInv
<1>1. Init => MemoryInv
    BY InitMemory, Zenon
<1>2. MemoryInv /\ [Next]_vars => MemoryInv'
    BY MemoryStep, Zenon
<1> QED
    BY <1>1, <1>2, PTL DEF Spec

-----------------------------------------------------------------------------
(* What it implies *)

\* memory_unref(), memory_aset() and memory_wrap() always find the entry they look
\* for, no memory is freed twice, and the counts of references and of layouts are
\* exact, in any order of operations, invalidations and finalizations.
THEOREM RubyTablesConsistent == Spec => []TablesConsistent
<1>1. MemoryInv => TablesConsistent
    <2> SUFFICES ASSUME MemoryInv
                 PROVE  TablesConsistent
        BY Zenon
    <2>1. NoMemoryError /\ RefcountExact /\ LayoutsCounted
        BY Zenon DEF MemoryInv, NoMemoryError, RefInv, TableInv
    <2>2. DOMAIN vec \subseteq DOMAIN heap /\ DOMAIN types \subseteq DOMAIN refcount
        BY Zenon DEF MemoryInv, VecInv, BlockInv, LayoutsCounted
    <2>3. \A v \in DOMAIN parent : v[2] \in Address
        BY Zenon DEF MemoryInv, ValueInv
    <2>4. \A a \in DOMAIN heap : a \in Address /\ heap[a] \in Nat \ {0}
        BY Zenon DEF MemoryInv, BlockInv
    <2>5. /\ \A a \in DOMAIN refcount :
               a \in Address /\ refcount[a] \in Nat /\ root_ptr[a] \in Address \cup {NULL}
          /\ owned \subseteq DOMAIN refcount
        BY Zenon DEF MemoryInv, RefInv, TableInv
    <2>6. TypeOK
        BY <2>2, <2>3, <2>4, <2>5, ZenonT(60) DEF TypeOK
    <2> QED
        BY <2>1, <2>6, Zenon DEF TablesConsistent
<1> QED
    BY <1>1, RubyInvariant, PTL

\* A value that no container has invalidated refers to a zone that exists and to
\* memory that has not been freed: toplevel values, elements and fields.
THEOREM RubyValuesUsable == Spec => []ValuesUsable
<1>1. MemoryInv => ValuesUsable
    <2> SUFFICES ASSUME MemoryInv, NEW v \in DOMAIN parent
                 PROVE  v[2] \in zones /\ v[2]..(v[2] + Size(v[1]) - 1) \subseteq Cells
        BY Zenon DEF ValuesUsable
    <2>1. v[2] \in zones /\ v[2] \in Nat
        BY AddressNat, Zenon DEF MemoryInv, ValueInv
    <2>2. v[2] \in Cells /\ (v[1] = "P" => v[2] + 1 \in Cells)
        BY ValueCells, Zenon DEF MemoryInv
    <2>3. v[2]..(v[2] + Size(v[1]) - 1) \subseteq IF v[1] = "P" THEN {v[2], v[2] + 1} ELSE {v[2]}
        BY <2>1, SMTT(30) DEF Size
    <2> QED
        BY <2>1, <2>2, <2>3, Zenon
<1> QED
    BY <1>1, RubyInvariant, PTL

\* When Ruby has finalized everything at exit, in any order, every table is empty
\* and no memory is left but the blocks that no zone owned: an entry that were left
\* would have a reference, which only an entry below it could hold, and the roots
\* have no cycle.
THEOREM RubyExitFrees == Spec => []ExitFrees
<1>1. MemoryInv => ExitFrees
    <2> SUFFICES ASSUME MemoryInv, ~Calling, zones = {}
                 PROVE  DOMAIN heap \subseteq Lost /\ DOMAIN refcount = {} /\ DOMAIN layouts = {}
        BY Zenon DEF ExitFrees
    <2>1. RefInv /\ BlockInv /\ VecInv /\ LayoutsCounted
        BY Zenon DEF MemoryInv
    <2>2. unref = NULL /\ \A a \in DOMAIN refcount : refcount[a] > 0
        BY <2>1, NoCall, Zenon
    <2>3. ASSUME NEW a \in DOMAIN refcount
          PROVE  \E b \in DOMAIN refcount : root_ptr[b] = a
        <3>1. a # unref
            BY <2>1, <2>2, NullAddress, ZenonT(60) DEF RefInv, TableInv
        <3> QED
            BY <2>1, <2>2, <3>1, HasKid, ZenonT(60)
    <2>4. DOMAIN refcount = {}
        BY <2>1, <2>3, Zenon DEF RefInv, Acyclic
    <2>5. Objects = stale
        BY <2>1, <2>4, Zenon DEF Objects, Owners, RefInv, TableInv
    <2>6. Buffers \subseteq {vec[a].buf : a \in stale \cap DOMAIN vec}
        BY <2>1, <2>5, Zenon DEF Buffers, VecInv
    <2>7. DOMAIN heap \subseteq Lost
        BY <2>1, <2>5, <2>6, ZenonT(60) DEF BlockInv, Lost
    <2>8. DOMAIN layouts = {}
        BY <2>1, <2>4, Zenon DEF LayoutsCounted
    <2> QED
        BY <2>4, <2>7, <2>8, ZenonT(60)
<1> QED
    BY <1>1, RubyInvariant, PTL

-----------------------------------------------------------------------------
(* Types that are deleted before their values *)

\* Only a type that was removed from the registry is deleted before a value of it
\* is destroyed.
OnlyRemovedDeleted == "type deleted" \in errors => "V" \in removed

\* memory_delete() finds the layout of the type, which keeps the Registry.
LEMMA UnrefTypeDeleted ==
    ASSUME NEW a, memory_unref(a), "type deleted" \in errors'
    PROVE  "type deleted" \in errors \/ "V" \in removed
<1>1. CASE a \in DOMAIN refcount /\ refcount[a] = 1 /\ a \in owned
    <2>1. memory_delete(a)
        BY <1>1, Zenon DEF memory_unref
    <2>2. "type deleted" \in errors \/ (Destroyed(a) /\ TypeDeleted("V"))
        BY <2>1, Zenon DEF memory_delete, Error
    <2> QED
        BY <2>2, Zenon DEF Destroyed, TypeDeleted
<1>2. CASE ~(a \in DOMAIN refcount /\ refcount[a] = 1 /\ a \in owned)
    <2>1. errors' = errors \/ errors' = errors \cup {"not registered"}
        BY <1>2, Zenon DEF memory_unref
    <2>2. "type deleted" # "not registered"
        BY Zenon
    <2> QED
        BY <2>1, <2>2, Zenon
<1> QED
    BY <1>1, <1>2, Zenon

\* The operations of a program destroy no value.
LEMMA OperationTypeDeleted ==
    ASSUME Operation
    PROVE  removed \subseteq removed' /\ ("type deleted" \in errors' => "type deleted" \in errors)
<1>0. /\ \A S, root : "type deleted" \notin WrapErrors(S, root)
      /\ \A a : "type deleted" \notin InitErrors(a)
    BY Zenon DEF WrapErrors, InitErrors, Error
<1>1. ASSUME NEW t \in {"P", "V"}, NEW a \in Address, New(t, a)
      PROVE  removed' = removed /\ ("type deleted" \in errors' => "type deleted" \in errors)
    BY <1>0, <1>1, Zenon DEF New, program
<1>2. ASSUME NEW root, NEW a, PointInto(root, a)
      PROVE  removed' = removed /\ ("type deleted" \in errors' => "type deleted" \in errors)
    BY <1>0, <1>2, Zenon DEF PointInto, program
<1>3. ASSUME NEW v, NEW a, PushGrow(v, a)
      PROVE  removed' = removed /\ ("type deleted" \in errors' => "type deleted" \in errors)
    BY <1>3, Zenon DEF PushGrow, Error, program
<1>4. ASSUME NEW v, NEW c, value_wrap(v, c)
      PROVE  "type deleted" \in errors' => "type deleted" \in errors
    BY <1>0, <1>4, Zenon DEF value_wrap
<1>5. ASSUME NEW v, NEW i, GetField(v, i) \/ GetElement(v, i)
      PROVE  removed' = removed /\ ("type deleted" \in errors' => "type deleted" \in errors)
    BY <1>4, <1>5, Zenon DEF GetField, GetElement, program
<1>6. ASSUME NEW v, Push(v) \/ Erase(v) \/ Clear(v)
      PROVE  removed' = removed /\ errors' = errors
    BY <1>6, Zenon DEF Push, Erase, Clear, program
<1>7. ASSUME NEW v, NEW n, NEW k, NEW S, DeleteIf(v, n, k, S)
      PROVE  removed' = removed /\ ("type deleted" \in errors' => "type deleted" \in errors)
    BY <1>0, <1>7, Zenon DEF DeleteIf, program
<1>8. ASSUME NEW t, RemoveType(t)
      PROVE  removed \subseteq removed' /\ errors' = errors
    BY <1>8, Zenon DEF RemoveType
<1>9. ASSUME NEW k, NEW i, KeptField(k, i)
      PROVE  removed' = removed /\ ("type deleted" \in errors' => "type deleted" \in errors)
    BY <1>0, <1>9, Zenon DEF KeptField, program
<1> QED
    BY <1>1, <1>2, <1>3, <1>5, <1>6, <1>7, <1>8, <1>9, ZenonT(60) DEF Operation, ToPtr, KeptToPtr

\* As long as a type is not removed from its registry, memory_delete() never
\* destroys a value with a type that is deleted, whatever the order in which Ruby
\* finalizes the registry and the values: the layouts keep the Registry.
THEOREM RubyTypesKept == Spec => []OnlyRemovedDeleted
<1>1. Init => OnlyRemovedDeleted
    BY Zenon DEF Init, OnlyRemovedDeleted
<1>2. ASSUME OnlyRemovedDeleted, [Next]_vars
      PROVE  OnlyRemovedDeleted'
    <2>1. CASE Operation
        BY <1>2, <2>1, OperationTypeDeleted, Zenon DEF OnlyRemovedDeleted
    <2>2. CASE UnrefRoot
        <3>1. memory_unref(unref) /\ removed' = removed
            BY <2>2, Zenon DEF UnrefRoot, program
        <3> QED
            BY <1>2, <3>1, UnrefTypeDeleted, ZenonT(60) DEF OnlyRemovedDeleted
    <2>3. ASSUME NEW a, InvalidateZone(a) \/ CollectZone(a)
          PROVE  OnlyRemovedDeleted'
        <3>1. removed' = removed /\ memory_zone_unref(a)
            BY <2>3, Zenon DEF InvalidateZone, CollectZone, program
        <3>2. memory_unref(a) \/ errors' = errors
            BY <3>1, Zenon DEF memory_zone_unref
        <3> QED
            BY <1>2, <3>1, <3>2, UnrefTypeDeleted, ZenonT(60) DEF OnlyRemovedDeleted
    <2>4. ASSUME NEW a, Deregister(a)
          PROVE  OnlyRemovedDeleted'
        BY <1>2, <2>4, Zenon DEF Deregister, OnlyRemovedDeleted, program
    <2>5. ASSUME NEW v, Forget(v) \/ ForgetKept(v)
          PROVE  OnlyRemovedDeleted'
        BY <1>2, <2>5, Zenon DEF Forget, ForgetKept, OnlyRemovedDeleted, program
    <2>6. CASE Exit \/ FreeRegistry \/ UNCHANGED vars
        BY <1>2, <2>6, Zenon DEF Exit, FreeRegistry, vars, OnlyRemovedDeleted, program
    <2> QED
        BY <1>2, <2>1, <2>2, <2>3, <2>4, <2>5, <2>6, ZenonT(60) DEF Next
<1> QED
    BY <1>1, <1>2, PTL DEF Spec
=============================================================================
