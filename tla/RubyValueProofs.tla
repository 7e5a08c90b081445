--------------------------- MODULE RubyValueProofs ---------------------------
(***************************************************************************)
(* The inductive invariant of the memory of the Ruby bindings, and why the *)
(* operations on existing values preserve it: reading fields and elements, *)
(* and changing a vector in its buffer.                                    *)
(*                                                                         *)
(* MemoryInv says who owns each block, where each value is and what each   *)
(* reference stands for.  The table (RefInv) does not depend on the rest;  *)
(* the blocks, the vectors and the types follow it; the values come last.  *)
(***************************************************************************)
EXTENDS RubyMemory, FiniteSetTheorems, TLAPS

\* The entries that own memory which has not been deleted
Owners == {a \in owned : refcount[a] > 0}
\* The objects on the heap: what entries own, and the blocks that no entry owns
Objects == Owners \cup stale
\* The buffers of the vectors
Buffers == {vec[a].buf : a \in DOMAIN vec} \ {NULL}
\* The entries that count as a reference on a
Kids(a) == {b \in DOMAIN refcount : root_ptr[b] = a /\ refcount[b] > 0}

\* The entries of the table; the root of an entry that has a reference is
\* registered, so that memory_unref() finds it.
TableInv ==
    /\ DOMAIN root_ptr = DOMAIN refcount
    /\ \A a \in DOMAIN refcount :
        a \in Address /\ refcount[a] \in Nat /\ root_ptr[a] \in Address \cup {NULL}
    /\ owned \subseteq DOMAIN refcount
    /\ zones \subseteq DOMAIN refcount
    /\ unref \in DOMAIN refcount \cup {NULL}
    /\ \A b \in DOMAIN refcount : refcount[b] > 0 => root_ptr[b] \in DOMAIN refcount \cup {NULL}

\* The roots form no cycle: some entry of every set is the root of none in it.
Acyclic == \A S \in SUBSET DOMAIN refcount : S # {} => \E a \in S : \A b \in S : root_ptr[b] # a

RefInv == TableInv /\ RefcountExact /\ Acyclic

\* Every block is an object or the buffer of one vector, and blocks are
\* disjoint. The root of an entry is an object.
BlockInv ==
    /\ \A a \in DOMAIN heap : a \in Address /\ heap[a] \in Nat \ {0} /\ a + heap[a] - 1 <= MaxAddr
    /\ \A a, b \in DOMAIN heap : a # b => Block(a) \cap Block(b) = {}
    /\ DOMAIN heap = Objects \cup Buffers
    /\ Objects \cap Buffers = {}
    /\ stale \cap owned = {}
    /\ \A b \in DOMAIN refcount : refcount[b] > 0 => root_ptr[b] \in Objects \cup {NULL}

\* A vector is an object; its buffer has the size of its capacity and belongs
\* to no other vector.
VecInv ==
    /\ DOMAIN vec \subseteq Objects
    /\ \A a \in DOMAIN vec :
        /\ vec[a] \in [buf : Address \cup {NULL}, len : Nat, cap : Nat]
        /\ vec[a].len <= vec[a].cap
        /\ vec[a].buf = NULL => vec[a].cap = 0
        /\ vec[a].buf # NULL => heap[vec[a].buf] = 2 * vec[a].cap
    /\ \A a, b \in DOMAIN vec : vec[a].buf = vec[b].buf => a = b \/ vec[a].buf = NULL

\* memory_types has the type of the memory that an entry owns, so that
\* memory_delete() destroys a vector as one.
KindInv ==
    /\ \A a \in DOMAIN types : types[a] \in {"P", "V"}
    /\ \A a \in DOMAIN types : refcount[a] > 0 => a \in Objects
    /\ \A a \in Owners : a \in DOMAIN vec <=> a \in DOMAIN types /\ types[a] = "V"

\* A value that is an object of its own
Toplevel(v) ==
    /\ parent[v] = NoValue
    /\ v[1] \in {"P", "V", "*"}
    /\ v[2] \in Objects /\ heap[v[2]] = Size(v[1])
    /\ v[1] = "V" => v[2] \in DOMAIN vec
\* An element of a vector, in its buffer
Element(v) ==
    /\ v[1] = "P"
    /\ parent[v] \in DOMAIN parent /\ parent[v][1] = "V" /\ parent[parent[v]] = NoValue
    /\ \E i \in 1..vec[parent[v][2]].len : v[2] = ElementAddress(vec[parent[v][2]], i)
\* A field of a structure
Field(v) ==
    /\ v[1] = "N"
    /\ parent[v] \in DOMAIN parent /\ parent[v][1] = "P"
    /\ v[2] \in {parent[v][2], parent[v][2] + 1}

\* A value is a toplevel value, an element or a field
ValueForm(v) == Toplevel(v) \/ Element(v) \/ Field(v)

\* Each value is one of these, and its zone neither was nor is going to be
\* invalidated.
ValueInv ==
    /\ \A v \in DOMAIN parent : ValueForm(v)
    /\ \A v \in DOMAIN parent : v \in {"P", "V", "N", "*"} \X Address /\ v[2] \in zones /\ v[2] \notin invalid

\* The inductive invariant
MemoryInv ==
    RefInv /\ BlockInv /\ VecInv /\ KindInv /\ LayoutsCounted /\ ValueInv /\ errors \subseteq {"type deleted"}

-----------------------------------------------------------------------------
(* Counting *)

\* The null pointer is the address of no cell.
LEMMA NullAddress == NULL \notin Address
    BY MemoryAssumption DEF NULL, Address

\* Addresses are positive numbers.
LEMMA AddressNat == \A a \in Address : a \in Nat /\ a >= 1
    BY MemoryAssumption DEF Address

\* A set of addresses is finite, so that the entries of the table can be
\* counted.
LEMMA FiniteAddresses ==
    ASSUME NEW S, S \subseteq Address
    PROVE  IsFiniteSet(S) /\ Cardinality(S) \in Nat
<1>1. IsFiniteSet(Address)
    <2>1. 1 \in Int /\ MaxAddr \in Int
        BY MemoryAssumption
    <2> QED
        BY <2>1, FS_Interval, Zenon DEF Address
<1>2. IsFiniteSet(S)
    BY <1>1, FS_Subset, Zenon
<1> QED
    BY <1>2, FS_CardinalityType, Zenon

\* A zone counts as one reference or none.
LEMMA Bit ==
    ASSUME NEW S, NEW a
    PROVE  Cardinality(S \cap {a}) = IF a \in S THEN 1 ELSE 0
<1>1. CASE a \in S
    <2>1. S \cap {a} = {a}
        BY <1>1, Zenon
    <2> QED
        BY <1>1, <2>1, FS_Singleton, Zenon
<1>2. CASE a \notin S
    <2>1. S \cap {a} = {}
        BY <1>2, Zenon
    <2> QED
        BY <1>2, <2>1, FS_EmptySet, Zenon
<1> QED
    BY <1>1, <1>2, Zenon

\* The entries that memory_unref() drops from a root can be counted.
LEMMA KidsFinite ==
    ASSUME RefInv, NEW a
    PROVE  IsFiniteSet(Kids(a)) /\ Cardinality(Kids(a)) \in Nat
<1>1. Kids(a) \subseteq Address
    BY Zenon DEF RefInv, TableInv, Kids
<1> QED
    BY <1>1, FiniteAddresses, Zenon

\* RefcountExact without the sets: the references of an entry are its own zone,
\* the call that is to be made and the entries below it.
LEMMA Exact ==
    ASSUME RefInv, NEW a \in DOMAIN refcount
    PROVE  refcount[a] = (IF a \in zones THEN 1 ELSE 0) + (IF a = unref THEN 1 ELSE 0)
                         + Cardinality(Kids(a))
<1>1. refcount[a] = Cardinality(zones \cap {a}) + Cardinality({unref} \cap {a})
                    + Cardinality(Kids(a))
    BY Zenon DEF RefInv, RefcountExact, Kids
<1>2. Cardinality(zones \cap {a}) = IF a \in zones THEN 1 ELSE 0
    BY Bit, Zenon
<1>3. Cardinality({unref} \cap {a}) = IF a \in {unref} THEN 1 ELSE 0
    BY Bit, Zenon
<1> QED
    BY <1>1, <1>2, <1>3, Zenon

\* The same for the table after a step.
LEMMA ExactNext ==
    ASSUME \A a \in DOMAIN refcount' :
               refcount'[a] = (IF a \in zones' THEN 1 ELSE 0) + (IF a = unref' THEN 1 ELSE 0)
                              + Cardinality(Kids(a)')
    PROVE  RefcountExact'
<1> SUFFICES ASSUME NEW a \in DOMAIN refcount'
             PROVE  refcount'[a] = Cardinality(zones' \cap {a}) + Cardinality({unref'} \cap {a})
                                   + Cardinality(Kids(a)')
    BY Zenon DEF RefcountExact, Kids
<1>2. Cardinality(zones' \cap {a}) = IF a \in zones' THEN 1 ELSE 0
    BY Bit, Zenon
<1>3. Cardinality({unref'} \cap {a}) = IF a \in {unref'} THEN 1 ELSE 0
    BY Bit, Zenon
<1> QED
    BY <1>2, <1>3, Zenon

\* An entry that has a reference, but neither a zone nor a call, is the root of
\* an entry.
LEMMA HasKid ==
    ASSUME RefInv, NEW a \in DOMAIN refcount, refcount[a] > 0, a \notin zones, a # unref
    PROVE  \E b \in DOMAIN refcount : root_ptr[b] = a /\ refcount[b] > 0
<1>1. Cardinality(Kids(a)) > 0
    BY Exact, KidsFinite DEF RefInv, TableInv
<1>2. Kids(a) # {}
    BY <1>1, FS_EmptySet
<1> QED
    BY <1>2, Zenon DEF Kids

\* Nothing refers to an entry whose last reference memory_unref() has dropped.
LEMMA NoReference ==
    ASSUME RefInv, NEW a \in DOMAIN refcount, refcount[a] = 0
    PROVE  /\ a \notin zones /\ a # unref
           /\ \A b \in DOMAIN refcount : refcount[b] > 0 => root_ptr[b] # a
<1>1. Cardinality(Kids(a)) = 0 /\ a \notin zones /\ a # unref
    BY Exact, KidsFinite
<1>2. Kids(a) = {}
    BY <1>1, KidsFinite, FS_EmptySet, Zenon
<1> QED
    BY <1>1, <1>2, Zenon DEF Kids

-----------------------------------------------------------------------------
(* The table of memory zones *)

\* memory_wrap() keeps the table consistent: a new entry counts as a reference
\* on its root, which is registered.
LEMMA WrapRef ==
    ASSUME RefInv, ~Calling, NEW S, NEW owns, NEW root, S \subseteq Address,
           root \in DOMAIN refcount \cup {NULL}, memory_wrap(S, owns, root), unref' = unref
    PROVE  RefInv'
<1> DEFINE new == S \ DOMAIN refcount
<1>1. /\ DOMAIN refcount' = DOMAIN refcount \cup new /\ DOMAIN root_ptr' = DOMAIN refcount'
      /\ zones' = zones \cup new
      /\ owned' \subseteq owned \cup new
      /\ \A a \in DOMAIN refcount : a # root => refcount'[a] = refcount[a]
      /\ \A a \in DOMAIN refcount : a = root => refcount'[a] = refcount[a] + Cardinality(new)
      /\ \A a \in new : refcount'[a] = 1 /\ root_ptr'[a] = root
      /\ \A a \in DOMAIN refcount : root_ptr'[a] = root_ptr[a]
    BY Zenon DEF memory_wrap
<1>2. /\ \A a \in DOMAIN refcount : refcount[a] \in Nat /\ refcount[a] > 0
      /\ unref = NULL /\ unref' = NULL
    <2>1. unref = NULL /\ \A a \in DOMAIN refcount : refcount[a] # 0
        BY Zenon DEF Calling
    <2> QED
        BY <2>1 DEF RefInv, TableInv
<1>3. new \subseteq Address /\ new \cap DOMAIN refcount = {} /\ NULL \notin new
    BY NullAddress, Zenon
<1>4. IsFiniteSet(new) /\ Cardinality(new) \in Nat
    BY <1>3, FiniteAddresses, Zenon
<1> HIDE DEF new
<1>5. TableInv'
    BY <1>1, <1>2, <1>3, <1>4 DEF RefInv, TableInv
<1>6. \A a \in DOMAIN refcount' : refcount'[a] > 0
    BY <1>1, <1>2, <1>4
<1>7. ASSUME NEW a \in DOMAIN refcount'
      PROVE  refcount'[a] = (IF a \in zones' THEN 1 ELSE 0) + (IF a = unref' THEN 1 ELSE 0)
                            + Cardinality(Kids(a)')
    <2>1. a # NULL
        BY <1>1, <1>3, NullAddress, Zenon DEF RefInv, TableInv
    <2>2. CASE a \in new
        <3>1. Kids(a)' = {}
            BY <1>1, <1>2, <1>3, <2>1, <2>2 DEF Kids, RefInv, TableInv
        <3>2. Cardinality(Kids(a)') = 0
            BY <3>1, FS_EmptySet, Zenon
        <3> QED
            BY <1>1, <1>2, <2>1, <2>2, <3>2
    <2>3. CASE a \in DOMAIN refcount /\ a # root
        <3>1. Kids(a)' = Kids(a)
            BY <1>1, <1>2, <1>3, <1>6, <2>3, Zenon DEF Kids
        <3>2. a \in zones' <=> a \in zones
            BY <1>1, <1>3, <2>3, Zenon
        <3> QED
            BY <1>1, <1>2, <2>3, <3>1, <3>2, Exact, Zenon
    <2>4. CASE a \in DOMAIN refcount /\ a = root
        <3>1. Kids(a)' = Kids(a) \cup new
            BY <1>1, <1>2, <1>3, <1>6, <2>4, Zenon DEF Kids
        <3>2. Kids(a) \cap new = {}
            BY <1>3, Zenon DEF Kids
        <3>3. Cardinality(Kids(a) \cup new) = Cardinality(Kids(a)) + Cardinality(new)
            <4>1. IsFiniteSet(Kids(a)) /\ Cardinality(Kids(a)) \in Nat
                BY KidsFinite, Zenon
            <4>2. Cardinality(Kids(a) \cup new)
                  = Cardinality(Kids(a)) + Cardinality(new) - Cardinality(Kids(a) \cap new)
                BY <1>4, <4>1, FS_Union, Zenon
            <4>3. Cardinality(Kids(a) \cap new) = 0
                BY <3>2, FS_EmptySet, Zenon
            <4> QED
                BY <1>4, <4>1, <4>2, <4>3
        <3>4. a \in zones' <=> a \in zones
            BY <1>1, <1>3, <2>4, Zenon
        <3> QED
            BY <1>1, <1>2, <1>4, <2>4, <3>1, <3>3, <3>4, Exact, KidsFinite
    <2> QED
        BY <1>1, <2>2, <2>3, <2>4, Zenon
<1>8. RefcountExact'
    BY <1>7, ExactNext, Zenon
<1>9. Acyclic'
    <2> SUFFICES ASSUME NEW T \in SUBSET DOMAIN refcount', T # {}
                 PROVE  \E a \in T : \A b \in T : root_ptr'[b] # a
        BY Zenon DEF Acyclic
    <2>1. CASE T \cap new # {}
        <3>1. PICK a \in T : a \in new
            BY <2>1, Zenon
        <3>2. ASSUME NEW b \in T
              PROVE  root_ptr'[b] # a
            BY <1>1, <1>2, <1>3, <3>1 DEF RefInv, TableInv
        <3> QED
            BY <3>2, Zenon
    <2>2. CASE T \cap new = {}
        <3>1. T \subseteq DOMAIN refcount
            BY <1>1, <2>2, Zenon
        <3>2. PICK a \in T : \A b \in T : root_ptr[b] # a
            BY <3>1, Zenon DEF RefInv, Acyclic
        <3> QED
            BY <1>1, <3>1, <3>2, Zenon
    <2> QED
        BY <2>1, <2>2, Zenon
<1> QED
    BY <1>5, <1>8, <1>9, Zenon DEF RefInv

\* memory_unref() keeps the table consistent, up to the call for the root: the
\* entry that goes is counted by the call instead.
LEMMA UnrefRef ==
    ASSUME RefInv, NEW a \in DOMAIN refcount, refcount[a] > 0,
           refcount' = [refcount EXCEPT ![a] = @ - 1],
           unref' = IF refcount[a] > 1 THEN NULL ELSE root_ptr[a],
           root_ptr' = root_ptr, owned' = owned, zones' \subseteq zones,
           \A x \in DOMAIN refcount :
               refcount[x] = (IF x \in zones' THEN 1 ELSE 0) + (IF x = a THEN 1 ELSE 0)
                             + Cardinality(Kids(x))
    PROVE  RefInv'
<1>1. /\ DOMAIN refcount' = DOMAIN refcount
      /\ refcount'[a] = refcount[a] - 1
      /\ \A x \in DOMAIN refcount : x # a => refcount'[x] = refcount[x]
    BY Zenon
<1>2. \A x \in DOMAIN refcount : refcount[x] \in Nat
    BY Zenon DEF RefInv, TableInv
<1>3. a # NULL /\ \A x \in DOMAIN refcount : x # NULL
    BY NullAddress, Zenon DEF RefInv, TableInv
<1>4. TableInv'
    BY <1>1, <1>2 DEF RefInv, TableInv
<1>5. Acyclic'
    BY <1>1, Zenon DEF RefInv, Acyclic
<1>6. ASSUME NEW x \in DOMAIN refcount'
      PROVE  refcount'[x] = (IF x \in zones' THEN 1 ELSE 0) + (IF x = unref' THEN 1 ELSE 0)
                            + Cardinality(Kids(x)')
    <2>1. x \in DOMAIN refcount /\ x # NULL /\ IsFiniteSet(Kids(x)) /\ Cardinality(Kids(x)) \in Nat
        BY <1>1, <1>3, KidsFinite, Zenon
    <2>2. CASE refcount[a] > 1
        <3>1. Kids(x)' = Kids(x)
            BY <1>1, <1>2, <2>2 DEF Kids
        <3> QED
            BY <1>1, <1>2, <2>1, <2>2, <3>1
    <2>3. CASE refcount[a] = 1 /\ root_ptr[a] # x
        <3>1. Kids(x)' = Kids(x)
            BY <1>1, <1>2, <2>3, Zenon DEF Kids
        <3>2. unref' # x
            BY <2>3
        <3> QED
            BY <1>1, <1>2, <2>1, <2>3, <3>1, <3>2
    <2>4. CASE refcount[a] = 1 /\ root_ptr[a] = x
        <3>1. Kids(x)' = Kids(x) \ {a} /\ a \in Kids(x)
            BY <1>1, <1>2, <2>4 DEF Kids
        <3>2. Cardinality(Kids(x)') = Cardinality(Kids(x)) - 1
            BY <2>1, <3>1, FS_RemoveElement, Zenon
        <3>3. unref' = x
            BY <2>4
        <3> QED
            BY <1>1, <1>2, <2>1, <2>4, <3>2, <3>3
    <2> QED
        BY <1>2, <2>2, <2>3, <2>4
<1>7. RefcountExact'
    BY <1>6, ExactNext, Zenon
<1> QED
    BY <1>4, <1>5, <1>7, Zenon DEF RefInv

\* The end of memory_unref() keeps the table consistent: nothing refers to the
\* entry that is erased.
LEMMA DeregisterRef ==
    ASSUME RefInv, NEW a \in DOMAIN refcount, Deregister(a)
    PROVE  RefInv'
<1>1. /\ DOMAIN refcount' = DOMAIN refcount \ {a} /\ DOMAIN root_ptr' = DOMAIN refcount'
      /\ \A x \in DOMAIN refcount' : refcount'[x] = refcount[x] /\ root_ptr'[x] = root_ptr[x]
      /\ owned' = owned \ {a} /\ zones' = zones /\ unref' = unref /\ refcount[a] = 0
    BY Zenon DEF Deregister, Drop, RefInv, TableInv
<1>2. /\ a \notin zones /\ a # unref
      /\ \A b \in DOMAIN refcount : refcount[b] > 0 => root_ptr[b] # a
    BY <1>1, NoReference, Zenon
<1>3. TableInv'
    BY <1>1, <1>2, Zenon DEF RefInv, TableInv
<1>4. Acyclic'
    BY <1>1 DEF RefInv, Acyclic
<1>5. ASSUME NEW x \in DOMAIN refcount'
      PROVE  refcount'[x] = (IF x \in zones' THEN 1 ELSE 0) + (IF x = unref' THEN 1 ELSE 0)
                            + Cardinality(Kids(x)')
    <2>1. Kids(x)' = Kids(x)
        BY <1>1 DEF Kids
    <2> QED
        BY <1>1, <2>1, Exact, Zenon
<1>6. RefcountExact'
    BY <1>5, ExactNext, Zenon
<1> QED
    BY <1>3, <1>4, <1>6, Zenon DEF RefInv

-----------------------------------------------------------------------------
(* Blocks and values *)

\* When no call of memory_unref() is left, every entry has a reference.
LEMMA NoCall ==
    ASSUME RefInv, ~Calling
    PROVE  /\ unref = NULL /\ Owners = owned
           /\ \A a \in DOMAIN refcount : refcount[a] \in Nat /\ refcount[a] > 0
<1>1. unref = NULL /\ \A a \in DOMAIN refcount : refcount[a] # 0
    BY Zenon DEF Calling
<1>2. \A a \in DOMAIN refcount : refcount[a] \in Nat /\ refcount[a] > 0
    BY <1>1 DEF RefInv, TableInv
<1> QED
    BY <1>1, <1>2, Zenon DEF Owners, RefInv, TableInv

\* A block holds the cell at its own address.
LEMMA OwnCell ==
    ASSUME BlockInv, NEW b \in DOMAIN heap
    PROVE  b \in Block(b)
<1>1. b \in Nat /\ heap[b] \in Nat /\ heap[b] > 0
    BY MemoryAssumption DEF BlockInv, Address
<1> QED
    BY <1>1 DEF Block

\* Two blocks that share a cell are the same.
LEMMA SharedCell ==
    ASSUME BlockInv, NEW b \in DOMAIN heap, NEW c \in DOMAIN heap, NEW x, x \in Block(b), x \in Block(c)
    PROVE  b = c
    BY Zenon DEF BlockInv

\* The buffer of a vector and an object share no cell.
LEMMA NoObjectInBuffer ==
    ASSUME BlockInv, NEW b \in Buffers, NEW c \in Objects
    PROVE  b \in DOMAIN heap /\ c \in DOMAIN heap /\ \A x \in Block(b) : x \notin Block(c)
<1>1. b \in DOMAIN heap /\ c \in DOMAIN heap /\ b # c
    BY Zenon DEF BlockInv
<1> QED
    BY <1>1, SharedCell, Zenon

\* The buffer of a vector has the cells of as many elements as its capacity
LEMMA BufferCells ==
    ASSUME BlockInv, VecInv, NEW a \in DOMAIN vec, NEW i \in 1..vec[a].cap
    PROVE  /\ vec[a].buf \in Buffers /\ vec[a].buf \in DOMAIN heap
           /\ ElementAddress(vec[a], i) \in Block(vec[a].buf)
           /\ ElementAddress(vec[a], i) + 1 \in Block(vec[a].buf)
<1> DEFINE x == vec[a]
<1>1. /\ x.buf \in Address \cup {NULL} /\ x.len \in Nat /\ x.cap \in Nat /\ x.len <= x.cap
      /\ x.buf = NULL => x.cap = 0
      /\ x.buf # NULL => heap[x.buf] = 2 * x.cap
    BY Zenon DEF VecInv
<1>2. x.buf # NULL
    BY <1>1
<1>3. x.buf \in Buffers /\ x.buf \in DOMAIN heap
    BY <1>2, Zenon DEF Buffers, BlockInv
<1>4. x.buf \in Nat /\ heap[x.buf] = 2 * x.cap
    BY <1>1, <1>2, MemoryAssumption DEF Address
<1> HIDE DEF x
<1>5. i \in Nat /\ 1 <= i /\ i <= x.cap
    BY <1>1 DEF x
<1> QED
    BY <1>1, <1>3, <1>4, <1>5 DEF Block, ElementAddress, x

\* The cells of an element are in the buffer of the vector
LEMMA ElementCells ==
    ASSUME BlockInv, VecInv, NEW a \in DOMAIN vec, NEW i \in 1..vec[a].len
    PROVE  /\ vec[a].buf \in Buffers /\ vec[a].buf \in DOMAIN heap
           /\ ElementAddress(vec[a], i) \in Block(vec[a].buf)
           /\ ElementAddress(vec[a], i) + 1 \in Block(vec[a].buf)
<1>1. vec[a].len \in Nat /\ vec[a].cap \in Nat /\ vec[a].len <= vec[a].cap
    BY Zenon DEF VecInv
<1>2. i \in 1..vec[a].cap
    BY <1>1
<1> QED
    BY <1>2, BufferCells, Zenon

\* The cells of a block are addresses.
LEMMA BlockAddress ==
    ASSUME BlockInv, NEW b \in DOMAIN heap, NEW x \in Block(b)
    PROVE  x \in Address /\ x \in Cells
<1>1. x \in Cells
    BY Zenon DEF Cells
<1>2. b \in Nat /\ b >= 1 /\ heap[b] \in Nat /\ b + heap[b] - 1 <= MaxAddr
    BY MemoryAssumption DEF BlockInv, Address
<1>3. x \in Address
    BY <1>2, MemoryAssumption DEF Block, Address
<1> QED
    BY <1>1, <1>3, Zenon

\* The cells of a structure are in a block: that of the toplevel value, or the buffer
\* of its vector
LEMMA ToplevelCells ==
    ASSUME BlockInv, ValueInv, NEW v \in DOMAIN parent, Toplevel(v)
    PROVE  /\ v[2] \in DOMAIN heap /\ v[2] \in Objects /\ v[2] \in Block(v[2])
           /\ v[1] = "P" => v[2] + 1 \in Block(v[2])
<1>1. v[2] \in DOMAIN heap /\ v[2] \in Objects /\ heap[v[2]] = Size(v[1])
    BY Zenon DEF Toplevel, BlockInv
<1>2. v[2] \in Block(v[2])
    BY <1>1, OwnCell, Zenon
<1>3. ASSUME v[1] = "P"
      PROVE  v[2] + 1 \in Block(v[2])
    <2>1. heap[v[2]] = 2
        BY <1>1, <1>3, Zenon DEF Size
    <2>2. v[2] \in Nat
        BY <1>1, MemoryAssumption DEF BlockInv, Address
    <2> QED
        BY <2>1, <2>2 DEF Block
<1> QED
    BY <1>1, <1>2, <1>3, Zenon

\* An element of a vector (container_do_get()) has its parent among the
\* toplevel values, and its cells in the buffer of that vector.
LEMMA ElementHome ==
    ASSUME BlockInv, VecInv, ValueInv, NEW v \in DOMAIN parent, Element(v)
    PROVE  LET x == vec[parent[v][2]]
           IN  /\ parent[v] \in DOMAIN parent /\ Toplevel(parent[v]) /\ parent[v][1] = "V"
               /\ parent[v][2] \in DOMAIN vec /\ v[1] = "P"
               /\ \E i \in 1..x.len : v[2] = ElementAddress(x, i)
               /\ x.buf \in Buffers /\ x.buf \in DOMAIN heap
               /\ v[2] \in Block(x.buf) /\ v[2] + 1 \in Block(x.buf)
<1> DEFINE u == parent[v]
<1>1. /\ u \in DOMAIN parent /\ u[1] = "V" /\ v[1] = "P"
      /\ \E i \in 1..vec[u[2]].len : v[2] = ElementAddress(vec[u[2]], i)
    BY Zenon DEF Element
<1>2. Toplevel(u)
    BY <1>1, Zenon DEF ValueInv, ValueForm, Element, Field
<1>3. u[2] \in DOMAIN vec
    BY <1>1, <1>2, Zenon DEF Toplevel
<1>4. PICK i \in 1..vec[u[2]].len : v[2] = ElementAddress(vec[u[2]], i)
    BY <1>1, Zenon
<1>5. /\ vec[u[2]].buf \in Buffers /\ vec[u[2]].buf \in DOMAIN heap
      /\ v[2] \in Block(vec[u[2]].buf) /\ v[2] + 1 \in Block(vec[u[2]].buf)
    BY <1>3, <1>4, ElementCells, Zenon
<1> QED
    BY <1>1, <1>2, <1>3, <1>5, Zenon

\* A field (compound_field_get()) is in a structure that is a toplevel value or
\* an element.
LEMMA FieldHome ==
    ASSUME ValueInv, NEW v \in DOMAIN parent, Field(v)
    PROVE  /\ parent[v] \in DOMAIN parent /\ (Toplevel(parent[v]) \/ Element(parent[v]))
           /\ parent[v][1] = "P" /\ v[2] \in {parent[v][2], parent[v][2] + 1}
    BY Zenon DEF ValueInv, ValueForm, Field

\* Two elements that share a cell are the same
LEMMA SameElement ==
    ASSUME BlockInv, VecInv, ValueInv, NEW v \in DOMAIN parent, NEW w \in DOMAIN parent,
           Element(v), Element(w), NEW c, c \in {v[2], v[2] + 1}, c \in {w[2], w[2] + 1}
    PROVE  v = w /\ parent[v] = parent[w]
<1> DEFINE x == vec[parent[v][2]]
           y == vec[parent[w][2]]
<1>1. /\ parent[v] \in DOMAIN parent /\ parent[v][1] = "V" /\ parent[v][2] \in DOMAIN vec
      /\ x.buf \in Buffers /\ x.buf \in DOMAIN heap /\ c \in Block(x.buf) /\ v[1] = "P"
    BY ElementHome, ZenonT(60)
<1>2. /\ parent[w] \in DOMAIN parent /\ parent[w][1] = "V" /\ parent[w][2] \in DOMAIN vec
      /\ y.buf \in Buffers /\ y.buf \in DOMAIN heap /\ c \in Block(y.buf) /\ w[1] = "P"
    BY ElementHome, ZenonT(60)
<1>3. x.buf = y.buf
    BY <1>1, <1>2, SharedCell, Zenon
<1>4. parent[v][2] = parent[w][2]
    BY <1>1, <1>2, <1>3, Zenon DEF VecInv, Buffers
<1>5. parent[v] = parent[w]
    BY <1>1, <1>2, <1>4 DEF ValueInv
<1>6. PICK i \in 1..x.len : v[2] = ElementAddress(x, i)
    BY ElementHome, Zenon
<1>7. PICK j \in 1..x.len : w[2] = ElementAddress(x, j)
    BY <1>4, ElementHome
<1>8. x.buf \in Nat /\ x.len \in Nat
    BY <1>1, MemoryAssumption DEF VecInv, BlockInv, Address
<1>9. v[2] = w[2]
    <2> HIDE DEF x
    <2>1. v[2] = x.buf + 2 * (i - 1) /\ w[2] = x.buf + 2 * (j - 1)
        BY <1>6, <1>7, Zenon DEF ElementAddress
    <2> QED
        BY <1>8, <2>1
<1> QED
    BY <1>1, <1>2, <1>5, <1>9 DEF ValueInv

\* A value at the address of an element or of its fields is one of them
LEMMA SharedValue ==
    ASSUME BlockInv, VecInv, ValueInv, NEW v \in DOMAIN parent, NEW w \in DOMAIN parent,
           v[2] = w[2], NEW e \in DOMAIN parent, Element(e), w = e \/ parent[w] = e
    PROVE  v = e \/ parent[v] = e
<1>1. /\ e[1] = "P" /\ vec[parent[e][2]].buf \in Buffers
      /\ e[2] \in Block(vec[parent[e][2]].buf) /\ e[2] + 1 \in Block(vec[parent[e][2]].buf)
    BY ElementHome, Zenon
<1>2. w[2] \in {e[2], e[2] + 1}
    <2>1. CASE w = e
        BY <2>1, Zenon
    <2>2. CASE parent[w] = e
        <3>1. parent[w] # NoValue /\ e[1] # "V"
            BY <1>1, <2>2 DEF NoValue
        <3>2. Field(w)
            BY <2>2, <3>1, Zenon DEF ValueInv, ValueForm, Toplevel, Element
        <3> QED
            BY <2>2, <3>2, Zenon DEF Field
    <2> QED
        BY <2>1, <2>2, Zenon
<1>3. v[2] \in Block(vec[parent[e][2]].buf)
    BY <1>1, <1>2, Zenon
<1>4. CASE Toplevel(v)
    <2>1. v[2] \in Objects /\ v[2] \in Block(v[2])
        BY <1>4, ToplevelCells, Zenon
    <2> QED
        BY <1>1, <1>3, <2>1, NoObjectInBuffer, Zenon
<1>5. CASE Element(v)
    BY <1>2, <1>5, SameElement, Zenon
<1>6. CASE Field(v)
    <2> DEFINE p == parent[v]
    <2>1. p \in DOMAIN parent /\ p[1] = "P" /\ v[2] \in {p[2], p[2] + 1}
        BY <1>6, FieldHome, Zenon
    <2>2. CASE Toplevel(p)
        <3>1. p[2] \in Objects /\ v[2] \in Block(p[2])
            BY <2>1, <2>2, ToplevelCells, Zenon
        <3> QED
            BY <1>1, <1>3, <3>1, NoObjectInBuffer, Zenon
    <2>3. CASE Element(p)
        BY <1>2, <2>1, <2>3, SameElement
    <2> QED
        BY <1>6, <2>2, <2>3, FieldHome, Zenon
<1> QED
    BY <1>4, <1>5, <1>6, Zenon DEF ValueInv, ValueForm

\* The children of a vector are elements
LEMMA ChildrenElements ==
    ASSUME ValueInv, NEW v \in DOMAIN parent, v[1] = "V", NEW c \in Children(v)
    PROVE  c \in DOMAIN parent /\ parent[c] = v /\ Element(c)
<1>1. c \in DOMAIN parent /\ parent[c] = v
    BY Zenon DEF Children
<1>2. v # NoValue /\ v[1] # "P"
    BY DEF NoValue
<1> QED
    BY <1>1, <1>2, Zenon DEF ValueInv, ValueForm, Toplevel, Field

\* What handle_container_invalidation leaves is not at the address of a zone
\* that it invalidates, and keeps its parent.
LEMMA Invalidated ==
    ASSUME BlockInv, VecInv, ValueInv, NEW cs, \A c \in cs : c \in DOMAIN parent /\ Element(c),
           InvalidateChildren(cs)
    PROVE  \A v \in DOMAIN parent' : /\ v \in DOMAIN parent /\ parent'[v] = parent[v]
                                     /\ v \notin cs /\ parent[v] \notin cs
                                     /\ v[2] \notin invalid'
                                     /\ parent[v] \in DOMAIN parent => parent[v] \in DOMAIN parent'
<1> DEFINE gone == {w \in DOMAIN parent : w \in cs \/ parent[w] \in cs}
<1>1. /\ DOMAIN parent' = DOMAIN parent \ gone
      /\ \A v \in DOMAIN parent' : parent'[v] = parent[v]
      /\ invalid' = {w[2] : w \in gone}
    BY Zenon DEF InvalidateChildren, Drop
<1> SUFFICES ASSUME NEW v \in DOMAIN parent'
             PROVE  /\ v \in DOMAIN parent /\ parent'[v] = parent[v]
                    /\ v \notin cs /\ parent[v] \notin cs
                    /\ v[2] \notin invalid'
                    /\ parent[v] \in DOMAIN parent => parent[v] \in DOMAIN parent'
    BY Zenon
<1>2. v \in DOMAIN parent /\ parent'[v] = parent[v] /\ v \notin cs /\ parent[v] \notin cs
    BY <1>1, Zenon
<1>3. v[2] \notin invalid'
    <2> SUFFICES ASSUME NEW w \in gone, w[2] = v[2]
                 PROVE  FALSE
        BY <1>1, Zenon
    <2>1. PICK e \in cs : w = e \/ parent[w] = e
        BY Zenon
    <2>2. v = e \/ parent[v] = e
        BY <1>2, <2>1, SharedValue, Zenon
    <2> QED
        BY <1>2, <2>1, <2>2, Zenon
<1>4. ASSUME parent[v] \in DOMAIN parent, parent[v] \in gone
      PROVE  FALSE
    <2>1. parent[v] # NoValue /\ parent[v][1] \in {"V", "P"}
        BY <1>2, <1>4 DEF ValueInv, ValueForm, Toplevel, Element, Field, NoValue
    <2>2. parent[parent[v]] \in cs
        BY <1>2, <1>4, Zenon
    <2>3. parent[parent[v]][1] = "P"
        BY <2>2, Zenon DEF Element
    <2>4. Field(parent[v])
        BY <1>4, <2>3 DEF ValueInv, ValueForm, Toplevel, Element, NoValue
    <2> QED
        BY <2>1, <2>4, Zenon DEF Field
<1> QED
    BY <1>1, <1>2, <1>3, <1>4, Zenon

\* A value that stays
LEMMA ValueKept ==
    ASSUME NEW v \in DOMAIN parent, ValueForm(v), v \in DOMAIN parent', parent'[v] = parent[v],
           parent[v] \in DOMAIN parent =>
               parent[v] \in DOMAIN parent' /\ parent'[parent[v]] = parent[parent[v]],
           Toplevel(v) =>
               v[2] \in Objects' /\ heap'[v[2]] = heap[v[2]] /\ (v[2] \in DOMAIN vec => v[2] \in DOMAIN vec'),
           Element(v) =>
               \E i \in 1..vec'[parent[v][2]].len : v[2] = ElementAddress(vec'[parent[v][2]], i)
    PROVE  ValueForm(v)'
<1>1. CASE Toplevel(v)
    BY <1>1, SMTT(20) DEF Toplevel, ValueForm
<1>2. CASE Element(v)
    BY <1>2, Zenon DEF Element, ValueForm
<1>3. CASE Field(v)
    BY <1>3, Zenon DEF Field, ValueForm
<1> QED
    BY <1>1, <1>2, <1>3, Zenon DEF ValueForm

-----------------------------------------------------------------------------
(* Vectors that change *)

\* A vector is a toplevel value
LEMMA VectorValue ==
    ASSUME ValueInv, NEW v \in DOMAIN parent, v[1] = "V"
    PROVE  Toplevel(v) /\ v[2] \in DOMAIN vec /\ v[2] \in Objects
    BY Zenon DEF ValueInv, ValueForm, Toplevel, Element, Field

\* A vector that changes keeps every other value as it is, and its own children
\* that are still elements.
LEMMA ValuesChanged ==
    ASSUME BlockInv, VecInv, ValueInv, NEW v \in DOMAIN parent, v[1] = "V", NEW after, NEW cs,
           cs \subseteq Children(v), Children(v) \ cs \subseteq Elements(after, after.len),
           InvalidateChildren(cs), vec' = [vec EXCEPT ![v[2]] = after],
           Objects' = Objects, \A a \in Objects : heap'[a] = heap[a], zones \subseteq zones'
    PROVE  ValueInv'
<1>1. \A c \in cs : c \in DOMAIN parent /\ Element(c)
    BY ChildrenElements, Zenon
<1>2. \A w \in DOMAIN parent' : /\ w \in DOMAIN parent /\ parent'[w] = parent[w]
                                /\ w \notin cs /\ parent[w] \notin cs
                                /\ w[2] \notin invalid'
                                /\ parent[w] \in DOMAIN parent => parent[w] \in DOMAIN parent'
    BY <1>1, Invalidated, Zenon
<1>3. v[2] \in DOMAIN vec
    BY VectorValue, SMTT(20)
<1>4. ASSUME NEW w \in DOMAIN parent'
      PROVE  ValueForm(w)'
    <2>1. w \in DOMAIN parent /\ parent'[w] = parent[w] /\ ValueForm(w)
        BY <1>2, Zenon DEF ValueInv
    <2>2. parent[w] \in DOMAIN parent =>
              parent[w] \in DOMAIN parent' /\ parent'[parent[w]] = parent[parent[w]]
        BY <1>2, Zenon
    <2>3. Toplevel(w) =>
              w[2] \in Objects' /\ heap'[w[2]] = heap[w[2]] /\ (w[2] \in DOMAIN vec => w[2] \in DOMAIN vec')
        BY SMTT(20) DEF Toplevel
    <2>4. ASSUME Element(w)
          PROVE  \E i \in 1..vec'[parent[w][2]].len : w[2] = ElementAddress(vec'[parent[w][2]], i)
        <3>1. CASE parent[w][2] = v[2]
            <4>1. parent[w] = v
                BY <2>1, <2>4, <3>1 DEF Element, ValueInv
            <4>2. w \in Elements(after, after.len)
                BY <1>2, <2>1, <4>1, Zenon DEF Children
            <4>3. \E i \in 1..after.len : w[2] = ElementAddress(after, i)
                BY <4>2 DEF Elements
            <4> QED
                BY <1>3, <3>1, <4>3, Zenon
        <3>2. CASE parent[w][2] # v[2]
            <4>1. vec'[parent[w][2]] = vec[parent[w][2]]
                BY <2>1, <2>4, <3>2, ElementHome, Zenon
            <4> QED
                BY <2>4, <4>1, Zenon DEF Element
        <3> QED
            BY <3>1, <3>2, Zenon
    <2> QED
        BY <2>1, <2>2, <2>3, <2>4, ValueKept, Zenon
<1> QED
    BY <1>2, <1>4, Zenon DEF ValueInv

\* The children that handle_container_invalidation leaves are elements of the vector
LEMMA Survivors ==
    ASSUME NEW v, NEW after
    PROVE  LET cs == handle_container_invalidation(v, after)
           IN  cs \subseteq Children(v) /\ Children(v) \ cs \subseteq Elements(after, after.len)
    BY Zenon DEF handle_container_invalidation

\* The number of elements of a vector changes
LEMMA LengthChanged ==
    ASSUME VecInv, NEW a \in DOMAIN vec, NEW n \in Nat, n <= vec[a].cap,
           vec' = [vec EXCEPT ![a] = [vec[a] EXCEPT !.len = n]]
    PROVE  /\ DOMAIN vec' = DOMAIN vec
           /\ \A b \in DOMAIN vec :
                /\ vec'[b] \in [buf : Address \cup {NULL}, len : Nat, cap : Nat]
                /\ vec'[b].buf = vec[b].buf /\ vec'[b].cap = vec[b].cap /\ vec'[b].len <= vec[b].cap
    BY Zenon DEF VecInv

\* The blocks stay as they are when only lengths of vectors change and
\* references are added to entries.
LEMMA StoreKept ==
    ASSUME BlockInv, VecInv, KindInv,
           heap' = heap, stale' = stale, owned' = owned, types' = types,
           Owners' = Owners, Objects' = Objects, DOMAIN types \subseteq DOMAIN refcount,
           \A b \in DOMAIN refcount' : refcount'[b] > 0 => root_ptr'[b] \in Objects \cup {NULL},
           \A b \in DOMAIN refcount : refcount'[b] > 0 => refcount[b] > 0,
           DOMAIN vec' = DOMAIN vec,
           \A b \in DOMAIN vec :
               /\ vec'[b] \in [buf : Address \cup {NULL}, len : Nat, cap : Nat]
               /\ vec'[b].buf = vec[b].buf /\ vec'[b].cap = vec[b].cap /\ vec'[b].len <= vec[b].cap
    PROVE  BlockInv' /\ VecInv' /\ KindInv'
<1>1. Buffers' = Buffers
    BY ZenonT(60) DEF Buffers
<1>2. \A b : Block(b)' = Block(b)
    BY Zenon DEF Block
<1>3. BlockInv'
    BY <1>1, <1>2, Zenon DEF BlockInv
<1>4. VecInv'
    BY Zenon DEF VecInv
<1>5. KindInv'
    BY Zenon DEF KindInv
<1> QED
    BY <1>3, <1>4, <1>5, Zenon

-----------------------------------------------------------------------------
(* Memory that is wrapped *)

\* The layouts stay counted when none is taken or released.
LEMMA LayoutsKept ==
    ASSUME LayoutsCounted, types' = types, layouts' = layouts, DOMAIN refcount \subseteq DOMAIN refcount'
    PROVE  LayoutsCounted'
    BY Zenon DEF LayoutsCounted

\* The toplevel value of a value
LEMMA RootValue ==
    ASSUME ValueInv, NEW v \in DOMAIN parent
    PROVE  /\ value_root(v) \in DOMAIN parent /\ Toplevel(value_root(v))
           /\ value_root_ptr(v) \in Objects /\ value_root_ptr(v) \in zones
<1>1. NoValue \notin DOMAIN parent
    BY Zenon DEF ValueInv, NoValue
<1>2. value_root(v) \in DOMAIN parent /\ Toplevel(value_root(v))
    <2>1. CASE Toplevel(v)
        BY <2>1, Zenon DEF value_root, Toplevel
    <2>2. CASE Element(v)
        <3>1. parent[v] \in DOMAIN parent /\ parent[parent[v]] = NoValue
            BY <2>2, Zenon DEF Element
        <3>2. Toplevel(parent[v])
            BY <1>1, <3>1, Zenon DEF ValueInv, ValueForm, Element, Field
        <3> QED
            BY <1>1, <3>1, <3>2, Zenon DEF value_root
    <2>3. CASE Field(v)
        <3>1. parent[v] \in DOMAIN parent /\ (Toplevel(parent[v]) \/ Element(parent[v]))
            BY <2>3, FieldHome, SMTT(20)
        <3>2. CASE Toplevel(parent[v])
            BY <1>1, <3>1, <3>2, Zenon DEF value_root, Toplevel
        <3>3. CASE Element(parent[v])
            <4>1. parent[parent[v]] \in DOMAIN parent /\ parent[parent[parent[v]]] = NoValue
                BY <3>3, Zenon DEF Element
            <4>2. Toplevel(parent[parent[v]])
                BY <1>1, <4>1, Zenon DEF ValueInv, ValueForm, Element, Field
            <4> QED
                BY <1>1, <3>1, <4>1, <4>2, Zenon DEF value_root
        <3> QED
            BY <3>1, <3>2, <3>3, Zenon
    <2> QED
        BY <2>1, <2>2, <2>3, Zenon DEF ValueInv, ValueForm
<1> QED
    BY <1>2, Zenon DEF value_root_ptr, Toplevel, ValueInv

\* memory_wrap() finds the zone of an address that it knows
LEMMA WrapNoError ==
    ASSUME RefInv, BlockInv, ~Calling, NEW S, NEW root, root \in DOMAIN refcount \cup {NULL},
           \A a \in S : a \in Objects => a \in zones
    PROVE  WrapErrors(S, root) = {} /\ S \subseteq zones \cup (S \ DOMAIN refcount)
<1>1. ASSUME NEW a \in S, a \in DOMAIN refcount, a \notin zones
      PROVE  FALSE
    <2>1. refcount[a] > 0 /\ a # NULL /\ a # unref
        BY <1>1, NoCall, NullAddress, Zenon DEF RefInv, TableInv
    <2>2. PICK b \in DOMAIN refcount : root_ptr[b] = a /\ refcount[b] > 0
        BY <1>1, <2>1, HasKid, Zenon
    <2>3. a \in Objects
        BY <2>1, <2>2, Zenon DEF BlockInv
    <2> QED
        BY <1>1, <2>3, Zenon
<1>2. S \subseteq zones \cup (S \ DOMAIN refcount)
    BY <1>1, Zenon
<1> QED
    BY <1>2, Zenon DEF WrapErrors, Error

\* An entry that does not own its memory is added
LEMMA WrapStore ==
    ASSUME RefInv, BlockInv, ~Calling, NEW S, NEW root, root \in Objects \cup {NULL},
           memory_wrap(S, FALSE, root), stale' = stale, S \subseteq zones \cup (S \ DOMAIN refcount),
           root \in DOMAIN refcount \cup {NULL}, S \subseteq Address
    PROVE  /\ owned' = owned /\ Owners' = Owners /\ Objects' = Objects
           /\ zones \subseteq zones' /\ S \subseteq zones' /\ DOMAIN refcount \subseteq DOMAIN refcount'
           /\ \A b \in DOMAIN refcount' : refcount'[b] > 0 => root_ptr'[b] \in Objects \cup {NULL}
           /\ \A b \in DOMAIN refcount : refcount'[b] > 0 => refcount[b] > 0
<1> DEFINE new == S \ DOMAIN refcount
<1>1. \A b \in DOMAIN refcount : refcount[b] \in Nat /\ refcount[b] > 0
    BY NoCall, Zenon
<1>2. /\ owned' = owned /\ zones' = zones \cup new
      /\ DOMAIN refcount' = DOMAIN refcount \cup new
      /\ \A a \in DOMAIN refcount : a # root => refcount'[a] = refcount[a]
      /\ \A a \in DOMAIN refcount : a = root => refcount'[a] = refcount[a] + Cardinality(new)
      /\ \A a \in new : root_ptr'[a] = root
      /\ \A a \in DOMAIN refcount : root_ptr'[a] = root_ptr[a]
    BY Zenon DEF memory_wrap
<1>3. Cardinality(new) \in Nat
    BY FiniteAddresses, Zenon
<1> HIDE DEF new
<1>4. \A b \in DOMAIN refcount : refcount'[b] > 0
    BY <1>1, <1>2, <1>3
<1>5. Owners' = Owners
    BY <1>1, <1>2, <1>4, Zenon DEF Owners, RefInv, TableInv
<1>6. Objects' = Objects
    BY <1>5, Zenon DEF Objects
<1>7. \A b \in DOMAIN refcount' : root_ptr'[b] \in Objects \cup {NULL}
    BY <1>1, <1>2, Zenon DEF BlockInv
<1>8. S \subseteq zones'
    BY <1>2, Zenon DEF new
<1> QED
    BY <1>1, <1>2, <1>5, <1>6, <1>7, <1>8, Zenon

\* A step that changes neither the tables nor the blocks nor the values
LEMMA MemoryKept ==
    ASSUME MemoryInv, UNCHANGED <<refcount, root_ptr, owned, zones, types, layouts, heap, vec,
                                  unref, parent, invalid, errors, stale>>
    PROVE  MemoryInv'
<1>1. RefInv'
    BY ZenonT(60) DEF MemoryInv, RefInv, TableInv, RefcountExact, Acyclic
<1>2. Owners' = Owners /\ Objects' = Objects /\ Buffers' = Buffers /\ \A b : Block(b)' = Block(b)
    BY Zenon DEF Owners, Objects, Buffers, Block
<1>3. BlockInv' /\ VecInv' /\ KindInv' /\ LayoutsCounted'
    <2>1. BlockInv'
        BY <1>2, Zenon DEF MemoryInv, BlockInv
    <2>2. VecInv'
        BY <1>2, Zenon DEF MemoryInv, VecInv
    <2>3. KindInv'
        BY <1>2, Zenon DEF MemoryInv, KindInv
    <2>4. LayoutsCounted'
        BY Zenon DEF MemoryInv, LayoutsCounted
    <2> QED
        BY <2>1, <2>2, <2>3, <2>4, Zenon
<1>4. ValueInv'
    BY <1>2, ZenonT(60) DEF MemoryInv, ValueInv, ValueForm, Toplevel, Element, Field
<1> QED
    BY <1>1, <1>3, <1>4, Zenon DEF MemoryInv

\* c is a field of v, or an element
ChildOf(v, c) ==
    \/ c[1] = "N" /\ v[1] = "P" /\ c[2] \in {v[2], v[2] + 1}
    \/ /\ c[1] = "P" /\ v[1] = "V"
       /\ \E i \in 1..vec[v[2]].len : c[2] = ElementAddress(vec[v[2]], i)

\* cxx2rb::value_wrap() of a field or of an element preserves MemoryInv.
LEMMA ChildWrapped ==
    ASSUME MemoryInv, ~Calling, invalid = {}, NEW v \in DOMAIN parent, NEW c \in {"P", "N"} \X Address,
           c[2] \in Objects => c[2] \in zones, value_wrap(v, c),
           heap' = heap, vec' = vec, types' = types, layouts' = layouts, unref' = unref,
           invalid' = invalid, stale' = stale,
           ChildOf(v, c)
    PROVE  MemoryInv'
<1>1. CASE c \in DOMAIN parent
    <2>1. UNCHANGED <<refcount, root_ptr, owned, zones, parent, errors>>
        BY <1>1, Zenon DEF value_wrap, tables, values
    <2> QED
        BY <2>1, MemoryKept, Zenon
<1>2. CASE c \notin DOMAIN parent
    <2> DEFINE r == value_root_ptr(v)
               S == {c[2]}
    <2>1. /\ memory_wrap(S, FALSE, r) /\ errors' = errors \cup WrapErrors(S, r)
          /\ parent' = Put(parent, c, v)
        BY <1>2, Zenon DEF value_wrap
    <2>2. r \in Objects /\ r \in DOMAIN refcount /\ S \subseteq Address
        BY RootValue, Zenon DEF MemoryInv, RefInv, TableInv
    <2>a. RefInv /\ BlockInv /\ (\A a \in S : a \in Objects => a \in zones) /\ unref' = unref /\ stale' = stale
        BY Zenon DEF MemoryInv
    <2> HIDE DEF r, S
    <2>3. WrapErrors(S, r) = {} /\ S \subseteq zones \cup (S \ DOMAIN refcount)
        BY <2>2, <2>a, WrapNoError, Zenon
    <2>4. RefInv'
        BY <2>1, <2>2, <2>a, WrapRef, Zenon
    <2>5. /\ owned' = owned /\ Owners' = Owners /\ Objects' = Objects
          /\ zones \subseteq zones' /\ S \subseteq zones' /\ DOMAIN refcount \subseteq DOMAIN refcount'
          /\ \A b \in DOMAIN refcount' : refcount'[b] > 0 => root_ptr'[b] \in Objects \cup {NULL}
          /\ \A b \in DOMAIN refcount : refcount'[b] > 0 => refcount[b] > 0
        BY <2>1, <2>2, <2>a, <2>3, WrapStore, Zenon
    <2>6. BlockInv' /\ VecInv' /\ KindInv'
        <3>1. BlockInv /\ VecInv /\ KindInv /\ DOMAIN types \subseteq DOMAIN refcount
            BY Zenon DEF MemoryInv, LayoutsCounted
        <3>2. \A b \in DOMAIN vec :
                  /\ vec'[b] \in [buf : Address \cup {NULL}, len : Nat, cap : Nat]
                  /\ vec'[b].buf = vec[b].buf /\ vec'[b].cap = vec[b].cap /\ vec'[b].len <= vec[b].cap
            BY <3>1, Zenon DEF VecInv
        <3> QED
            BY <2>5, <3>1, <3>2, StoreKept, Zenon
    <2>7. LayoutsCounted'
        BY <2>5, LayoutsKept, Zenon DEF MemoryInv
    <2>8. /\ DOMAIN parent' = DOMAIN parent \cup {c} /\ parent'[c] = v
          /\ \A w \in DOMAIN parent : parent'[w] = parent[w]
        BY <1>2, <2>1, SMTT(20) DEF Put
    <2>9. ASSUME NEW w \in DOMAIN parent
          PROVE  ValueForm(w)'
        <3>1. ValueForm(w)
            BY Zenon DEF MemoryInv, ValueInv
        <3>2. Toplevel(w) => w[2] \in Objects'
            BY <2>5, Zenon DEF Toplevel
        <3>3. Element(w) =>
                \E i \in 1..vec'[parent[w][2]].len : w[2] = ElementAddress(vec'[parent[w][2]], i)
            BY Zenon DEF Element
        <3> QED
            BY <2>8, <3>1, <3>2, <3>3, ValueKept, Zenon
    <2>10. ValueForm(c)'
        <3>1. CASE c[1] = "N"
            <4>1. v[1] = "P" /\ c[2] \in {v[2], v[2] + 1}
                BY <3>1, Zenon DEF ChildOf
            <4> QED
                BY <2>8, <3>1, <4>1, Zenon DEF ValueForm, Field
        <3>2. CASE c[1] = "P"
            <4>1. v[1] = "V" /\ \E i \in 1..vec[v[2]].len : c[2] = ElementAddress(vec[v[2]], i)
                BY <3>2, Zenon DEF ChildOf
            <4>2. parent[v] = NoValue
                BY <4>1, VectorValue, Zenon DEF MemoryInv, Toplevel
            <4> QED
                BY <2>8, <3>2, <4>1, <4>2, Zenon DEF ValueForm, Element
        <3> QED
            BY <3>1, <3>2, Zenon
    <2>11. ValueInv'
        BY <2>5, <2>8, <2>9, <2>10, Zenon DEF MemoryInv, ValueInv, S
    <2> QED
        BY <2>1, <2>3, <2>4, <2>6, <2>7, <2>11, Zenon DEF MemoryInv
<1> QED
    BY <1>1, <1>2, Zenon

\* The cells of a structure: none but its first can be a toplevel value
LEMMA FieldAddress ==
    ASSUME BlockInv, VecInv, ValueInv, NEW v \in DOMAIN parent, v[1] = "P",
           NEW c, c \in {v[2], v[2] + 1}
    PROVE  c \in Address /\ (c \in Objects => c \in zones)
<1>1. CASE Toplevel(v)
    <2>1. v[2] \in DOMAIN heap /\ c \in Block(v[2])
        BY <1>1, ToplevelCells, Zenon
    <2>2. ASSUME c \in Objects
          PROVE  c \in zones
        <3>1. c \in DOMAIN heap
            BY <2>2, Zenon DEF BlockInv
        <3>2. c = v[2]
            BY <2>1, <3>1, OwnCell, SharedCell, Zenon
        <3> QED
            BY <3>2, Zenon DEF ValueInv
    <2> QED
        BY <2>1, <2>2, BlockAddress, Zenon
<1>2. CASE Element(v)
    <2> DEFINE b == vec[parent[v][2]].buf
    <2>1. b \in Buffers /\ b \in DOMAIN heap /\ c \in Block(b)
        BY <1>2, ElementHome, ZenonT(60)
    <2> HIDE DEF b
    <2>2. ASSUME c \in Objects
          PROVE  FALSE
        BY <2>1, <2>2, NoObjectInBuffer, OwnCell, Zenon
    <2> QED
        BY <2>1, <2>2, BlockAddress, SMTT(20)
<1>3. CASE Field(v)
    BY <1>3, Zenon DEF Field
<1> QED
    BY <1>1, <1>2, <1>3, Zenon DEF ValueInv, ValueForm

\* The elements of a vector are at addresses of its buffer, none of which is an
\* object.
LEMMA ElementAddresses ==
    ASSUME BlockInv, VecInv, NEW a \in DOMAIN vec, NEW i \in 1..vec[a].len
    PROVE  ElementAddress(vec[a], i) \in Address /\ ElementAddress(vec[a], i) \notin Objects
<1> DEFINE c == ElementAddress(vec[a], i)
           b == vec[a].buf
<1>1. b \in Buffers /\ b \in DOMAIN heap /\ c \in Block(b)
    BY ElementCells, Zenon
<1> HIDE DEF b, c
<1>2. ASSUME c \in Objects
      PROVE  FALSE
    BY <1>1, <1>2, NoObjectInBuffer, OwnCell, Zenon
<1>3. c \in Address /\ c \notin Objects
    BY <1>1, <1>2, BlockAddress, Zenon
<1> QED
    BY <1>3, Zenon DEF c

\* CompoundType#raw_get preserves MemoryInv; the first field shares the zone of
\* its structure.
LEMMA GetFieldStep ==
    ASSUME MemoryInv, NEW v \in DOMAIN parent, NEW i \in 0..1, GetField(v, i)
    PROVE  MemoryInv'
<1> DEFINE c == <<"N", v[2] + i>>
<1>1. /\ v[1] = "P" /\ ~Calling /\ invalid = {} /\ value_wrap(v, c)
      /\ heap' = heap /\ vec' = vec /\ types' = types /\ layouts' = layouts
      /\ unref' = unref /\ invalid' = invalid /\ stale' = stale
    BY Zenon DEF GetField, Usable, Running, blocks, kinds
<1>2. v[2] \in Address
    BY Zenon DEF MemoryInv, ValueInv
<1>3. c[1] = "N" /\ c[2] \in {v[2], v[2] + 1}
    BY <1>2, AddressNat
<1>4. c[2] \in Address /\ (c[2] \in Objects => c[2] \in zones)
    BY <1>1, <1>3, FieldAddress, Zenon DEF MemoryInv
<1>5. c \in {"P", "N"} \X Address
    BY <1>4, Zenon
<1>6. ChildOf(v, c)
    BY <1>1, <1>3, Zenon DEF ChildOf
<1> HIDE DEF c
<1> QED
    BY <1>1, <1>4, <1>5, <1>6, ChildWrapped, Zenon

\* RandomAccessContainer#raw_get preserves MemoryInv.
LEMMA GetElementStep ==
    ASSUME MemoryInv, NEW v \in DOMAIN parent, NEW i \in 1..MaxLength, GetElement(v, i)
    PROVE  MemoryInv'
<1> DEFINE c == <<"P", ElementAddress(vec[v[2]], i)>>
<1>1. /\ v[1] = "V" /\ ~Calling /\ invalid = {} /\ value_wrap(v, c) /\ i <= vec[v[2]].len
      /\ heap' = heap /\ vec' = vec /\ types' = types /\ layouts' = layouts
      /\ unref' = unref /\ invalid' = invalid /\ stale' = stale
    BY Zenon DEF GetElement, Usable, Running, blocks, kinds
<1>2. v[2] \in DOMAIN vec
    BY <1>1, VectorValue, Zenon DEF MemoryInv
<1>3. i \in 1..vec[v[2]].len
    <2>1. vec[v[2]].len \in Nat
        BY <1>2, Zenon DEF MemoryInv, VecInv
    <2> QED
        BY <1>1, <2>1, MemoryAssumption
<1>4. c[2] \in Address /\ c[2] \notin Objects
    BY <1>2, <1>3, ElementAddresses, Zenon DEF MemoryInv
<1>5. c[1] = "P" /\ c[2] = ElementAddress(vec[v[2]], i) /\ c \in {"P", "N"} \X Address
    BY <1>4, Zenon
<1>6. ChildOf(v, c)
    BY <1>1, <1>3, <1>5, Zenon DEF ChildOf
<1> HIDE DEF c
<1> QED
    BY <1>1, <1>4, <1>5, <1>6, ChildWrapped, Zenon

-----------------------------------------------------------------------------
(* Operations on vectors *)

\* A vector whose length changes in its buffer preserves MemoryInv when the
\* children that are no elements any more are invalidated.
LEMMA LengthStep ==
    ASSUME MemoryInv, NEW v \in DOMAIN parent, v[1] = "V", NEW n \in Nat, n <= vec[v[2]].cap, NEW cs,
           vec' = [vec EXCEPT ![v[2]] = [vec[v[2]] EXCEPT !.len = n]],
           cs \subseteq Children(v), Children(v) \ cs \subseteq Elements(vec[v[2]], n),
           InvalidateChildren(cs), UNCHANGED <<heap, types, layouts, stale, errors>>,
           RefInv', owned' = owned, Owners' = Owners, Objects' = Objects, zones \subseteq zones',
           DOMAIN refcount \subseteq DOMAIN refcount',
           \A b \in DOMAIN refcount' : refcount'[b] > 0 => root_ptr'[b] \in Objects \cup {NULL},
           \A b \in DOMAIN refcount : refcount'[b] > 0 => refcount[b] > 0
    PROVE  MemoryInv'
<1> DEFINE after == [vec[v[2]] EXCEPT !.len = n]
<1>1. BlockInv /\ VecInv /\ KindInv /\ ValueInv /\ LayoutsCounted /\ DOMAIN types \subseteq DOMAIN refcount
    BY Zenon DEF MemoryInv, LayoutsCounted
<1>2. v[2] \in DOMAIN vec
    BY <1>1, VectorValue, Zenon
<1>3. /\ DOMAIN vec' = DOMAIN vec
      /\ \A b \in DOMAIN vec :
            /\ vec'[b] \in [buf : Address \cup {NULL}, len : Nat, cap : Nat]
            /\ vec'[b].buf = vec[b].buf /\ vec'[b].cap = vec[b].cap /\ vec'[b].len <= vec[b].cap
    BY <1>1, <1>2, LengthChanged, Zenon
<1>4. BlockInv' /\ VecInv' /\ KindInv'
    BY <1>1, <1>3, StoreKept, Zenon
<1>5. after.len = n /\ after.buf = vec[v[2]].buf
    BY <1>1, <1>2, Zenon DEF VecInv
<1>6. Elements(after, after.len) = Elements(vec[v[2]], n)
    BY <1>5, Zenon DEF Elements, ElementAddress
<1>7. ValueInv'
    <2>1. vec' = [vec EXCEPT ![v[2]] = after] /\ \A a \in Objects : heap'[a] = heap[a]
        BY Zenon
    <2>2. Children(v) \ cs \subseteq Elements(after, after.len)
        BY <1>6, Zenon
    <2> HIDE DEF after
    <2> QED
        BY <1>1, <2>1, <2>2, ValuesChanged, Zenon
<1>8. LayoutsCounted'
    BY <1>1, LayoutsKept, Zenon
<1> QED
    BY <1>4, <1>7, <1>8, Zenon DEF MemoryInv

\* A step that does not change the tables
LEMMA TablesKept ==
    ASSUME MemoryInv, UNCHANGED <<refcount, root_ptr, owned, zones, unref, stale>>
    PROVE  /\ RefInv' /\ Owners' = Owners /\ Objects' = Objects
           /\ \A b \in DOMAIN refcount' : refcount'[b] > 0 => root_ptr'[b] \in Objects \cup {NULL}
<1>1. RefInv'
    BY ZenonT(60) DEF MemoryInv, RefInv, TableInv, RefcountExact, Acyclic
<1>2. Owners' = Owners /\ Objects' = Objects
    BY Zenon DEF Owners, Objects
<1> QED
    BY <1>1, <1>2, Zenon DEF MemoryInv, BlockInv

\* The vector of a value
LEMMA VectorFacts ==
    ASSUME MemoryInv, NEW v \in DOMAIN parent, v[1] = "V"
    PROVE  /\ v[2] \in DOMAIN vec
           /\ vec[v[2]] \in [buf : Address \cup {NULL}, len : Nat, cap : Nat]
           /\ vec[v[2]].len <= vec[v[2]].cap
<1>1. v[2] \in DOMAIN vec
    BY VectorValue, Zenon DEF MemoryInv
<1> QED
    BY <1>1, Zenon DEF MemoryInv, VecInv

\* The number of elements changes in the same buffer, the tables do not change
LEMMA ResizeStep ==
    ASSUME MemoryInv, NEW v \in DOMAIN parent, v[1] = "V", NEW n \in Nat, n <= vec[v[2]].cap,
           Changed(v, [vec[v[2]] EXCEPT !.len = n]),
           UNCHANGED <<heap, refcount, root_ptr, owned, zones, types, layouts, unref, errors, stale>>
    PROVE  MemoryInv'
<1> DEFINE after == [vec[v[2]] EXCEPT !.len = n]
           cs == handle_container_invalidation(v, after)
<1>1. vec' = [vec EXCEPT ![v[2]] = after] /\ InvalidateChildren(cs)
    BY Zenon DEF Changed
<1>2. cs \subseteq Children(v) /\ Children(v) \ cs \subseteq Elements(after, after.len)
    BY Survivors, Zenon
<1>3. after.len = n /\ after.buf = vec[v[2]].buf
    BY VectorFacts, Zenon
<1>4. Elements(after, after.len) = Elements(vec[v[2]], n)
    BY <1>3, Zenon DEF Elements, ElementAddress
<1>5. Children(v) \ cs \subseteq Elements(vec[v[2]], n)
    BY <1>2, <1>4, Zenon
<1>6. /\ RefInv' /\ Owners' = Owners /\ Objects' = Objects
      /\ \A b \in DOMAIN refcount' : refcount'[b] > 0 => root_ptr'[b] \in Objects \cup {NULL}
    BY TablesKept, Zenon
<1>7. vec' = [vec EXCEPT ![v[2]] = [vec[v[2]] EXCEPT !.len = n]]
    BY <1>1, Zenon
<1> HIDE DEF after, cs
<1>8. /\ UNCHANGED <<heap, types, layouts, stale, errors>> /\ owned' = owned /\ zones \subseteq zones'
      /\ DOMAIN refcount \subseteq DOMAIN refcount'
      /\ \A b \in DOMAIN refcount : refcount'[b] > 0 => refcount[b] > 0
    BY Zenon
<1> QED
    BY <1>1, <1>2, <1>5, <1>6, <1>7, <1>8, LengthStep, Zenon

\* ContainerType#push preserves MemoryInv when the buffer has room.
LEMMA PushStep ==
    ASSUME MemoryInv, NEW v \in DOMAIN parent, Push(v)
    PROVE  MemoryInv'
<1> DEFINE n == vec[v[2]].len + 1
<1>1. /\ v[1] = "V" /\ vec[v[2]].len < vec[v[2]].cap /\ Changed(v, [vec[v[2]] EXCEPT !.len = n])
      /\ UNCHANGED <<heap, refcount, root_ptr, owned, zones, types, layouts, unref, errors, stale>>
    BY Zenon DEF Push, Usable, tables, kinds
<1>2. n \in Nat /\ n <= vec[v[2]].cap
    BY <1>1, VectorFacts
<1> QED
    BY <1>1, <1>2, ResizeStep, Zenon

\* ContainerType#erase preserves MemoryInv.
LEMMA EraseStep ==
    ASSUME MemoryInv, NEW v \in DOMAIN parent, Erase(v)
    PROVE  MemoryInv'
<1> DEFINE n == vec[v[2]].len - 1
<1>1. /\ v[1] = "V" /\ vec[v[2]].len > 0 /\ Changed(v, [vec[v[2]] EXCEPT !.len = n])
      /\ UNCHANGED <<heap, refcount, root_ptr, owned, zones, types, layouts, unref, errors, stale>>
    BY Zenon DEF Erase, Usable, tables, kinds
<1>2. n \in Nat /\ n <= vec[v[2]].cap
    BY <1>1, VectorFacts
<1> QED
    BY <1>1, <1>2, ResizeStep, Zenon

\* ContainerType#clear preserves MemoryInv.
LEMMA ClearStep ==
    ASSUME MemoryInv, NEW v \in DOMAIN parent, Clear(v)
    PROVE  MemoryInv'
<1> DEFINE cs == Children(v)
<1>1. /\ v[1] = "V" /\ vec' = [vec EXCEPT ![v[2]] = [vec[v[2]] EXCEPT !.len = 0]]
      /\ InvalidateChildren(cs)
      /\ UNCHANGED <<heap, refcount, root_ptr, owned, zones, types, layouts, unref, errors, stale>>
    BY Zenon DEF Clear, Usable, tables, kinds
<1>2. 0 \in Nat /\ 0 <= vec[v[2]].cap
    BY <1>1, VectorFacts
<1>3. cs \subseteq Children(v) /\ Children(v) \ cs \subseteq Elements(vec[v[2]], 0)
    BY Zenon
<1>4. /\ RefInv' /\ Owners' = Owners /\ Objects' = Objects
      /\ \A b \in DOMAIN refcount' : refcount'[b] > 0 => root_ptr'[b] \in Objects \cup {NULL}
    BY <1>1, TablesKept, Zenon
<1>5. /\ UNCHANGED <<heap, types, layouts, stale, errors>> /\ owned' = owned /\ zones \subseteq zones'
      /\ DOMAIN refcount \subseteq DOMAIN refcount'
      /\ \A b \in DOMAIN refcount : refcount'[b] > 0 => refcount[b] > 0
    BY <1>1, Zenon
<1> HIDE DEF cs
<1> QED
    BY <1>1, <1>2, <1>3, <1>4, <1>5, LengthStep, Zenon

\* ContainerType#delete_if preserves MemoryInv, with the elements that are
\* wrapped for its block.
LEMMA DeleteIfStep ==
    ASSUME MemoryInv, NEW v \in DOMAIN parent, NEW n \in 1..MaxLength, NEW k \in 0..MaxLength,
           NEW K, DeleteIf(v, n, k, K)
    PROVE  MemoryInv'
<1> DEFINE x == vec[v[2]]
           S == {ElementAddress(x, i) : i \in 1..n}
           r == value_root_ptr(v)
           after == [x EXCEPT !.len = k]
           cs == handle_container_invalidation(v, after)
<1>1. /\ v[1] = "V" /\ ~Calling /\ n \in 1..x.len /\ k <= n
      /\ memory_wrap(S, FALSE, r) /\ errors' = errors \cup WrapErrors(S, r)
      /\ vec' = [vec EXCEPT ![v[2]] = after] /\ InvalidateChildren(cs)
      /\ UNCHANGED <<heap, types, layouts, unref, stale>>
    BY Zenon DEF DeleteIf, Usable, Running, Changed, kinds
<1>2. v[2] \in DOMAIN vec /\ x \in [buf : Address \cup {NULL}, len : Nat, cap : Nat] /\ x.len <= x.cap
    BY <1>1, VectorFacts, Zenon
<1>3. k \in Nat /\ k <= x.cap
    BY <1>1, <1>2, MemoryAssumption
<1>4. RefInv /\ BlockInv /\ VecInv /\ ValueInv
    BY Zenon DEF MemoryInv
<1>5. S \subseteq Address /\ \A a \in S : a \in Objects => a \in zones
    <2>1. \A i \in 1..n : i \in 1..x.len
        BY <1>1, <1>2, MemoryAssumption
    <2>2. \A i \in 1..x.len : ElementAddress(x, i) \in Address /\ ElementAddress(x, i) \notin Objects
        BY <1>2, <1>4, ElementAddresses, SMTT(20)
    <2> QED
        BY <2>1, <2>2, Zenon
<1>6. r \in Objects /\ r \in zones /\ r \in DOMAIN refcount
    BY <1>4, RootValue, Zenon DEF RefInv, TableInv
<1>7. cs \subseteq Children(v) /\ Children(v) \ cs \subseteq Elements(after, after.len)
    BY Survivors, Zenon
<1>8. after.len = k /\ after.buf = x.buf
    BY <1>2, Zenon
<1>9. Children(v) \ cs \subseteq Elements(x, k)
    BY <1>7, <1>8, Zenon DEF Elements, ElementAddress
<1>10. vec' = [vec EXCEPT ![v[2]] = [vec[v[2]] EXCEPT !.len = k]] /\ k <= vec[v[2]].cap
    BY <1>1, <1>3, Zenon
<1>11. Children(v) \ cs \subseteq Elements(vec[v[2]], k)
    BY <1>9, Zenon
<1> HIDE DEF S, r, after, cs, x
<1>12. WrapErrors(S, r) = {} /\ S \subseteq zones \cup (S \ DOMAIN refcount)
    BY <1>1, <1>4, <1>5, <1>6, WrapNoError, Zenon
<1>13. RefInv'
    BY <1>1, <1>4, <1>5, <1>6, WrapRef, Zenon
<1>14. /\ owned' = owned /\ Owners' = Owners /\ Objects' = Objects
       /\ zones \subseteq zones' /\ DOMAIN refcount \subseteq DOMAIN refcount'
       /\ \A b \in DOMAIN refcount' : refcount'[b] > 0 => root_ptr'[b] \in Objects \cup {NULL}
       /\ \A b \in DOMAIN refcount : refcount'[b] > 0 => refcount[b] > 0
    BY <1>1, <1>4, <1>5, <1>6, <1>12, WrapStore, Zenon
<1>15. UNCHANGED <<heap, types, layouts, stale, errors>>
    BY <1>1, <1>12, Zenon
<1> QED
    BY <1>1, <1>3, <1>7, <1>10, <1>11, <1>13, <1>14, <1>15, LengthStep, ZenonT(60)

\* CompoundType#raw_get of a value that delete_if yielded preserves MemoryInv: the
\* field is in the buffer of the container, where no object is.
LEMMA KeptFieldStep ==
    ASSUME MemoryInv, NEW k, NEW i \in 0..1, KeptField(k, i)
    PROVE  MemoryInv'
<1>1. PICK v : v = k.container
    BY Zenon
<1>2. PICK x : x = vec[v[2]]
    BY Zenon
<1>3. PICK r : r = value_root_ptr(v)
    BY Zenon
<1>4. PICK a : a = k.value[2] + i
    BY Zenon
<1>5. PICK S : S = {a}
    BY Zenon
<1>6. /\ v \in DOMAIN parent /\ v[1] = "V" /\ ~Calling /\ k.value \in Elements(x, x.cap)
      /\ memory_wrap(S, FALSE, r) /\ errors' = errors \cup WrapErrors(S, r)
      /\ UNCHANGED <<heap, vec, types, layouts, parent, unref, invalid, stale>>
    BY <1>1, <1>2, <1>3, <1>4, <1>5, Zenon
       DEF KeptField, UsableKept, Usable, Running, blocks, kinds, values
<1>7. RefInv /\ BlockInv /\ VecInv /\ ValueInv /\ KindInv /\ LayoutsCounted
    BY Zenon DEF MemoryInv
<1>8. v[2] \in DOMAIN vec
    BY <1>6, VectorFacts, Zenon
<1>9. a \in Address /\ a \notin Objects
    <2>1. PICK j \in 1..x.cap : k.value = <<"P", ElementAddress(x, j)>>
        BY <1>6, Zenon DEF Elements
    <2>2. k.value[2] = ElementAddress(x, j)
        BY <2>1, SMTT(30)
    <2>3. PICK b : b = x.buf
        BY Zenon
    <2>4. b \in Buffers /\ b \in DOMAIN heap /\ k.value[2] \in Block(b) /\ k.value[2] + 1 \in Block(b)
        BY <1>2, <1>7, <1>8, <2>2, <2>3, BufferCells, Zenon
    <2>5. k.value[2] \in Nat
        BY <1>7, <2>4, BlockAddress, AddressNat, Zenon
    <2>6. a \in {k.value[2], k.value[2] + 1}
        BY <1>4, <2>5
    <2>7. a \in Block(b)
        BY <2>4, <2>6, Zenon
    <2> QED
        BY <1>7, <2>4, <2>7, BlockAddress, NoObjectInBuffer, OwnCell, Zenon
<1>10. S \subseteq Address /\ \A c \in S : c \in Objects => c \in zones
    BY <1>5, <1>9, Zenon
<1>11. r \in Objects /\ r \in zones /\ r \in DOMAIN refcount
    BY <1>3, <1>6, <1>7, RootValue, Zenon DEF RefInv, TableInv
<1>12. WrapErrors(S, r) = {} /\ S \subseteq zones \cup (S \ DOMAIN refcount)
    BY <1>6, <1>7, <1>10, <1>11, WrapNoError, Zenon
<1>13. RefInv'
    BY <1>6, <1>7, <1>10, <1>11, WrapRef, Zenon
<1>14. /\ owned' = owned /\ Owners' = Owners /\ Objects' = Objects
       /\ zones \subseteq zones' /\ DOMAIN refcount \subseteq DOMAIN refcount'
       /\ \A b \in DOMAIN refcount' : refcount'[b] > 0 => root_ptr'[b] \in Objects \cup {NULL}
       /\ \A b \in DOMAIN refcount : refcount'[b] > 0 => refcount[b] > 0
    BY <1>6, <1>7, <1>10, <1>11, <1>12, WrapStore, Zenon
<1>15. BlockInv' /\ VecInv' /\ KindInv'
    <2>1. DOMAIN types \subseteq DOMAIN refcount
        BY <1>7, Zenon DEF LayoutsCounted
    <2>2. \A b \in DOMAIN vec :
              /\ vec'[b] \in [buf : Address \cup {NULL}, len : Nat, cap : Nat]
              /\ vec'[b].buf = vec[b].buf /\ vec'[b].cap = vec[b].cap /\ vec'[b].len <= vec[b].cap
        BY <1>6, <1>7, Zenon DEF VecInv
    <2> QED
        BY <1>6, <1>7, <1>14, <2>1, <2>2, StoreKept, Zenon
<1>16. LayoutsCounted'
    BY <1>6, <1>7, <1>14, LayoutsKept, Zenon
<1>17. ValueInv'
    BY <1>6, <1>7, <1>14, ZenonT(60) DEF ValueInv, ValueForm, Toplevel, Element, Field
<1> QED
    BY <1>6, <1>12, <1>13, <1>15, <1>16, <1>17, Zenon DEF MemoryInv

-----------------------------------------------------------------------------
(* Blocks that are allocated *)

\* What the allocator returns overlaps no block.
LEMMA FreshBlock ==
    ASSUME BlockInv, NEW size \in Nat \ {0}, NEW a \in Available(size)
    PROVE  /\ a \in Address /\ a \notin DOMAIN heap /\ a + size - 1 <= MaxAddr
           /\ \A b \in DOMAIN heap : Block(b) \cap a..(a + size - 1) = {}
<1>1. a \in Address /\ a + size - 1 <= MaxAddr /\ a..(a + size - 1) \cap Cells = {}
    BY SMTT(20) DEF Available, Fits
<1>2. \A b \in DOMAIN heap : Block(b) \cap a..(a + size - 1) = {}
    BY <1>1, Zenon DEF Cells
<1>3. a \in a..(a + size - 1)
    BY <1>1, AddressNat
<1>4. a \notin DOMAIN heap
    BY <1>2, <1>3, OwnCell, Zenon
<1> QED
    BY <1>1, <1>2, <1>4, Zenon

\* The blocks stay disjoint when one is allocated.
LEMMA BlockAdded ==
    ASSUME BlockInv, NEW size \in Nat \ {0}, NEW a \in Available(size),
           DOMAIN heap' \subseteq DOMAIN heap \cup {a}, heap'[a] = size,
           \A b \in DOMAIN heap' : b # a => heap'[b] = heap[b]
    PROVE  /\ \A b \in DOMAIN heap' :
                b \in Address /\ heap'[b] \in Nat \ {0} /\ b + heap'[b] - 1 <= MaxAddr
           /\ \A b, c \in DOMAIN heap' : b # c => Block(b)' \cap Block(c)' = {}
<1>1. /\ a \in Address /\ a + size - 1 <= MaxAddr
      /\ \A b \in DOMAIN heap : Block(b) \cap a..(a + size - 1) = {}
    BY FreshBlock, Zenon
<1>2. \A b \in DOMAIN heap' : b # a => b \in DOMAIN heap /\ Block(b)' = Block(b)
    BY Zenon DEF Block
<1>3. Block(a)' = a..(a + size - 1)
    BY Zenon DEF Block
<1>4. ASSUME NEW b \in DOMAIN heap', NEW c \in DOMAIN heap', b # c
      PROVE  Block(b)' \cap Block(c)' = {}
    <2>1. CASE b = a
        BY <1>1, <1>2, <1>3, <1>4, <2>1, ZenonT(60)
    <2>2. CASE c = a
        BY <1>1, <1>2, <1>3, <1>4, <2>2, SMTT(20)
    <2>3. CASE b # a /\ c # a
        BY <1>2, <1>4, <2>3, Zenon DEF BlockInv
    <2> QED
        BY <2>1, <2>2, <2>3, Zenon
<1>5. ASSUME NEW b \in DOMAIN heap'
      PROVE  b \in Address /\ heap'[b] \in Nat \ {0} /\ b + heap'[b] - 1 <= MaxAddr
    <2>1. CASE b = a
        BY <1>1, <2>1, SMTT(20)
    <2>2. CASE b # a
        BY <1>2, <2>2, Zenon DEF BlockInv
    <2> QED
        BY <2>1, <2>2, Zenon
<1> QED
    BY <1>4, <1>5, Zenon

\* ContainerType#push preserves MemoryInv when the buffer is replaced: all the
\* elements are invalidated, and the old buffer is freed once.
LEMMA PushGrowStep ==
    ASSUME MemoryInv, NEW v \in DOMAIN parent, NEW a \in Address, PushGrow(v, a)
    PROVE  MemoryInv'
<1> DEFINE x == vec[v[2]]
           size == 2 * (x.len + 1)
           after == [buf |-> a, len |-> x.len + 1, cap |-> x.len + 1]
           cs == handle_container_invalidation(v, after)
<1>1. /\ v[1] = "V" /\ a \in Available(size) /\ x.len = x.cap
      /\ heap' = Drop(Put(heap, a, size), {x.buf})
      /\ errors' = errors \cup Error("freed twice", x.buf \notin DOMAIN heap \cup {NULL})
      /\ vec' = [vec EXCEPT ![v[2]] = after] /\ InvalidateChildren(cs)
      /\ UNCHANGED <<refcount, root_ptr, owned, zones, types, layouts, unref, stale>>
    BY Zenon DEF PushGrow, Usable, Changed, kinds, tables
<1>2. BlockInv /\ VecInv /\ KindInv /\ ValueInv /\ LayoutsCounted
    BY Zenon DEF MemoryInv
<1>3. v[2] \in DOMAIN vec /\ x \in [buf : Address \cup {NULL}, len : Nat, cap : Nat] /\ v[2] \in Objects
    BY <1>1, <1>2, VectorFacts, VectorValue, ZenonT(60)
<1>4. size \in Nat \ {0} /\ x.len + 1 \in Nat
    BY <1>3
<1> HIDE DEF size, x
<1>5. a \notin DOMAIN heap /\ a # NULL
    BY <1>1, <1>2, <1>4, FreshBlock, NullAddress, ZenonT(60)
<1>6. x.buf \in Buffers \cup {NULL} /\ Buffers \subseteq DOMAIN heap /\ Buffers \cap Objects = {} /\ a # x.buf
    BY <1>2, <1>3, <1>5, Zenon DEF BlockInv, Buffers, x
<1>7. /\ DOMAIN heap' = (DOMAIN heap \cup {a}) \ {x.buf}
      /\ heap'[a] = size
      /\ \A b \in DOMAIN heap' : b # a => heap'[b] = heap[b]
    BY <1>1, <1>6, Zenon DEF Drop, Put
<1>8. /\ RefInv' /\ Owners' = Owners /\ Objects' = Objects
      /\ \A b \in DOMAIN refcount' : refcount'[b] > 0 => root_ptr'[b] \in Objects \cup {NULL}
    BY <1>1, TablesKept, Zenon
<1>9. /\ DOMAIN vec' = DOMAIN vec /\ vec'[v[2]] = after
      /\ \A b \in DOMAIN vec : b # v[2] => vec'[b] = vec[b]
    BY <1>1, <1>3, Zenon
<1>10. \A b \in DOMAIN vec : b # v[2] => vec[b].buf # x.buf \/ vec[b].buf = NULL
    BY <1>2, <1>3, Zenon DEF VecInv, x
<1>11. after.buf = a /\ after.len = x.len + 1 /\ after.cap = x.len + 1
    BY Zenon
<1> HIDE DEF after
<1>12. Buffers' = (Buffers \ {x.buf}) \cup {a}
    <2>1. ASSUME NEW b \in Buffers'
          PROVE  b \in (Buffers \ {x.buf}) \cup {a}
        BY <1>9, <1>10, <1>11, ZenonT(60) DEF Buffers
    <2>2. a \in Buffers'
        BY <1>3, <1>5, <1>9, <1>11, Zenon DEF Buffers
    <2>3. ASSUME NEW b \in Buffers, b # x.buf
          PROVE  b \in Buffers'
        BY <1>9, <2>3, Zenon DEF Buffers, x
    <2> QED
        BY <2>1, <2>2, <2>3, SMTT(20)
<1>13. BlockInv'
    <2>1. /\ \A b \in DOMAIN heap' :
                b \in Address /\ heap'[b] \in Nat \ {0} /\ b + heap'[b] - 1 <= MaxAddr
          /\ \A b, c \in DOMAIN heap' : b # c => Block(b)' \cap Block(c)' = {}
        BY <1>1, <1>2, <1>4, <1>7, BlockAdded, ZenonT(60)
    <2>2. x.buf \notin Objects /\ DOMAIN heap = Objects \cup Buffers
        BY <1>2, <1>6, NullAddress, Zenon DEF BlockInv
    <2>3. DOMAIN heap' = Objects' \cup Buffers' /\ Objects' \cap Buffers' = {}
        BY <1>5, <1>6, <1>7, <1>8, <1>12, <2>2, ZenonT(60)
    <2>4. stale' \cap owned' = {}
        BY <1>1, <1>2, Zenon DEF BlockInv
    <2> QED
        BY <1>8, <2>1, <2>3, <2>4, Zenon DEF BlockInv
<1>14. VecInv'
    <2>1. ASSUME NEW b \in DOMAIN vec'
          PROVE  /\ vec'[b] \in [buf : Address \cup {NULL}, len : Nat, cap : Nat]
                 /\ vec'[b].len <= vec'[b].cap
                 /\ vec'[b].buf = NULL => vec'[b].cap = 0
                 /\ vec'[b].buf # NULL => heap'[vec'[b].buf] = 2 * vec'[b].cap
        <3>1. CASE b = v[2]
            <4>1. after \in [buf : Address \cup {NULL}, len : Nat, cap : Nat]
                BY <1>4, SMTT(20) DEF after
            <4> QED
                BY <1>4, <1>5, <1>7, <1>9, <1>11, <3>1, <4>1, SMTT(30) DEF size
        <3>2. CASE b # v[2]
            <4>1. b \in DOMAIN vec /\ vec'[b] = vec[b]
                BY <1>9, <3>2, Zenon
            <4>2. vec[b].buf # NULL => heap'[vec[b].buf] = heap[vec[b].buf]
                BY <1>5, <1>6, <1>7, <1>10, <3>2, <4>1, SMTT(20) DEF Buffers
            <4> QED
                BY <1>2, <4>1, <4>2, SMTT(20) DEF VecInv
        <3> QED
            BY <3>1, <3>2, SMTT(20)
    <2>2. ASSUME NEW b \in DOMAIN vec', NEW c \in DOMAIN vec', vec'[b].buf = vec'[c].buf
          PROVE  b = c \/ vec'[b].buf = NULL
        <3>1. \A d \in DOMAIN vec : vec[d].buf # a
            BY <1>5, <1>6, Zenon DEF Buffers
        <3> QED
            BY <1>2, <1>9, <1>11, <2>2, <3>1, SMTT(30) DEF VecInv
    <2>3. DOMAIN vec' \subseteq Objects'
        BY <1>2, <1>8, <1>9, Zenon DEF VecInv
    <2> QED
        BY <2>1, <2>2, <2>3, SMTT(20) DEF VecInv
<1>15. KindInv'
    BY <1>1, <1>2, <1>8, <1>9, Zenon DEF KindInv
<1>16. ValueInv'
    <2>1. cs \subseteq Children(v) /\ Children(v) \ cs \subseteq Elements(after, after.len)
        BY Survivors, Zenon
    <2>2. \A b \in Objects : heap'[b] = heap[b]
        BY <1>2, <1>5, <1>6, <1>7, NullAddress, ZenonT(60) DEF BlockInv
    <2> HIDE DEF cs
    <2> QED
        BY <1>1, <1>2, <1>8, <2>1, <2>2, ValuesChanged, Zenon
<1>17. LayoutsCounted'
    BY <1>1, <1>2, LayoutsKept, Zenon
<1>18. errors' = errors
    BY <1>1, <1>6, Zenon DEF Error
<1> QED
    BY <1>8, <1>13, <1>14, <1>15, <1>16, <1>17, <1>18, ZenonT(60) DEF MemoryInv

-----------------------------------------------------------------------------
(* The layouts *)

Typed(t) == {a \in DOMAIN types : types[a] = t}

\* The zones of a type can be counted.
LEMMA TypedFinite ==
    ASSUME RefInv, LayoutsCounted, NEW t
    PROVE  IsFiniteSet(Typed(t)) /\ Cardinality(Typed(t)) \in Nat
<1>1. Typed(t) \subseteq Address
    BY Zenon DEF RefInv, TableInv, LayoutsCounted, Typed
<1> QED
    BY <1>1, FiniteAddresses, Zenon

\* memory_init() counts the layout of the type of a new zone.
LEMMA LayoutAdded ==
    ASSUME RefInv, LayoutsCounted, NEW a, NEW t, a \notin DOMAIN types, types' = Put(types, a, t),
           layouts' = Put(layouts, t, IF t \in DOMAIN layouts THEN layouts[t] + 1 ELSE 1),
           DOMAIN refcount \subseteq DOMAIN refcount', a \in DOMAIN refcount'
    PROVE  LayoutsCounted'
<1>1. /\ DOMAIN types' = DOMAIN types \cup {a} /\ types'[a] = t
      /\ \A b \in DOMAIN types : types'[b] = types[b]
    BY Zenon DEF Put
<1>2. /\ DOMAIN layouts' = DOMAIN layouts \cup {t}
      /\ layouts'[t] = IF t \in DOMAIN layouts THEN layouts[t] + 1 ELSE 1
      /\ \A u \in DOMAIN layouts : u # t => layouts'[u] = layouts[u]
    BY Zenon DEF Put
<1>3. /\ DOMAIN types \subseteq DOMAIN refcount
      /\ DOMAIN layouts = {types[b] : b \in DOMAIN types}
      /\ \A u \in DOMAIN layouts : layouts[u] = Cardinality(Typed(u))
    BY Zenon DEF LayoutsCounted, Typed
<1>4. DOMAIN types' \subseteq DOMAIN refcount'
    BY <1>1, <1>3, Zenon
<1>5. DOMAIN layouts' = {types'[b] : b \in DOMAIN types'}
    BY <1>1, <1>2, <1>3, SMTT(30)
<1>6. ASSUME NEW u \in DOMAIN layouts'
      PROVE  layouts'[u] = Cardinality(Typed(u)')
    <2>1. CASE u # t
        <3>1. Typed(u)' = Typed(u)
            BY <1>1, <2>1, Zenon DEF Typed
        <3> QED
            BY <1>2, <1>3, <2>1, <3>1, Zenon
    <2>2. CASE u = t
        <3>1. Typed(t)' = Typed(t) \cup {a} /\ a \notin Typed(t)
            BY <1>1, Zenon DEF Typed
        <3>2. IsFiniteSet(Typed(t)) /\ Cardinality(Typed(t)) \in Nat
            BY TypedFinite, Zenon
        <3>3. Cardinality(Typed(t) \cup {a}) = Cardinality(Typed(t)) + 1
            BY <3>1, <3>2, FS_AddElement, Zenon
        <3>4. CASE t \in DOMAIN layouts
            BY <1>2, <1>3, <2>2, <3>1, <3>3, <3>4, ZenonT(60)
        <3>5. CASE t \notin DOMAIN layouts
            <4>1. Typed(t) = {}
                BY <1>3, <3>5, Zenon DEF Typed
            <4>2. Cardinality(Typed(t)) = 0
                BY <4>1, FS_EmptySet, Zenon
            <4> QED
                BY <1>2, <2>2, <3>1, <3>3, <3>5, <4>2, SMTT(30)
        <3> QED
            BY <3>4, <3>5, Zenon
    <2> QED
        BY <2>1, <2>2, Zenon
<1> QED
    BY <1>4, <1>5, <1>6, Zenon DEF LayoutsCounted, Typed

\* memory_unref() releases the layout of the zone that it erases, and the
\* layout goes with the last of its zones.
LEMMA LayoutReleased ==
    ASSUME RefInv, LayoutsCounted, NEW a, ReleaseLayout(a), DOMAIN refcount' = DOMAIN refcount \ {a}
    PROVE  LayoutsCounted'
<1>1. /\ DOMAIN types' = DOMAIN types \ {a}
      /\ \A b \in DOMAIN types' : types'[b] = types[b]
    BY Zenon DEF ReleaseLayout, Drop
<1>2. /\ DOMAIN types \subseteq DOMAIN refcount
      /\ DOMAIN layouts = {types[b] : b \in DOMAIN types}
      /\ \A u \in DOMAIN layouts : layouts[u] = Cardinality(Typed(u))
    BY SMTT(20) DEF LayoutsCounted, Typed
<1>3. DOMAIN types' \subseteq DOMAIN refcount'
    BY <1>1, <1>2, Zenon
<1>4. CASE a \notin DOMAIN types
    <2>1. layouts' = layouts /\ DOMAIN types' = DOMAIN types
        BY <1>1, <1>4, Zenon DEF ReleaseLayout
    <2>2. \A u : Typed(u)' = Typed(u)
        BY <1>1, <2>1, Zenon DEF Typed
    <2>3. DOMAIN layouts' = {types'[b] : b \in DOMAIN types'}
        BY <1>1, <1>2, <2>1, Zenon
    <2> QED
        BY <1>2, <1>3, <2>1, <2>2, <2>3, Zenon DEF LayoutsCounted, Typed
<1>5. CASE a \in DOMAIN types
    <2>0. PICK t : t = types[a]
        BY Zenon
    <2>1. layouts' = IF layouts[t] = 1 THEN Drop(layouts, {t}) ELSE [layouts EXCEPT ![t] = @ - 1]
        BY <1>5, <2>0, Zenon DEF ReleaseLayout
    <2>2. t \in DOMAIN layouts /\ layouts[t] = Cardinality(Typed(t))
        BY <1>2, <1>5, <2>0, Zenon
    <2>3. Typed(t)' = Typed(t) \ {a} /\ a \in Typed(t)
        BY <1>1, <1>5, <2>0, Zenon DEF Typed
    <2>4. \A u : u # t => Typed(u)' = Typed(u)
        BY <1>1, <2>0, Zenon DEF Typed
    <2>5. IsFiniteSet(Typed(t)) /\ Cardinality(Typed(t)) \in Nat
        BY TypedFinite, Zenon
    <2>6. Cardinality(Typed(t)') = Cardinality(Typed(t)) - 1
        BY <2>3, <2>5, FS_RemoveElement, Zenon
    <2>7. IsFiniteSet(Typed(t)')
        BY <2>3, <2>5, FS_RemoveElement, Zenon
    <2>8. \A u : Typed(u)' # {} <=> \E b \in DOMAIN types' : types'[b] = u
        BY Zenon DEF Typed
    <2>9. \A u : Typed(u) # {} <=> u \in DOMAIN layouts
        BY <1>2, Zenon DEF Typed
    <2>10. CASE layouts[t] = 1
        <3>1. Typed(t)' = {}
            BY <2>2, <2>6, <2>7, <2>10, FS_EmptySet, SMTT(30)
        <3>2. /\ DOMAIN layouts' = DOMAIN layouts \ {t}
              /\ \A u \in DOMAIN layouts' : layouts'[u] = layouts[u]
            BY <2>1, <2>10, Zenon DEF Drop
        <3>3. \A u : u \in DOMAIN layouts' <=> \E b \in DOMAIN types' : types'[b] = u
            BY <2>4, <2>8, <2>9, <3>1, <3>2, Zenon
        <3>4. DOMAIN layouts' = {types'[b] : b \in DOMAIN types'}
            BY <3>3, Zenon
        <3>5. \A u \in DOMAIN layouts' : layouts'[u] = Cardinality(Typed(u)')
            BY <1>2, <2>4, <3>2, Zenon
        <3> QED
            BY <1>3, <3>4, <3>5, SMTT(20) DEF LayoutsCounted, Typed
    <2>11. CASE layouts[t] # 1
        <3>1. Typed(t)' # {}
            BY <2>2, <2>5, <2>6, <2>11, FS_EmptySet, SMTT(30)
        <3>2. /\ DOMAIN layouts' = DOMAIN layouts /\ layouts'[t] = layouts[t] - 1
              /\ \A u \in DOMAIN layouts' : u # t => layouts'[u] = layouts[u]
            BY <2>1, <2>2, <2>11, SMTT(20)
        <3>3. \A u : u \in DOMAIN layouts' <=> \E b \in DOMAIN types' : types'[b] = u
            BY <2>2, <2>4, <2>8, <2>9, <3>1, <3>2, ZenonT(60)
        <3>4. DOMAIN layouts' = {types'[b] : b \in DOMAIN types'}
            BY <3>3, Zenon
        <3>5. \A u \in DOMAIN layouts' : layouts'[u] = Cardinality(Typed(u)')
            BY <1>2, <2>2, <2>4, <2>6, <3>2, Zenon
        <3> QED
            BY <1>3, <3>4, <3>5, Zenon DEF LayoutsCounted, Typed
    <2> QED
        BY <2>10, <2>11, Zenon
<1> QED
    BY <1>4, <1>5, Zenon
=============================================================================
