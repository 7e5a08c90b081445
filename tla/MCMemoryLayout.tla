--------------------------- MODULE MCMemoryLayout ---------------------------
(* Types of up to three levels, with holes between and after the fields.     *)
EXTENDS MemoryLayout

\* The structures with up to two fields, the second one after a hole or not, and
\* with a hole at the end or not.
Structures(First, Second) ==
    {Compound(<< <<0, t>> >>, t.size + pad) : t \in First, pad \in 0..1}
    \cup {Compound(<< <<0, t>>, <<t.size + gap, u>> >>, t.size + gap + u.size + pad) :
            t \in First, u \in Second, gap \in 0..1, pad \in 0..1}

Leaf == {Numeric(2), Enum(1, <<7>>), Container(11, 3, Numeric(1))}
EmptyStructure == Compound(<<>>, 1)
Arrays(T) == {Array(dim, t) : dim \in 0..2, t \in T}
Containers(T) == {Container(12, 3, t) : t \in T}

TwoFields == Structures(Leaf, Leaf)
Small == Leaf \cup Arrays(Leaf) \cup {EmptyStructure}
Probe == Leaf \cup {Array(0, Numeric(2)), Array(2, Container(11, 3, Numeric(1)))}
Middle == Small \cup Containers(Small) \cup TwoFields

\* The elements of an array have bytes: see EmptyArray for the others.
Plain == Middle \cup Arrays({t \in Middle : t.size > 0}) \cup Containers(Middle)
         \cup Structures(Middle, Probe) \cup Structures(Probe, Middle)

\* An array of arrays of dimension zero, alone or after something else.
EmptyArray == Array(2, Array(0, Numeric(1)))
WithEmptyArrays == {EmptyArray} \cup Structures(Leaf, {EmptyArray}) \cup Structures({EmptyArray}, Leaf)

\* Pointers and opaques, in fields and in elements, and an enum with too many bytes.
Foreign == {Pointer(2), Opaque(1)}
BigEnum == Enum(9, [i \in 1..9 |-> 7])
WithForeign == Foreign \cup Structures(Foreign, Leaf) \cup Structures(Leaf, Foreign)
               \cup Structures({Array(2, Numeric(2))}, Foreign) \cup Structures(Foreign, {BigEnum})
ForeignElements == WithForeign \cup Arrays(Foreign) \cup Containers(Foreign)

AllOptions == [merge_skip_copy : BOOLEAN, remove_trailing_skips : BOOLEAN]
PlainAndForeign == Plain \cup WithForeign
BothAccepted == {[pointers |-> TRUE, opaques |-> TRUE]}
=============================================================================
