------------------------------ MODULE ValueOps ------------------------------
(***************************************************************************)
(* The operations on values of typelib/value_ops.cc, which interpret the   *)
(* layout bytecode of a type over the memory of a value, and the vectors   *)
(* and strings of lang/csupport/containers.cc that they call back into.    *)
(*                                                                         *)
(* Memory is a sequence of cells, one for each byte.  A container is one   *)
(* cell: whether an object is constructed there, and the memories of its   *)
(* elements.  A program holds a value a that it fills in by itself, and a  *)
(* value b that it constructs, assigns, edits and destroys.                *)
(***************************************************************************)
EXTENDS LayoutBytecode, FiniteSets

CONSTANTS
    Cases,        \* the pairs <<type, layout options>> that are tried
    Containers,   \* the container types
    Strings,      \* the numbers of those that are /std/string
    Bytes,        \* the values of a byte
    MaxElements   \* bound on the elements of a container

VARIABLES
    type, options,
    a, b,         \* the memory of the two values
    built,        \* b is constructed
    stream,       \* the marshalled form of a, or <<>>
    op,           \* the last operation and its argument
    answer,       \* what it returned
    error,        \* what it threw, "undefined" for undefined behaviour
    lost          \* containers whose memory was dropped without being destroyed

vars == <<type, options, a, b, built, stream, op, answer, error, lost>>

-----------------------------------------------------------------------------
(* Memory *)

Byte(x) == [byte |-> x, live |-> FALSE, elements |-> <<>>]
Object(elements) == [byte |-> 0, live |-> TRUE, elements |-> elements]
Raw(n) == [k \in 1..n |-> Byte(0)]
Live(mem) == Cardinality({k \in DOMAIN mem : mem[k].live})
Part(mem, off, n) == SubSeq(mem, off + 1, off + n)
Put(mem, off, part) ==
    [k \in DOMAIN mem |-> IF k - off \in DOMAIN part THEN part[k - off] ELSE mem[k]]

Default == [merge_skip_copy |-> TRUE, remove_trailing_skips |-> TRUE]
Comparing == [merge_skip_copy |-> FALSE, remove_trailing_skips |-> TRUE]
Layouts ==
    [t \in {c[1] : c \in Cases} |->
        [o \in {Default, Comparing} \cup {c[2] : c \in Cases} |-> layout_of(t, o)]]

\* The objects of the container types, by number: a vector keeps the layout of its
\* elements, and makes the one to compare them when it is needed.
ContainerOf ==
    [id \in {c.id : c \in Containers} |->
        LET c == CHOOSE x \in Containers : x.id = id
        IN  [id |-> id, size |-> c.size, of |-> c.of,
             element_layout |-> layout_of(c.of, Default),
             compare_layout |-> layout_of(c.of, Comparing)]]

isElementMemcpy(c) ==
    Len(c.element_layout.ops) = 2 /\ c.element_layout.ops[1] = FLAG_MEMCPY

-----------------------------------------------------------------------------
(* The interpreters.  A run r has the memory a that it works on, the one b   *)
(* that it copies from or compares to, the offset in them, the position it   *)
(* in the bytecode, the stream io, the memories out that the last operation  *)
(* on elements made, and what it found.                                      *)

Running(mem, other, io, moved) ==
    [a |-> mem, b |-> other, off |-> 0, it |-> 1, io |-> io, out |-> <<>>, eq |-> TRUE,
     error |-> "", lost |-> 0, moved |-> moved]
Throw(r, e) == [r EXCEPT !.error = IF @ = "" THEN e ELSE @]
Stopped(r) == r.error # "" \/ ~r.eq
At(r, it) == [r EXCEPT !.it = it]
Holding(r, out) == [r EXCEPT !.out = out]

\* The memories in out are freed.
Discard(r) == [r EXCEPT !.lost = FoldLeft(LAMBDA n, mem : n + Live(mem), @, r.out)]

\* stream.read() of n bytes to mem
Read(r, mem, off, n) ==
    IF Len(r.io) < n THEN Throw([r EXCEPT !.a = mem], "not enough data")
    ELSE [r EXCEPT !.io = SubSeq(@, n + 1, Len(@)),
                   !.a = Put(mem, off, [k \in 1..n |-> Byte(r.io[k])])]

\* FLAG_MEMCPY and FLAG_SKIP
Block(what, flag, r, n) ==
    LET part == Part(r.a, r.off, n)
        next == [r EXCEPT !.off = @ + n]
        touches == what # "destroy" /\ (flag = FLAG_MEMCPY \/ what = "zero")
    IN  CASE r.off + n > Len(r.a) -> Throw(r, "undefined")
          [] ~touches -> next
          [] Live(part) > 0 -> Throw(r, "undefined")
          [] what = "dump" -> [next EXCEPT !.io = @ \o [k \in 1..n |-> part[k].byte]]
          [] what = "load" -> [Read(r, r.a, r.off, n) EXCEPT !.off = @ + n]
          [] what = "zero" -> [next EXCEPT !.a = Put(@, r.off, Raw(n))]
          [] what = "copy" -> [next EXCEPT !.a = Put(@, r.off, Part(r.b, r.off, n))]
          [] what = "compare" -> [next EXCEPT !.eq = part = Part(r.b, r.off, n)]

RECURSIVE Interpret(_, _, _, _)

\* Runs the bytecode at i on each of the memories as, with the ones in bs.
ElementDone(r, s) ==
    [s EXCEPT !.a = r.a, !.b = r.b, !.off = r.off, !.out = Append(r.out, s.a)]
RECURSIVE EachFrom(_, _, _, _, _, _, _)
EachFrom(k, what, ops, i, as, bs, r) ==
    IF k > Len(as) THEN r
    ELSE EachFrom(k + 1, what, ops, i, as, bs,
           ElementDone(r, Interpret(what, ops, i,
                                    [r EXCEPT !.a = as[k], !.b = bs[k], !.off = 0])))
Each(what, ops, i, as, bs, r) == EachFrom(1, what, ops, i, as, bs, Holding(r, <<>>))

-----------------------------------------------------------------------------
(* Vectors and strings.  The elements that result are in out.                *)

New(c, n) == [k \in 1..n |-> Raw(c.of.size)]
Plain(c) == c.id \in Strings \/ isElementMemcpy(c)

Destroyed(c, mems, r) == Discard(Each("destroy", c.element_layout.ops, 1, mems, mems, r))
Inited(c, mems, r) == Each("init", c.element_layout.init_ops, 1, mems, mems, r)
Copied(c, mems, r) == Each("copy", c.element_layout.ops, 1, r.out, mems, r)

\* The elements in out and new ones after them.
Prepended(first, r) == Holding(r, first \o r.out)
Grown(c, n, r) == Prepended(r.out, Inited(c, New(c, n), r))

\* A buffer with copies of the elements, which are destroyed.
Replaced(c, elements, r) == Holding(Destroyed(c, elements, r), r.out)
Moved(c, elements, r) ==
    Replaced(c, elements, Copied(c, elements, Inited(c, New(c, Len(elements)), r)))

\* Mutant: the elements at the end are not destroyed.
resizeKeeps(c, elements, n, r) ==
    IF n < Len(elements)
    THEN Holding(Discard(Holding(r, SubSeq(elements, n + 1, Len(elements)))),
                 SubSeq(elements, 1, n))
    ELSE Grown(c, n - Len(elements), Holding(r, elements))

\* r.moved says that the capacity is too small for an element more.
resize(c, elements, n, r) ==
    LET old == Len(elements)
        kept == SubSeq(elements, 1, IF n < old THEN n ELSE old)
    IN  CASE Plain(c) -> Holding(r, kept \o New(c, n - Len(kept)))
          [] ~Plain(c) /\ c.element_layout.ops = <<>> -> Throw(Holding(r, elements), "no layout")
          [] OTHER ->
               IF n > old
               THEN Grown(c, n - old, IF r.moved THEN Moved(c, elements, r)
                                      ELSE Holding(r, elements))
               ELSE Holding(Destroyed(c, SubSeq(elements, n + 1, old), r), kept)

copyElements(c, src, r) == IF Plain(c) THEN Holding(r, src) ELSE Copied(c, src, r)

copyContainer(c, dst, src, r) == copyElements(c, src, resize(c, dst, Len(src), r))

\* Mutant: the second container may be longer.
comparePrefix(c, x, y, r) ==
    IF Len(x) > Len(y) THEN [r EXCEPT !.eq = FALSE]
    ELSE Each("compare", c.compare_layout.ops, 1, x, y, r)

compareContainer(c, x, y, r) ==
    IF Len(x) # Len(y) THEN [r EXCEPT !.eq = FALSE]
    ELSE Each("compare", c.compare_layout.ops, 1, x, y, r)

\* The size of n contiguous elements: ops[i + 1] is taken for the size of one.
PlainSize(c, ops, i, n) == n * (IF c.id \in Strings THEN 1 ELSE ops[i + 1])

dumpContainer(c, elements, ops, i, r) ==
    LET bytes == FlattenSeq(elements)
        size == PlainSize(c, ops, i, Len(elements))
    IN  CASE ~Plain(c) -> Each("dump", ops, i, elements, elements, r)
          [] Plain(c) /\ size > Len(bytes) -> Throw(r, "undefined")
          [] OTHER -> [r EXCEPT !.io = @ \o [k \in 1..size |-> bytes[k].byte], !.it = i + 2]

\* The elements in out are read from the stream.
SplitBytes(c, n, mem, r) ==
    [r EXCEPT !.a = mem,
              !.out = [k \in 1..n |-> Part(r.a, (k - 1) * c.of.size, c.of.size)]]
loadElements(c, n, ops, i, r) ==
    CASE ~Plain(c) -> Each("load", ops, i, r.out, r.out, r)
      [] Plain(c) /\ PlainSize(c, ops, i, n) > n * c.of.size -> Throw(r, "undefined")
      [] OTHER ->
           At(SplitBytes(c, n, r.a, Read(r, FlattenSeq(r.out), 0, PlainSize(c, ops, i, n))),
              i + 2)

\* Mutant: every element is read to the place of the first one.
loadFirst(c, elements, n, ops, i, r) ==
    LET s == loadElements(c, n, ops, i, resize(c, elements, n, r))
    IN  Holding(s, [resize(c, elements, n, r).out EXCEPT ![1] = Last(s.out)])

loadContainer(c, elements, n, ops, i, r) == loadElements(c, n, ops, i, resize(c, elements, n, r))

\* Mutant: the elements after it are not moved.
eraseTail(c, elements, k, r) == resize(c, elements, Len(elements) - 1, r)

\* Elements k + 1 to n are copied one place down, and the last one goes.
Shrunk(c, first, last, r) ==
    resize(c, first \o r.out \o <<last>>, Len(first) + Len(r.out), r)
erase(c, elements, k, r) ==
    LET n == Len(elements)
    IN  Shrunk(c, SubSeq(elements, 1, k - 1), elements[n],
               copyElements(c, SubSeq(elements, k + 1, n),
                            Holding(r, SubSeq(elements, k, n - 1))))

-----------------------------------------------------------------------------
(* The operations of the bytecode, with their operand at i. *)

AtEnd(ops, r) ==
    IF Stopped(r) \/ (r.it <= Len(ops) /\ ops[r.it] = FLAG_END) THEN r
    ELSE Throw(r, "does not end with FLAG_END")

\* The container at the offset of r becomes cell after the run s.
Become(c, r, cell, s) == [s EXCEPT !.a = Put(r.a, r.off, <<cell>>), !.off = r.off + c.size]
Filling(c, r, s) == Become(c, r, Object(s.out), s)

\* FLAG_CONTAINER: x is the container in a, y the one in b.
InContainer(what, ops, i, c, x, y, r) ==
    CASE what = "init" ->
           At([Become(c, r, Object(<<>>), r) EXCEPT !.lost = @ + Live(<<x>>)], i)
      [] what # "init" /\ (~x.live \/ (what \in {"copy", "compare"} /\ ~y.live)) ->
           Throw(r, "undefined")
      [] what = "zero" ->
           At(Filling(c, r, resize(c, x.elements, 0, r)), skipBlock(ops, i + 1, 0))
      [] what = "destroy" ->
           At(Become(c, r, Byte(0), resize(c, x.elements, 0, r)), skipBlock(ops, i, 0))
      [] what = "copy" ->
           At(Filling(c, r, copyContainer(c, x.elements, y.elements, r)), skipBlock(ops, i, 0))
      [] what = "compare" ->
           At(Become(c, r, x, compareContainer(c, x.elements, y.elements, r)),
              skipBlock(ops, i, 0))
      [] what = "dump" ->
           LET counted == [r EXCEPT !.io = Append(@, Len(x.elements))]
           IN  AtEnd(ops, Become(c, r, x,
                       IF x.elements = <<>> THEN At(counted, skipBlock(ops, i + 1, 0))
                       ELSE dumpContainer(c, x.elements, ops, i + 1, counted)))
      [] what = "load" ->
           LET left == [r EXCEPT !.io = Tail(@)]
           IN  CASE r.io = <<>> -> Throw(r, "not enough data")
                 [] r.io # <<>> /\ Head(r.io) = 0 ->
                      AtEnd(ops, At(Become(c, r, x, left), skipBlock(ops, i + 1, 0)))
                 [] OTHER ->
                      AtEnd(ops, Filling(c, r, loadContainer(c, x.elements, Head(r.io), ops,
                                                              i + 1, left)))

\* FLAG_ARRAY
RECURSIVE Times(_, _, _, _, _)
Times(what, ops, i, n, r) ==
    IF n = 0 THEN r ELSE Times(what, ops, i, n - 1, Interpret(what, ops, i, r))
InArray(what, ops, i, r) ==
    LET none == IF what \in {"dump", "load"} THEN skipBlock(ops, i + 1, 0) ELSE i + 1
    IN  AtEnd(ops, IF ops[i] = 0 THEN At(r, none) ELSE Times(what, ops, i + 1, ops[i], r))

\* FLAG_INIT
InData(ops, i, r) ==
    LET n == ops[i]
    IN  [r EXCEPT !.a = Put(@, r.off, [k \in 1..n |-> Byte(ops[i + k])]),
                  !.off = @ + n, !.it = i + n]

Operation(what, ops, i, r) ==
    CASE ops[i] = FLAG_ARRAY -> InArray(what, ops, i + 1, r)
      [] ops[i] = FLAG_CONTAINER ->
           InContainer(what, ops, i + 1, ContainerOf[ops[i + 1]],
                       r.a[r.off + 1], r.b[r.off + 1], r)
      [] ops[i] = FLAG_INIT /\ what = "init" -> InData(ops, i + 1, r)
      [] OTHER -> At(Block(what, ops[i], r, ops[i + 1]), i + 1)

GoOn(what, ops, r) == Interpret(what, ops, r.it + 1, r)
Interpret(what, ops, i, r) ==
    CASE Stopped(r) -> r
      [] ~Stopped(r) /\ (i > Len(ops) \/ ops[i] = FLAG_END) -> At(r, i)
      [] OTHER -> GoOn(what, ops, Operation(what, ops, i, r))

-----------------------------------------------------------------------------
(* The values of a type, what a value means, and its blank form. *)

\* A container has at most n elements, and the ones in them one less.  An enum
\* has one symbol, and holes have any content.
RECURSIVE Values(_, _)
RECURSIVE Filled(_, _, _)
Filled(t, pieces, n) ==
    IF pieces = <<>> THEN {[k \in 1..t.size |-> Byte(x)] : x \in Bytes}
    ELSE {Put(m, Head(pieces)[1], v) :
            m \in Filled(t, Tail(pieces), n), v \in Values(Head(pieces)[2], n)}
Values(t, n) ==
    CASE t.kind = "enum" -> {[k \in 1..t.size |-> Byte(t.init[k])]}
      [] t.kind = "numeric" -> {[k \in 1..t.size |-> Byte(f[k])] : f \in [1..t.size -> Bytes]}
      [] t.kind = "container" ->
           {<<Object(s)>> : s \in UNION {[1..k -> Values(t.of, n - 1)] : k \in 0..n}}
      [] t.kind = "array" ->
           Filled(t, [i \in 1..t.dim |-> <<(i - 1) * t.of.size, t.of>>], n)
      [] t.kind = "compound" -> Filled(t, t.fields, n)

\* The contents of a value: holes do not count.
RECURSIVE Contents(_, _)
Contents(t, mem) ==
    CASE t.kind \in {"numeric", "enum"} -> [k \in 1..t.size |-> mem[k].byte]
      [] t.kind = "array" ->
           [i \in 1..t.dim |-> Contents(t.of, Part(mem, (i - 1) * t.of.size, t.of.size))]
      [] t.kind = "compound" ->
           [i \in DOMAIN t.fields |->
               Contents(t.fields[i][2], Part(mem, t.fields[i][1], t.fields[i][2].size))]
      [] t.kind = "container" ->
           [k \in DOMAIN mem[1].elements |-> Contents(t.of, mem[1].elements[k])]

\* Every container in mem is empty.
Blank(mem) == \A k \in DOMAIN mem : mem[k].elements = <<>>
Zeroes(mem) == [k \in DOMAIN mem |-> [mem[k] EXCEPT !.byte = 0, !.elements = <<>>]]

getTrailingPadding(t) == IF t.kind = "compound" THEN t.size - FieldEnd(t, Len(t.fields)) ELSE 0

-----------------------------------------------------------------------------
(* The program *)

Init ==
    /\ \E c \in Cases : type = c[1] /\ options = c[2]
    /\ a \in Values(type, MaxElements)
    /\ b = Raw(type.size)
    /\ built = FALSE
    /\ stream = <<>>
    /\ op = <<"none", 0, 0>>
    /\ answer = TRUE
    /\ error = ""
    /\ lost = 0

ops_ == Layouts[type][Default].ops

Return(r, name, k, j, result) ==
    /\ op' = <<name, k, j>>
    /\ answer' = result
    /\ error' = r.error
    /\ lost' = lost + r.lost
    /\ UNCHANGED <<type, options, a>>

\* The program puts another, smaller value in a.
Assign ==
    /\ built
    /\ a' \in Values(type, MaxElements - 1)
    /\ stream' = <<>>
    /\ op' = <<"none", 0, 0>>
    /\ answer' = TRUE
    /\ UNCHANGED <<type, options, b, built, error, lost>>

\* The program constructs b by itself, with its containers empty.
Native ==
    /\ ~built
    /\ b' \in Values(type, 0)
    /\ built' = TRUE
    /\ op' = <<"none", 0, 0>>
    /\ answer' = TRUE
    /\ UNCHANGED <<type, options, a, stream, error, lost>>

\* The run r wrote b.
Writes(r, name) ==
    /\ b' = r.a
    /\ Return(r, name, 0, 0, TRUE)

InitValue ==
    /\ ~built
    /\ built' = TRUE
    /\ Writes(Interpret("init", Layouts[type][Default].init_ops, 1, Running(b, b, <<>>, FALSE)),
              "init")
    /\ UNCHANGED stream

\* The memory of b, after the run r, is freed.
Free(r) == Discard(Holding(r, <<r.a>>))

DestroyValue ==
    /\ built
    /\ b' = Raw(type.size)
    /\ built' = FALSE
    /\ Return(Free(Interpret("destroy", ops_, 1, Running(b, b, <<>>, FALSE))),
              "destroy", 0, 0, TRUE)
    /\ UNCHANGED stream

ZeroValue ==
    /\ built
    /\ Writes(Interpret("zero", ops_, 1, Running(b, b, <<>>, FALSE)), "zero")
    /\ UNCHANGED <<built, stream>>

CopyValue ==
    /\ built
    /\ \E moved \in BOOLEAN :
          Writes(Interpret("copy", ops_, 1, Running(b, a, <<>>, moved)), "copy")
    /\ UNCHANGED <<built, stream>>

\* compare() of two values, or of two elements.
Compared(ops, x, y) == Interpret("compare", ops, 1, Running(x, y, <<>>, FALSE))

Answers(r) == Return(r, "compare", 0, 0, r.eq)
CompareValues ==
    /\ built
    /\ Answers(Compared(Layouts[type][Comparing].ops, b, a))
    /\ UNCHANGED <<b, built, stream>>

\* The bytecode was read to its end.
Complete(r, ops) == IF r.it # Len(ops) + 1 THEN Throw(r, "internal error") ELSE r

Streams(r) ==
    /\ stream' = r.io
    /\ Return(r, "dump", 0, 0, TRUE)
DumpValue ==
    LET ops == Layouts[type][options].ops
    IN  /\ stream = <<>>
        /\ Streams(Complete(Interpret("dump", ops, 1, Running(a, a, <<>>, FALSE)), ops))
        /\ UNCHANGED <<b, built>>

\* Nothing is left but the padding at the end of the type.
Consumed(r) ==
    IF Len(r.io) \in {0, getTrailingPadding(type)} THEN r
    ELSE Throw(r, "parts of the provided buffer has not been used")
LoadValue ==
    LET ops == Layouts[type][options].ops
    IN  /\ built /\ stream # <<>>
        /\ \E moved \in BOOLEAN :
              Writes(Consumed(Complete(
                        Interpret("load", ops, 1, Running(b, b, stream, moved)), ops)), "load")
        /\ UNCHANGED <<built, stream>>

-----------------------------------------------------------------------------
(* Editing b, when it is a container, with an element v of a. *)

Equal(c, x, v) == Compared(c.compare_layout.ops, x, v).eq

\* The run r left the elements of b in out.
Edited(r, name, k, j, result) ==
    /\ b' = <<Object(r.out)>>
    /\ Return(r, name, k, j, result)
    /\ UNCHANGED <<built, stream>>

IsContainer == built /\ type.kind = "container"

\* Element j of the ones in out becomes v.
SetTo(elements, j, r) == Holding(r, [elements EXCEPT ![j] = r.out[1]])
CopyTo(c, j, v, r) == SetTo(r.out, j, Copied(c, <<v>>, Holding(r, <<r.out[j]>>)))

Push(c, k) ==
    LET x == b[1].elements
        n == Len(x) + 1
    IN  /\ n <= MaxElements
        /\ \E moved \in BOOLEAN :
              Edited(CopyTo(c, n, a[1].elements[k],
                            resize(c, x, n, Running(b, b, <<>>, moved))),
                     "push", k, 0, TRUE)

\* The first of the elements found is erased.
EraseFirst(c, k, found, r) ==
    IF c.id \in Strings \/ found = {} THEN Edited(r, "erase", k, 0, FALSE)
    ELSE Edited(erase(c, r.out, Min(found), r), "erase", k, 0, TRUE)
Erase(c, k) ==
    LET x == b[1].elements
    IN  EraseFirst(c, k, {i \in DOMAIN x : Equal(c, x[i], a[1].elements[k])},
                   Holding(Running(b, b, <<>>, FALSE), x))

SetElement(c, k, j) ==
    LET r == Holding(Running(b, b, <<>>, FALSE), b[1].elements)
    IN  /\ c.id \notin Strings
        /\ Edited(CopyTo(c, j, a[1].elements[k], r), "set", k, j, TRUE)

\* Vector::delete_if_impl, with the predicate "equal to v".
RECURSIVE delete_if(_, _, _, _)
delete_if(c, i, v, r) ==
    CASE i > Len(r.out) -> r
      [] i <= Len(r.out) /\ Equal(c, r.out[i], v) -> delete_if(c, i, v, erase(c, r.out, i, r))
      [] OTHER -> delete_if(c, i + 1, v, r)

DeleteIf(c, k) ==
    LET r == Holding(Running(b, b, <<>>, FALSE), b[1].elements)
    IN  Edited(IF c.id \in Strings THEN r ELSE delete_if(c, 1, a[1].elements[k], r),
               "delete_if", k, 0, TRUE)

Edit(c) ==
    \E k \in DOMAIN a[1].elements :
        \/ Push(c, k)
        \/ Erase(c, k)
        \/ DeleteIf(c, k)
        \/ \E j \in DOMAIN b[1].elements : SetElement(c, k, j)

Next ==
    /\ error = ""
    /\ \/ Assign
       \/ Native
       \/ InitValue
       \/ DestroyValue
       \/ ZeroValue
       \/ CopyValue
       \/ CompareValues
       \/ DumpValue
       \/ LoadValue
       \/ IsContainer /\ Edit(ContainerOf[type.id])

Spec == Init /\ [][Next]_vars

-----------------------------------------------------------------------------
(* Properties *)

\* The memory of b has the size of the type, and its containers are constructed
\* exactly while b is.
RECURSIVE WellFormed(_, _, _)
WellFormed(t, mem, live) ==
    /\ Len(mem) = t.size
    /\ CASE t.kind = "array" ->
              \A i \in 1..t.dim : WellFormed(t.of, Part(mem, (i - 1) * t.of.size, t.of.size), live)
         [] t.kind = "compound" ->
              \A i \in DOMAIN t.fields :
                 WellFormed(t.fields[i][2], Part(mem, t.fields[i][1], t.fields[i][2].size), live)
         [] t.kind = "container" ->
              /\ mem[1].live = live
              /\ \A k \in DOMAIN mem[1].elements : WellFormed(t.of, mem[1].elements[k], live)
         [] OTHER -> Live(mem) = 0

\* The type invariant: each value has memory of its size, and the containers in
\* it, at every level, are objects exactly between init() and destroy().
TypeOK ==
    /\ \E c \in Cases : type = c[1] /\ options = c[2]
    /\ built \in BOOLEAN /\ answer \in BOOLEAN
    /\ lost \in Nat
    /\ WellFormed(type, a, TRUE) /\ WellFormed(type, b, built)

\* No operation of value_ops.cc throws, uses a container that is not constructed
\* or copies one byte by byte, or reads past a value: the bytecode that one
\* component writes is the one that the others expect.  destroy(), and the vectors
\* when they shrink or move to another buffer, destroy every container before the
\* memory goes.
Completes == error = "" /\ lost = 0 /\ TypeOK

\* compare() tells whether the two values have the same contents, whatever is in
\* their holes.
CompareIsEquality ==
    op[1] = "compare" /\ error = "" => answer = (Contents(type, a) = Contents(type, b))

\* After copy() b is a; after loading what dump() wrote for a in a value with
\* empty containers b is a as well; zero() leaves zeroes and empty containers.
AssignsValue ==
    [][LET new == Contents(type, b')
       IN  error' = "" =>
             /\ op'[1] = "copy" => new = Contents(type, a)
             /\ op'[1] = "load" /\ Blank(b) => new = Contents(type, a)
             /\ op'[1] = "zero" => new = Contents(type, Zeroes(b))]_vars

\* Editing a container does to it what the same call does to a sequence: push()
\* appends, erase() removes the first equal element and tells whether there was
\* one, delete_if() removes all of them, and setElement() changes one.
EditsContainer ==
    [][LET old == Contents(type, b)
           new == Contents(type, b')
           v == Contents(type, a)[op'[2]]
           same == {i \in DOMAIN old : old[i] = v}
           first == CHOOSE i \in same : \A j \in same : i <= j
       IN  error' = "" =>
             /\ op'[1] = "push" => new = Append(old, v)
             /\ op'[1] = "erase" /\ type.id \notin Strings =>
                   /\ answer' = (same # {})
                   /\ new = IF same = {} THEN old ELSE RemoveAt(old, first)
             /\ op'[1] = "delete_if" /\ type.id \notin Strings =>
                   new = SelectSeq(old, LAMBDA x : x # v)
             /\ op'[1] = "set" => new = [old EXCEPT ![op'[3]] = v]]_vars

\* Ruby's Type#from_buffer, "Reinitializes this value to match marshalled data":
\* the value that is loaded is the one that was dumped.
LoadReplaces ==
    [][op'[1] = "load" /\ error' = "" => Contents(type, b') = Contents(type, a)]_vars

\* Container::dump, "*retval == FLAG_END is a postcondition of this method": the
\* interpreter goes on after the block of the container.
DumpEndsBlock == op[1] = "dump" => error # "does not end with FLAG_END"
=============================================================================
