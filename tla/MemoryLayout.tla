---------------------------- MODULE MemoryLayout ----------------------------
(***************************************************************************)
(* layout_of() (typelib/memory_layout.hh): the raw layout of a type is     *)
(* simplified, one loop iteration per step, first its operations and then  *)
(* its initialization.                                                     *)
(***************************************************************************)
EXTENDS LayoutBytecode

CONSTANTS
    Types,        \* the types given to layout_of()
    Accepts,      \* the values of [pointers, opaques], accept_*
    Options       \* the values of [merge_skip_copy, remove_trailing_skips]

VARIABLES type, accept, m

vars == <<type, accept, m>>

-----------------------------------------------------------------------------
\* layout_of(type, accept_pointers, accept_opaques, options)
Init ==
    /\ type \in Types
    /\ accept \in Accepts
    /\ \E opts \in Options : m = Machine("raw", <<>>, <<>>, opts)

RawLayout ==
    /\ m.phase = "raw"
    /\ LET thrown == Thrown(type, accept)
       IN  m' = IF thrown = "nothing" THEN Machine("ops", raw_layout_of(type).ops, <<>>, m.options)
                ELSE Fail(m, thrown)
    /\ UNCHANGED <<type, accept>>

SimplifyStep ==
    /\ m.phase = "ops"
    /\ m' = Simplify(m, raw_layout_of(type).init_ops)
    /\ UNCHANGED <<type, accept>>

SimplifyInitStep ==
    /\ m.phase = "init"
    /\ m' = SimplifyInit(m)
    /\ UNCHANGED <<type, accept>>

Next == RawLayout \/ SimplifyStep \/ SimplifyInitStep
Spec == Init /\ [][Next]_vars

-----------------------------------------------------------------------------
(* What a layout has to say.  A cell is a byte, or a whole container.        *)

Data == <<"data">>
Hole == <<"hole">>
PointerByte == <<"pointer">>
InitByte(b) == <<"init", b>>
Repeat(seq, n) == [i \in 1..(n * Len(seq)) |-> seq[1 + ((i - 1) % Len(seq))]]

\* The cells of a type, with init for what its initialization has to write.
RECURSIVE Cells(_, _)
Cells(t, init) ==
    CASE t.kind = "numeric" -> Repeat(<<IF init THEN Hole ELSE Data>>, t.size)
      [] t.kind = "pointer" -> Repeat(<<IF init THEN Hole ELSE PointerByte>>, t.size)
      [] t.kind = "enum" ->
            IF init /\ t.init # <<>> THEN [i \in 1..t.size |-> InitByte(t.init[i])]
            ELSE Repeat(<<IF init THEN Hole ELSE Data>>, t.size)
      [] t.kind = "opaque" -> Repeat(<<Hole>>, t.size)
      [] t.kind = "array" -> Repeat(Cells(t.of, init), t.dim)
      [] t.kind = "container" ->
            <<IF init THEN <<"container", t.id>> ELSE <<"container", t.id, Cells(t.of, init)>> >>
      [] t.kind = "compound" ->
            FlattenSeq([i \in DOMAIN t.fields |->
                Repeat(<<Hole>>, t.fields[i][1] - FieldEnd(t, i - 1)) \o Cells(t.fields[i][2], init)])
            \o Repeat(<<Hole>>, t.size - FieldEnd(t, Len(t.fields)))

\* The cells that the operations of a layout go through.
RECURSIVE OpCells(_)
OpCells(ops) ==
    IF ops = <<>> THEN <<>>
    ELSE LET e == skipBlock(ops, 3, 0)
             block == OpCells(SubSeq(ops, 3, e - 1))
             after == OpCells(SubSeq(ops, e + 1, Len(ops)))
         IN  CASE ops[1] = FLAG_MEMCPY -> Repeat(<<Data>>, ops[2]) \o OpCells(SubSeq(ops, 3, Len(ops)))
               [] ops[1] = FLAG_SKIP -> Repeat(<<Hole>>, ops[2]) \o OpCells(SubSeq(ops, 3, Len(ops)))
               [] ops[1] = FLAG_ARRAY -> Repeat(block, ops[2]) \o after
               [] OTHER -> << <<"container", ops[2], block>> >> \o after

RECURSIVE InitEnd(_, _, _)
InitEnd(ops, i, nesting) ==
    CASE ops[i] = FLAG_INIT -> InitEnd(ops, i + 2 + ops[i + 1], nesting)
      [] ops[i] = FLAG_INIT_REPEAT -> InitEnd(ops, i + 2, nesting + 1)
      [] ops[i] = FLAG_INIT_END -> IF nesting = 0 THEN i ELSE InitEnd(ops, i + 1, nesting - 1)
      [] OTHER -> InitEnd(ops, i + 2, nesting)

RECURSIVE InitCells(_)
InitCells(ops) ==
    IF ops = <<>> THEN <<>>
    ELSE LET After(n) == InitCells(SubSeq(ops, n, Len(ops)))
             e == InitEnd(ops, 3, 0)
         IN  CASE ops[1] = FLAG_INIT ->
                    [i \in 1..ops[2] |-> InitByte(ops[2 + i])] \o After(3 + ops[2])
               [] ops[1] = FLAG_INIT_SKIP -> Repeat(<<Hole>>, ops[2]) \o After(3)
               [] ops[1] = FLAG_INIT_CONTAINER -> << <<"container", ops[2]>> >> \o After(3)
               [] OTHER -> Repeat(InitCells(SubSeq(ops, 3, e - 1)), ops[2]) \o After(e + 1)

\* A layout cell does what a cell of the type needs.  Holes may be copied if the
\* caller lets simplify() merge them.  The bytes of a pointer, which means nothing
\* elsewhere, may be copied or not (PointersSkipped).
RECURSIVE CellAgrees(_, _, _)
CellAgrees(c, l, merge) ==
    CASE c = Hole -> l = Hole \/ (merge /\ l = Data)
      [] c = PointerByte -> l \in {Hole, Data}
      [] c[1] = "container" /\ Len(c) = 3 ->
            /\ l[1] = "container" /\ l[2] = c[2] /\ Len(l[3]) = Len(c[3])
            /\ \A i \in DOMAIN c[3] : CellAgrees(c[3][i], l[3][i], merge)
      [] OTHER -> l = c

Describes(cells, layout, merge) ==
    /\ Len(layout) =< Len(cells)
    /\ \A i \in DOMAIN cells : IF i =< Len(layout) THEN CellAgrees(cells[i], layout[i], merge)
                               ELSE cells[i] \in {Hole, PointerByte}

\* What a type is made of, enums without values left out.
RECURSIVE Kinds(_)
Kinds(t) ==
    CASE t.kind = "array" -> Kinds(t.of)
      [] t.kind = "compound" -> UNION {Kinds(t.fields[i][2]) : i \in DOMAIN t.fields}
      [] t.kind = "enum" -> {"enum"} \ (IF t.init = <<>> THEN {"enum"} ELSE {})
      [] OTHER -> {t.kind}

Done == m.phase = "done"

-----------------------------------------------------------------------------
(* Properties *)

\* Iterators and counters stay in range: in particular current_skip_count, which
\* is subtracted from current_op_count at the end, is not the greater one.
TypeOK ==
    /\ m.phase \in {"raw", "ops", "init", "done", "NoLayout", "runtime_error", "length_error", "InvalidMemoryLayout"}
    /\ m.it \in 1..(Len(m.in) + 1)
    /\ m.out \in Seq(Nat) /\ m.ops \in Seq(Nat)
    /\ \A i \in DOMAIN m.frames : m.frames[i].content_i =< Len(m.out)
    /\ Top(m).skip =< Top(m).count

\* simplify() succeeds without a counter that wraps around and, whatever it merges,
\* squashes or removes, the layout still copies every byte of data at its offset,
\* finds every container at its own, and only leaves out holes at the end of the
\* type.  Pointers that are accepted keep their room; nothing is said of their bytes.
DataKept ==
    /\ TypeOK
    /\ m.phase \notin {"length_error", "InvalidMemoryLayout"}
    /\ Done => Describes(Cells(type, FALSE), OpCells(m.ops), m.options.merge_skip_copy)

\* The same for initialization: the default of every enum is written at its
\* offset, every container is constructed, and nothing else is touched; types with
\* neither get no bytecode, which is how init() knows that it has nothing to do.
InitKept ==
    Done => /\ Describes(Cells(type, TRUE), InitCells(m.out), FALSE)
            /\ Kinds(type) \cap {"enum", "container"} = {} => m.out = <<>>

\* isMemcpy() is what selects the fast paths: when holes are merged, a type
\* without containers, however nested, ends up as a single copy.
SquashedToMemcpy ==
    Done /\ m.options.merge_skip_copy /\ "container" \notin Kinds(type)
        => m.ops = <<>> \/ (Len(m.ops) = 2 /\ m.ops[1] = FLAG_MEMCPY)

\* "If this option is true (the default), these bytes are removed from the
\* layout": when it is false, the layout has the size of the type.
TrailingHolesKept ==
    Done /\ ~m.options.remove_trailing_skips => Len(OpCells(m.ops)) = Len(Cells(type, FALSE))

\* simplify() "removes empty arrays" and never writes an invalid layout.
EmptyArraysRemoved == m.phase # "length_error"

\* "If true, they will simply be skipped" (memory_layout.hh, of pointers): the layout
\* does not copy the pointers that are accepted.
PointersSkipped ==
    LET cells == Cells(type, FALSE)
        layout == OpCells(m.ops)
    IN  Done /\ ~m.options.merge_skip_copy =>
            \A i \in DOMAIN layout : cells[i] = PointerByte => layout[i] = Hole

\* "If true, they will simply be skipped": no type that only has pointers and
\* opaques to complain of is rejected when both are accepted.
AcceptedHasLayout == accept.pointers /\ accept.opaques => m.phase # "NoLayout"
=============================================================================
