--------------------------- MODULE LayoutBytecode ---------------------------
(***************************************************************************)
(* The layout bytecode of typelib/memory_layout.cc: raw_layout_of() writes *)
(* one operation per field and per hole of a type, and simplify() merges   *)
(* them in one pass.                                                       *)
(*                                                                         *)
(* A type is a record with its kind and size.  Bytecode is a sequence of   *)
(* integers, as in the code; where the code has the address of a container *)
(* type there is its number.  The recursive functions simplify() and       *)
(* simplifyInit() are cut into loop iterations that take a state s to the  *)
(* next one: the bytecode read and the one written, the position, and one  *)
(* frame for each nested call.                                             *)
(***************************************************************************)
EXTENDS Integers, Sequences, SequencesExt

-----------------------------------------------------------------------------
(* Types *)

Numeric(size) == [kind |-> "numeric", size |-> size]
Enum(size, init) == [kind |-> "enum", size |-> size, init |-> init]
Pointer(size) == [kind |-> "pointer", size |-> size]
Opaque(size) == [kind |-> "opaque", size |-> size]
Array(dim, of) == [kind |-> "array", size |-> dim * of.size, dim |-> dim, of |-> of]
Container(id, size, of) == [kind |-> "container", size |-> size, id |-> id, of |-> of]

\* fields is a sequence of <<offset, type>>.
Compound(fields, size) == [kind |-> "compound", size |-> size, fields |-> fields]

-----------------------------------------------------------------------------
(* The bytecode of a type *)

FLAG_MEMCPY == 0
FLAG_ARRAY == 1
FLAG_CONTAINER == 2
FLAG_SKIP == 3
FLAG_END == 4

FLAG_INIT == 0
FLAG_INIT_REPEAT == 1
FLAG_INIT_CONTAINER == FLAG_CONTAINER
FLAG_INIT_SKIP == FLAG_SKIP
FLAG_INIT_END == FLAG_END

Layout(ops, init_ops) == [ops |-> ops, init_ops |-> init_ops]

pushMemcpy(size, init) ==
    Layout(<<FLAG_MEMCPY, size>>,
           IF init = <<>> THEN <<FLAG_INIT_SKIP, size>> ELSE <<FLAG_INIT, size>> \o init)
pushSkip(size) == Layout(<<FLAG_SKIP, size>>, <<FLAG_INIT_SKIP, size>>)
pushArray(dim, l) ==
    Layout(<<FLAG_ARRAY, dim>> \o l.ops \o <<FLAG_END>>,
           <<FLAG_INIT_REPEAT, dim>> \o l.init_ops \o <<FLAG_INIT_END>>)
pushContainer(id, l) ==
    Layout(<<FLAG_CONTAINER, id>> \o l.ops \o <<FLAG_END>>, <<FLAG_INIT_CONTAINER, id>>)
Join(l1, l2) == Layout(l1.ops \o l2.ops, l1.init_ops \o l2.init_ops)

\* What the visitor throws, at the first type that it has no operation for.  The
\* visitors made for the elements of arrays and containers are not given the flags.
MaxEnumSize == 8

RECURSIVE Thrown(_, _)
Thrown(t, accepted) ==
    CASE t.kind = "pointer" /\ ~accepted.pointers -> "NoLayout"
      [] t.kind = "opaque" /\ ~accepted.opaques -> "NoLayout"
      [] t.kind = "enum" /\ t.size > MaxEnumSize -> "runtime_error"
      [] t.kind \in {"array", "container"} ->
            Thrown(t.of, [pointers |-> FALSE, opaques |-> FALSE])
      [] t.kind = "compound" ->
            LET threw == {i \in DOMAIN t.fields : Thrown(t.fields[i][2], accepted) # "nothing"}
            IN  IF threw = {} THEN "nothing" ELSE Thrown(t.fields[Min(threw)][2], accepted)
      [] OTHER -> "nothing"

\* The offset after the first n fields.
FieldEnd(t, n) == IF n = 0 THEN 0 ELSE t.fields[n][1] + t.fields[n][2].size

RECURSIVE raw_layout_of(_)
raw_layout_of(t) ==
    CASE t.kind \in {"numeric", "pointer"} -> pushMemcpy(t.size, <<>>)
      [] t.kind = "enum" -> pushMemcpy(t.size, t.init)
      [] t.kind = "opaque" -> pushSkip(t.size)
      [] t.kind = "array" -> pushArray(t.dim, raw_layout_of(t.of))
      [] t.kind = "container" -> pushContainer(t.id, raw_layout_of(t.of))
      [] t.kind = "compound" ->
            LET Field(i) == Join(pushSkip(t.fields[i][1] - FieldEnd(t, i - 1)),
                                 raw_layout_of(t.fields[i][2]))
            IN  Join(FoldLeft(Join, Layout(<<>>, <<>>),
                              [i \in DOMAIN t.fields |-> Field(i)]),
                     pushSkip(t.size - FieldEnd(t, Len(t.fields))))

-----------------------------------------------------------------------------
(* simplify() and simplifyInit().  A frame is one activation: the block that *)
(* it reads, where that block starts in the output, and the operation that   *)
(* is being accumulated.                                                     *)

Activation(block, dim, content_i) ==
    [block |-> block, dim |-> dim, content_i |-> content_i,
     op |-> FLAG_MEMCPY, count |-> 0, skip |-> 0, data |-> <<>>]

Machine(phase, in, ops, opts) ==
    [phase |-> phase, in |-> in, it |-> 1, out |-> <<>>, ops |-> ops, options |-> opts,
     frames |-> <<Activation("top", 0, 0)>>]

Fail(s, exception) == [s EXCEPT !.phase = exception]
Top(s) == Last(s.frames)
SetTop(s, f) == [s.frames EXCEPT ![Len(s.frames)] = f]
WithCaller(s, f) == SetTop([s EXCEPT !.frames = Front(@)], f)

\* Mutant: an empty operation is written as well.
FlushedAlways(out, f) == out \o <<f.op, f.count>>

\* The output once the accumulated operation is written.
Flushed(out, f) == IF f.count > 0 THEN out \o <<f.op, f.count>> ELSE out

\* FLAG_MEMCPY and FLAG_SKIP
Copy(s) ==
    LET op == s.in[s.it]
        size == s.in[s.it + 1]
        f == [Top(s) EXCEPT !.skip = IF op = FLAG_SKIP THEN @ + size ELSE 0]
        merged == [f EXCEPT !.op = IF op = f.op THEN op ELSE FLAG_MEMCPY, !.count = @ + size]
        same == op = f.op \/ s.options.merge_skip_copy
    IN  [s EXCEPT !.it = @ + 2,
                  !.out = IF same THEN @ ELSE Flushed(@, f),
                  !.frames = SetTop(s, IF same THEN merged
                                       ELSE [f EXCEPT !.op = op, !.count = size])]

\* FLAG_ARRAY: the accumulated operation is written, and stays in the frame.
EnterArray(s) ==
    LET out == Flushed(s.out, Top(s)) \o <<FLAG_ARRAY, s.in[s.it + 1]>>
    IN  [s EXCEPT !.it = @ + 2, !.out = out,
                  !.frames = Append(@, Activation("array", s.in[s.it + 1], Len(out)))]

\* Mutant: the operation that was written stays accumulated.
EnterContainerKept(s) ==
    LET out == Flushed(s.out, Top(s)) \o <<FLAG_CONTAINER, s.in[s.it + 1]>>
    IN  [s EXCEPT !.it = @ + 2, !.out = out,
                  !.frames = Append(@, Activation("container", 0, Len(out)))]

\* FLAG_CONTAINER
EnterContainer(s) ==
    LET out == Flushed(s.out, Top(s)) \o <<FLAG_CONTAINER, s.in[s.it + 1]>>
    IN  [s EXCEPT !.it = @ + 2, !.out = out,
                  !.frames = Append(SetTop(s, [Top(s) EXCEPT !.count = 0]),
                                    Activation("container", 0, Len(out)))]

\* ops.resize(content_i - n), on unsigned numbers.
Resized(s, out, content_i, n, caller) ==
    IF content_i < n THEN Fail(s, "length_error")
    ELSE [s EXCEPT !.it = @ + 1, !.out = SubSeq(out, 1, content_i - n),
                   !.frames = WithCaller(s, caller)]

\* FLAG_END of an array: an array of one operation becomes that operation, and
\* joins the one before it when that is of the same kind.
LeaveArray(s) ==
    LET f == Top(s)
        out == Flushed(s.out, f)
        caller == [Last(Front(s.frames)) EXCEPT !.skip = 0]
        added_ops == Len(out) - f.content_i
        op == out[f.content_i + 1]
        count == out[f.content_i + 2] * f.dim
    IN  CASE added_ops = 2 /\ op = caller.op /\ caller.count > 0 ->
               Resized(s, out, f.content_i, 4, [caller EXCEPT !.count = @ + count])
          [] added_ops = 2 /\ ~(op = caller.op /\ caller.count > 0) ->
               Resized(s, out, f.content_i, 2, [caller EXCEPT !.op = op, !.count = count])
          [] added_ops = 0 -> Resized(s, out, f.content_i, 4, caller)
          [] OTHER -> [s EXCEPT !.it = @ + 1, !.out = Append(out, FLAG_END),
                                !.frames = WithCaller(s, [caller EXCEPT !.count = 0])]

LeaveContainer(s) ==
    [s EXCEPT !.it = @ + 1, !.out = Append(Flushed(@, Top(s)), FLAG_END),
              !.frames = WithCaller(s, [Last(Front(s.frames)) EXCEPT !.skip = 0])]

\* The end of the bytecode: trailing holes go, and the initialization bytecode
\* is next.
Finish(s, init_ops) ==
    LET f == Top(s)
        kept == f.count > 0 /\ (~s.options.remove_trailing_skips \/ f.op # FLAG_SKIP)
        out == IF kept THEN s.out \o <<f.op, f.count - f.skip>> ELSE s.out
    IN  IF f.block # "top" THEN Fail(s, "InvalidMemoryLayout")
        ELSE Machine("init", init_ops, out, s.options)

Simplify(s, init_ops) ==
    IF s.it > Len(s.in) THEN Finish(s, init_ops)
    ELSE CASE s.in[s.it] \in {FLAG_MEMCPY, FLAG_SKIP} -> Copy(s)
           [] s.in[s.it] = FLAG_ARRAY -> EnterArray(s)
           [] s.in[s.it] = FLAG_CONTAINER -> EnterContainer(s)
           [] OTHER -> CASE Top(s).block = "array" -> LeaveArray(s)
                         [] Top(s).block = "container" -> LeaveContainer(s)
                         [] OTHER -> Fail(s, "InvalidMemoryLayout")

\* The initialization bytecode: accumulated data or accumulated holes, not both.
InitData(out, f) ==
    IF f.data # <<>> THEN out \o <<FLAG_INIT, Len(f.data)>> \o f.data ELSE out
InitSkip(out, f) ==
    IF f.count > 0 THEN out \o <<FLAG_INIT_SKIP, f.count>> ELSE out
InitFlushed(out, f) == IF f.count > 0 THEN InitSkip(out, f) ELSE InitData(out, f)

\* Mutant: the hole before the data is written twice.
InitKeptHole(s) ==
    LET size == s.in[s.it + 1]
        bytes == SubSeq(s.in, s.it + 2, s.it + 1 + size)
    IN  [s EXCEPT !.it = @ + 2 + size, !.out = InitSkip(@, Top(s)),
                  !.frames = SetTop(s, [Top(s) EXCEPT !.data = @ \o bytes])]

Init_(s) ==
    LET size == s.in[s.it + 1]
        bytes == SubSeq(s.in, s.it + 2, s.it + 1 + size)
    IN  [s EXCEPT !.it = @ + 2 + size, !.out = InitSkip(@, Top(s)),
                  !.frames = SetTop(s, [Top(s) EXCEPT !.count = 0, !.data = @ \o bytes])]

InitHole(s) ==
    [s EXCEPT !.it = @ + 2, !.out = InitData(@, Top(s)),
              !.frames = SetTop(s, [Top(s) EXCEPT !.data = <<>>, !.count = @ + s.in[s.it + 1]])]

InitContainer(s) ==
    [s EXCEPT !.it = @ + 2,
              !.out = InitFlushed(@, Top(s)) \o <<FLAG_INIT_CONTAINER, s.in[s.it + 1]>>,
              !.frames = SetTop(s, [Top(s) EXCEPT !.data = <<>>, !.count = 0])]

EnterRepeat(s) ==
    LET out == InitFlushed(s.out, Top(s)) \o <<FLAG_INIT_REPEAT, s.in[s.it + 1]>>
    IN  [s EXCEPT !.it = @ + 2, !.out = out,
                  !.frames = Append(SetTop(s, [Top(s) EXCEPT !.data = <<>>]),
                                    Activation("array", s.in[s.it + 1], Len(out)))]

LeaveRepeat(s) ==
    LET f == Top(s)
        out == InitFlushed(s.out, f)
        caller == Last(Front(s.frames))
        added_ops == Len(out) - f.content_i
        hole == added_ops = 2 /\ out[f.content_i + 1] = FLAG_INIT_SKIP
        squashed == [caller EXCEPT !.count = @ + out[f.content_i + 2] * f.dim]
    IN  CASE hole -> Resized(s, out, f.content_i, IF caller.count > 0 THEN 4 ELSE 2, squashed)
          [] added_ops = 0 -> Resized(s, out, f.content_i, 4, caller)
          [] OTHER -> [s EXCEPT !.it = @ + 1, !.out = Append(out, FLAG_INIT_END),
                                !.frames = WithCaller(s, [caller EXCEPT !.count = 0])]

\* The last hole is not written, and neither is one that is alone.
InitFinish(s) ==
    LET out == InitData(s.out, Top(s))
        alone == Len(out) = 2 /\ out[1] = FLAG_INIT_SKIP
    IN  IF Top(s).block # "top" THEN Fail(s, "InvalidMemoryLayout")
        ELSE [s EXCEPT !.phase = "done", !.out = IF alone THEN <<>> ELSE out]

SimplifyInit(s) ==
    IF s.it > Len(s.in) THEN InitFinish(s)
    ELSE CASE s.in[s.it] = FLAG_INIT -> Init_(s)
           [] s.in[s.it] = FLAG_INIT_SKIP -> InitHole(s)
           [] s.in[s.it] = FLAG_INIT_CONTAINER -> InitContainer(s)
           [] s.in[s.it] = FLAG_INIT_REPEAT -> EnterRepeat(s)
           [] OTHER -> IF Top(s).block = "array" THEN LeaveRepeat(s)
                       ELSE Fail(s, "InvalidMemoryLayout")

\* The position of the FLAG_END of the block in which i is.
RECURSIVE skipBlock(_, _, _)
skipBlock(ops, i, nesting) ==
    CASE i > Len(ops) -> i
      [] ops[i] \in {FLAG_ARRAY, FLAG_CONTAINER} -> skipBlock(ops, i + 2, nesting + 1)
      [] ops[i] = FLAG_END -> IF nesting = 0 THEN i ELSE skipBlock(ops, i + 1, nesting - 1)
      [] ops[i] \in {FLAG_SKIP, FLAG_MEMCPY} -> skipBlock(ops, i + 2, nesting)
      [] OTHER -> skipBlock(ops, i + 1, nesting)

\* Both passes, to the end.
RECURSIVE Simplified(_, _)
Simplified(s, init_ops) ==
    CASE s.phase = "ops" -> Simplified(Simplify(s, init_ops), init_ops)
      [] s.phase = "init" -> Simplified(SimplifyInit(s), init_ops)
      [] OTHER -> s

layout_of(t, opts) ==
    LET raw == raw_layout_of(t)
        s == Simplified(Machine("ops", raw.ops, <<>>, opts), raw.init_ops)
    IN  Layout(s.ops, s.out)
=============================================================================
