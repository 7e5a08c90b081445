----------------------------- MODULE Endianness -----------------------------
(***************************************************************************)
(* The two byte swappers (typelib/endianness.cc, endianness.hh): the one   *)
(* that walks through a value and reverses each number in place, on top of *)
(* ValueVisitor (typelib/value.cc), and the one that compiles a type into  *)
(* a program once and runs it from one buffer to another.                  *)
(*                                                                         *)
(* A type is a record: a number ("num", with its category and size), an    *)
(* enum, a pointer, an opaque, a container, an array ("arr", of and dim)   *)
(* or a compound ("cmp", with the sequence of its fields, each an offset   *)
(* and a type).  A value is the sequence of its bytes.                     *)
(***************************************************************************)
EXTENDS Integers, Sequences, FiniteSets, SequencesExt

CONSTANTS
    Types,      \* the types of the values
    Rejected,   \* a type that does not compile, given to the same visitor
    Unset       \* a byte of the result that was not written

VARIABLES
    type, value,    \* the value
    swaps,          \* how many times it was swapped in place: 0, 1 or 2
    thrown,         \* whether that threw
    m_compiled,     \* the program of the visitor
    compiled,       \* whether it is the whole program for type
    out             \* what swap() returned: the result, and whether it stayed inside

vars == <<type, value, swaps, thrown, m_compiled, compiled, out>>

\* The flags, as the negative numbers that they are before the cast to size_t.
FLAG_SKIP == -1
FLAG_ARRAY == -2
FLAG_END == -3
FLAG_SWAP_4 == -4
FLAG_SWAP_8 == -5
SizeOfEnum == 4

-----------------------------------------------------------------------------
\* Endian::swap() on the bytes of a number, least significant first: what the masks
\* and the shifts of swap_helper move where.
swap_helper(b) ==
    CASE Len(b) = 1 -> b
      [] Len(b) = 2 -> <<b[2], b[1]>>
      [] Len(b) = 4 -> <<b[4], b[3], b[2], b[1]>>
      [] Len(b) = 8 -> <<b[8], b[7], b[6], b[5]>> \o <<b[4], b[3], b[2], b[1]>>

\* A number of n bytes at an offset is replaced.
SwapAt(v, off, n) ==
    [i \in DOMAIN v |-> IF i \in (off + 1)..(off + n)
                        THEN swap_helper(SubSeq(v, off + 1, off + n))[i - off] ELSE v[i]]

\* The state of the walk: the bytes, and whether no visit has thrown.
SwapNumber(st, t, off) ==
    IF t.size \in (IF t.cat = "float" THEN {4, 8} ELSE {1, 2, 4, 8})
    THEN [st EXCEPT !.v = SwapAt(@, off, t.size)] ELSE [st EXCEPT !.ok = FALSE]

RECURSIVE VisitValue(_, _, _)
\* Mutant: the elements are a byte apart.
VisitElementsPacked(st, t, off) ==
    FoldLeft(LAMBDA s, i : VisitValue(s, t.of, off + i - 1), st, [i \in 1..t.dim |-> i])
VisitElements(st, t, off) ==
    FoldLeft(LAMBDA s, i : VisitValue(s, t.of, off + t.of.size * (i - 1)), st,
             [i \in 1..t.dim |-> i])
VisitFields(st, t, off) ==
    FoldLeft(LAMBDA s, f : VisitValue(s, f.type, off + f.offset), st, t.fields)
VisitValue(st, t, off) ==
    CASE ~st.ok -> st
      [] st.ok /\ t.k = "num" -> SwapNumber(st, t, off)
      [] st.ok /\ t.k = "enum" -> [st EXCEPT !.v = SwapAt(@, off, SizeOfEnum)]
      [] st.ok /\ t.k = "ptr" -> [st EXCEPT !.ok = FALSE]
      [] st.ok /\ t.k = "opaque" -> st
      [] st.ok /\ t.k = "arr" -> VisitElements(st, t, off)
      [] st.ok /\ t.k = "cmp" -> VisitFields(st, t, off)

InPlace(v, t) == VisitValue([v |-> v, ok |-> TRUE], t, 0)
-----------------------------------------------------------------------------
\* Compilation: the program so far, m_output_index, and whether no visit has thrown.
skip(code, n) ==
    IF Len(code) > 1 /\ code[Len(code) - 1] = FLAG_SKIP THEN [code EXCEPT ![Len(code)] = @ + n]
    ELSE code \o <<FLAG_SKIP, n>>

CompileNumeric(st, t) ==
    CASE t.size = 1 -> [st EXCEPT !.code = skip(@, 1)]
      [] t.size = 2 -> [st EXCEPT !.code = @ \o <<st.index + 1, st.index>>]
      [] t.size = 4 -> [st EXCEPT !.code = Append(@, FLAG_SWAP_4)]
      [] t.size = 8 -> [st EXCEPT !.code = Append(@, FLAG_SWAP_8)]
      [] OTHER -> [st EXCEPT !.ok = FALSE]

CompileEnum(st) ==
    [st EXCEPT !.code = @ \o [i \in 1..SizeOfEnum |-> st.index + SizeOfEnum - i]]

RECURSIVE Compile(_, _)
\* An array of bytes is one skip; n is the size of the program before the element's.
EndArray(st, n, dim) ==
    CASE ~st.ok -> st
      [] st.ok /\ Len(st.code) = n + 2 /\ st.code[n + 1] = FLAG_SKIP ->
            [st EXCEPT !.code = SubSeq(@, 1, n - 3) \o <<FLAG_SKIP, @[n + 2] * dim>>]
      [] OTHER -> [st EXCEPT !.code = Append(@, FLAG_END)]

\* The header that the nested array pushed first, or its skip, is scaled.
Scale(st, n, dim) == IF st.ok THEN [st EXCEPT !.code[n + 2] = @ * dim] ELSE st

CompileArray(st, t) ==
    IF t.of.k = "arr" THEN Scale(Compile(st, t.of), Len(st.code), t.dim)
    ELSE EndArray(Compile([st EXCEPT !.code = @ \o <<FLAG_ARRAY, t.dim, t.of.size>>], t.of),
                  Len(st.code) + 3, t.dim)

MoveTo(st, n) ==
    [st EXCEPT !.code = IF n > st.index THEN skip(@, n - st.index) ELSE @, !.index = n]

\* Mutant: the offset of the compound is not added.
CompileFieldRelative(st, f, base) ==
    IF ~st.ok \/ f.offset < st.index THEN st
    ELSE [Compile(MoveTo(st, f.offset), f.type) EXCEPT !.index = f.offset + f.type.size]
CompileField(st, f, base) ==
    IF ~st.ok \/ base + f.offset < st.index THEN st
    ELSE [Compile(MoveTo(st, base + f.offset), f.type) EXCEPT !.index = base + f.offset + f.type.size]
CompileCompound(st, t) ==
    FoldLeft(LAMBDA s, f : CompileField(s, f, st.index), st, t.fields)

Compile(st, t) ==
    CASE ~st.ok -> st
      [] st.ok /\ t.k = "num" -> CompileNumeric(st, t)
      [] st.ok /\ t.k = "enum" -> CompileEnum(st)
      [] st.ok /\ t.k \in {"ptr", "opaque", "container"} -> [st EXCEPT !.ok = FALSE]
      [] st.ok /\ t.k = "arr" -> CompileArray(st, t)
      [] st.ok /\ t.k = "cmp" -> CompileCompound(st, t)
-----------------------------------------------------------------------------
\* Interpretation: the bytes written, output_offset, the position in the program, and
\* whether every access was inside of the values.
Inside(v, off, n) == off + n <= Len(v)

\* n bytes at output_offset are set to bytes of the input.
Write(st, bytes) ==
    [st EXCEPT !.v = [i \in DOMAIN @ |-> IF i - st.off \in DOMAIN bytes THEN bytes[i - st.off] ELSE @[i]],
               !.off = @ + Len(bytes)]
CopyBytes(st, in, n) ==
    IF Inside(in, st.off, n) THEN Write(st, SubSeq(in, st.off + 1, st.off + n))
    ELSE [st EXCEPT !.ok = FALSE]
SwapBytes(st, in, n) ==
    IF Inside(in, st.off, n) THEN Write(st, swap_helper(SubSeq(in, st.off + 1, st.off + n)))
    ELSE [st EXCEPT !.ok = FALSE]
MoveByte(st, in, from) ==
    IF Inside(in, st.off, 1) /\ Inside(in, from, 1) THEN Write(st, <<in[from + 1]>>)
    ELSE [st EXCEPT !.ok = FALSE]

Skipped(st, n) == [st EXCEPT !.it = @ + n]

RECURSIVE Run(_, _, _, _)
\* The element's program is run once per element; array_end is what the last run
\* returned, and is not initialized when there is none.
RunArray(code, st, in, io) ==
    IF code[st.it + 1] = 0 THEN [st EXCEPT !.ok = FALSE]
    ELSE FoldLeft(LAMBDA s, i : Run(code, [s EXCEPT !.it = st.it + 3], in,
                                    io + code[st.it + 2] * (i - 1)),
                  st, [i \in 1..code[st.it + 1] |-> i])

RunOne(code, st, in, io) ==
    CASE code[st.it] = FLAG_SKIP -> Skipped(CopyBytes(st, in, code[st.it + 1]), 2)
      [] code[st.it] = FLAG_SWAP_4 -> Skipped(SwapBytes(st, in, 4), 1)
      [] code[st.it] = FLAG_SWAP_8 -> Skipped(SwapBytes(st, in, 8), 1)
      [] code[st.it] = FLAG_ARRAY -> Skipped(RunArray(code, st, in, io), 1)
      [] OTHER -> Skipped(MoveByte(st, in, io + code[st.it]), 1)

Run(code, st, in, io) ==
    IF ~st.ok \/ st.it > Len(code) THEN st
    ELSE IF code[st.it] = FLAG_END THEN st
    ELSE Run(code, RunOne(code, st, in, io), in, io)
-----------------------------------------------------------------------------
Bytes(t) == [i \in 1..t.size |-> i]
NoOut == [v |-> <<>>, ok |-> TRUE]

Init ==
    /\ type \in Types /\ value = Bytes(type)
    /\ swaps = 0 /\ thrown = FALSE
    /\ m_compiled = <<>> /\ compiled = FALSE
    /\ out = NoOut

\* endian_swap(v).  (What a container would visit is not part of the value's bytes.)
EndianSwap ==
    /\ swaps < 2
    /\ \E st \in {InPlace(value, type)} : value' = st.v /\ thrown' = ~st.ok
    /\ swaps' = swaps + 1
    /\ out' = NoOut
    /\ UNCHANGED <<type, m_compiled, compiled>>

\* apply(t): the program starts anew, and is incomplete when it throws.
Apply(t) ==
    /\ \E st \in {Compile([code |-> <<>>, index |-> 0, ok |-> TRUE], t)} :
          m_compiled' = st.code /\ compiled' = (st.ok /\ t = type)
    /\ out' = NoOut
    /\ UNCHANGED <<type, value, swaps, thrown>>

\* swap(in, out) with the program for the type of the two values.
Swap ==
    /\ compiled
    /\ \E st \in {Run(m_compiled, [v |-> [i \in DOMAIN value |-> Unset], off |-> 0, it |-> 1, ok |-> TRUE],
                      value, 0)} :
          out' = [v |-> st.v, ok |-> st.ok]
    /\ UNCHANGED <<type, value, swaps, thrown, m_compiled, compiled>>

Next == EndianSwap \/ Apply(type) \/ Apply(Rejected) \/ Swap

Spec == Init /\ [][Next]_vars
-----------------------------------------------------------------------------
\* The numbers in a value of type t at an offset, as pairs of an offset and a size.
RECURSIVE Scalars(_, _)
Scalars(t, off) ==
    CASE t.k = "num" -> {<<off, t.size>>}
      [] t.k = "enum" -> {<<off, SizeOfEnum>>}
      [] t.k = "arr" -> UNION {Scalars(t.of, off + t.of.size * (i - 1)) : i \in 1..t.dim}
      [] t.k = "cmp" -> UNION {Scalars(f.type, off + f.offset) : f \in Range(t.fields)}
      [] OTHER -> {}
Of(v, s) == SubSeq(v, s[1] + 1, s[1] + s[2])
Covers(s, i) == s[1] < i /\ i <= s[1] + s[2]

RECURSIVE Parts(_)
Parts(t) ==
    CASE t.k = "arr" -> {t.of} \cup Parts(t.of)
      [] t.k = "cmp" -> UNION {{f.type} \cup Parts(f.type) : f \in Range(t.fields)}
      [] OTHER -> {}
WithParts(t) == {t} \cup Parts(t)

\* No union: the numbers do not overlap.
Disjoint(t) == \A i \in 1..t.size : Cardinality({s \in Scalars(t, 0) : Covers(s, i)}) <= 1
\* Nothing inside of the value ends with padding, and no array is empty.
Padded(t) == t.k = "cmp" /\ \A f \in Range(t.fields) : f.offset + f.type.size < t.size
EmptyArray(t) == t.k = "arr" /\ t.dim = 0
Regular(t) == /\ ~\E p \in Parts(t) : Padded(p)
              /\ ~\E p \in WithParts(t) : EmptyArray(p)

\* A byte of a value is known by its place in the value before any swap.
TypeOK ==
    /\ type \in Types /\ value \in [1..type.size -> 1..type.size]
    /\ swaps \in 0..2 /\ thrown \in BOOLEAN /\ compiled \in BOOLEAN
    /\ \A i \in DOMAIN m_compiled : m_compiled[i] \in -5..1000
    /\ out = NoOut \/ out.v \in [1..type.size -> 1..type.size \cup {Unset}]

\* The compiled program, run by a visitor that may have failed on another type
\* before, reverses the bytes of every number of a value without padding inside;
\* whatever the padding, it reads and writes inside of the two values.
CompiledSwaps ==
    /\ TypeOK
    /\ (\A p \in WithParts(type) : ~EmptyArray(p)) => out.ok
    /\ out # NoOut /\ Disjoint(type) /\ Regular(type) =>
          \A s \in Scalars(type, 0) : Of(out.v, s) = Reverse(Of(value, s))

\* The swap in place reverses every number and nothing else, and done twice gives the
\* value back; a type that compiles is one whose values it swaps to the end.
InPlaceSwaps ==
    /\ compiled => ~thrown
    /\ ~thrown /\ Disjoint(type) =>
         /\ \A s \in Scalars(type, 0) :
               Of(value, s) = IF swaps = 1 THEN Reverse(Of(Bytes(type), s)) ELSE Of(Bytes(type), s)
         /\ \A i \in 1..type.size : (\A s \in Scalars(type, 0) : ~Covers(s, i)) => value[i] = i

\* "Creates a new value with an endianness opposite of the one of self"
\* (bindings/ruby/ext/value.cc:510), whatever the type.
OppositeEndianness ==
    out # NoOut /\ Disjoint(type) =>
        \A s \in Scalars(type, 0) : Of(out.v, s) = Reverse(Of(value, s))
=============================================================================
