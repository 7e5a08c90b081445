----------------------------- MODULE MCTypeModel -----------------------------
EXTENDS TypeModel

\* /I, /L numerics, /E an enumeration, /S and /T compounds, /y a typedef.
MCNameOrder == <<"E", "E[2]", "I", "I[2]", "L", "N", "O", "S", "S*", "T", "V", "y", "y*">>
MCDerived ==
    (<<"*", "S">> :> "S*") @@ (<<"*", "y">> :> "y*") @@ (<<"[2]", "I">> :> "I[2]")
    @@ (<<"[2]", "E">> :> "E[2]") @@ (<<"vector", "I">> :> "V")
MCBaseName ==
    [n \in {"E", "I", "L", "N", "O", "S", "T", "V", "y"} |-> n]
    @@ ("E[2]" :> "E") @@ ("I[2]" :> "I") @@ ("S*" :> "S") @@ ("y*" :> "y")

SizeOf(n) == CASE n \in {"I", "E"} -> 4 [] n = "V" -> 24 [] n = "N" -> 0 [] OTHER -> 8

\* The objects of registry l.  S = {first; padding; second; padding} and
\* T = {S; S*}.  S may hold the pointer on itself, hence the fixed size.
LibraryObjects(l, first, second, symbols, doc) ==
    LET T(n) == <<l, n>>
        size == 8 + SizeOf(second) + 4
        leaves == (T("I") :> [Numeric("I", 4, "sint") EXCEPT !.meta = {doc}])
               @@ (T("L") :> Numeric("L", 8, "sint"))
               @@ (T("N") :> NullType("N"))
               @@ (T("O") :> OpaqueType("O", 8))
               @@ (T("E") :> Enum("E", symbols))
               @@ (T("S") :> [Compound("S") EXCEPT !.size = size])
        derived == leaves
               @@ (T("I[2]") :> Array(leaves, T("I"), 2))
               @@ (T("E[2]") :> Array(leaves, T("E"), 2))
               @@ (T("V") :> Vector(leaves, T("I")))
               @@ (T("S*") :> Pointer(leaves, T("S")))
        Struct(c, f, t, g, u, offset) ==
            addField(derived, addField(derived, c, f, t, 0), g, u, offset)
    IN  [derived EXCEPT ![T("S")] = Struct(@, "f1", T(first), "f2", T(second), 8)]
        @@ (T("T") :> Struct(Compound("T"), "s", T("S"), "p", T("S*"), size))

LibraryMap(l, names, aliases, source) ==
    [n \in names |-> Entry(<<l, n>>, IF n \in {"S", "T", "I"} THEN source ELSE NoSource)]
    @@ [n \in DOMAIN aliases |-> Entry(<<l, aliases[n]>>, source)]
    @@ IF "y" \in DOMAIN aliases /\ aliases["y"] = "S"
       THEN ("y*" :> Entry(<<l, "S*">>, NoSource)) ELSE <<>>

Registered1(first, second) == {"I", "L", "E", "S", "S*", "T", first, second}

Pair(f1, s1, a1, f2, s2, sym2, a2) ==
    [objs |-> LibraryObjects("A", f1, s1, {"a"}, "doc A") @@ LibraryObjects("B", f2, s2, sym2, "doc B"),
     lib |-> [l \in {"A", "B"} |->
                IF l = "A" THEN LibraryMap("A", Registered1(f1, s1), a1, "a.h")
                ELSE LibraryMap("B", Registered1(f2, s2), a2, "b.h")]]

\* Recursive compounds whose first or second field, or typedef, differs;
\* enumerations, alone and in arrays, that differ; the other categories.
MCLibraries ==
    {Pair("I", "S*", "y" :> "S", f2, s2, {"a"}, a2) :
        f2 \in {"I", "L"}, s2 \in {"S*", "L"}, a2 \in {<<>>, "y" :> "S", "y" :> "T"}}
    \cup {Pair("E", "E[2]", <<>>, f2, "E[2]", sym2, "y" :> "S") :
        f2 \in {"E", "I"}, sym2 \in {{"a"}, {"a", "b"}}}
    \cup {Pair("I", s1, <<>>, f2, s2, {"a"}, "y" :> "S") :
        s1 \in {"I[2]", "V"}, f2 \in {"I", "S*"}, s2 \in {"I[2]", "V"}}
    \cup {Pair("O", s1, <<>>, "O", s2, {"a"}, "y" :> "T") : s1 \in {"O", "N"}, s2 \in {"O", "L", "N"}}

MCMinName == {"S", "T"}
MCNewSizes == {"I" :> 8, "S" :> 40, ("I" :> 8) @@ ("E" :> 8)}
MCCancelling == {("I" :> 8) @@ ("L" :> 4)}
=============================================================================
