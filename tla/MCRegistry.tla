----------------------------- MODULE MCRegistry -----------------------------
(***************************************************************************)
(* Instances of Registry.  The components are "x", "y" and "z" and what    *)
(* the modifiers * and [2] make of them.  (A definition that stands for a  *)
(* constant is evaluated at every use; one that it refers to is not.)      *)
(***************************************************************************)
EXTENDS Registry, TLC

CONSTANTS x, zx, p, arr, c, ptr, dim2

\* /x, /z/x, /x*, /x*[2], and /c = struct { x; z/x; }
AllTypeNames ==
    x :> <<"/", "x">> @@ zx :> <<"/", "z", "x">> @@ p :> <<"/", "x*">> @@
    arr :> <<"/", "x*[2]">> @@ c :> <<"/", "c">>
AllDependencies == x :> {} @@ zx :> {} @@ p :> {x} @@ arr :> {p} @@ c :> {x, zx}
TypeNames == [t \in Type |-> AllTypeNames[t]]
Dependencies == [t \in Type |-> AllDependencies[t]]
Kinds == [t \in Type |-> CASE t = p -> ptr [] t = arr -> dim2 [] OTHER -> NoKind]
Bases == [t \in Type |-> CASE t = p -> x [] t = arr -> p [] OTHER -> NoType]
MCTypeName == TypeNames
MCDeps == Dependencies
MCKindOf == Kinds
MCBase == Bases

Ranks == "/" :> 0 @@ "c" :> 1 @@ "x" :> 2 @@ "x*" :> 3 @@ "x*[2]" :> 4 @@ "x*[2]*" :> 5 @@
         "y" :> 6 @@ "y*" :> 7 @@ "y*[2]" :> 8 @@ "y[2]" :> 9 @@ "z" :> 10 @@
         "t<1>" :> 11 @@ "t<1>*" :> 12
MCRank == Ranks

\* A pointer on an array or on a template has no valid name.  The bound on names
\* also ends here: a derived name outside of Name is taken as not valid.
Star == "x" :> "x*" @@ "y" :> "y*"
Square == "x*" :> "x*[2]" @@ "y*" :> "y*[2]" @@ "y" :> "y[2]"
Extend(f, n) ==
    LET k == n[Len(n)]
        ext == [n EXCEPT ![Len(n)] = f[k]]
    IN  IF k \in DOMAIN f /\ ext \in Name THEN ext ELSE NoName
DerivedNames ==
    [k \in Kind |-> [n \in Name |-> Extend(IF k = ptr THEN Star ELSE Square, n)]]
MCDerived == DerivedNames

Parse(n) ==
    LET k == n[Len(n)]
        Of(a, m) == [base |-> [n EXCEPT ![Len(n)] = a], mods |-> m]
    IN  CASE k = "x*"     -> Of("x", <<ptr>>)            [] k = "y*"    -> Of("y", <<ptr>>)
          [] k = "x*[2]"  -> Of("x", <<ptr, dim2>>)      [] k = "y*[2]" -> Of("y", <<ptr, dim2>>)
          [] k = "x*[2]*" -> Of("x", <<ptr, dim2, ptr>>) [] k = "y[2]"  -> Of("y", <<dim2>>)
          [] k = "t<1>*"  -> Of("t<1>", <<ptr>>)         [] OTHER -> Of(k, <<>>)
ParsedNames == [n \in Name |-> Parse(n)]
MCParsed == ParsedNames

RelNames == UNION {{SubSeq(n, i, Len(n)) : i \in 2..Len(n)} : n \in Name}
MCRelName == RelNames

Root == <<"/">>
OnlyRoot == {Root}
RootAndZ == {Root, <<"/", "z">>}
OnlyZ == {<<"/", "z">>}

\* Derived types: aliases, one of them on which no pointer can be named, the type
\* builder, removal of whole dependency chains; a name that the builder cannot
\* finish, one that is not valid, and a relative one.
DerivedTypeNames ==
    {<<"/", k>> : k \in {"x", "x*", "x*[2]", "x*[2]*", "y", "y*", "y*[2]", "y[2]",
                         "t<1>", "t<1>*"}}
DerivedTypeName == DerivedTypeNames
DerivedAlias == {<<"/", "y">>, <<"/", "t<1>">>}
DerivedBuild == {<<"/", "y*[2]">>, <<"/", "x*[2]*">>, <<"/", "t<1>*">>, <<"x*">>}

\* Namespaces: the same relative name in "/" and in "/z/".
NestedNames == {<<"/", "c">>, <<"/", "x">>, <<"/", "y">>, <<"/", "z", "x">>, <<"/", "z", "y">>}
NestedName == NestedNames
NestedAlias == {<<"/", "y">>, <<"/", "z", "y">>, <<"/", "z", "x">>}
=============================================================================
