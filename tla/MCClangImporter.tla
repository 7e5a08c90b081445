-------------------------- MODULE MCClangImporter --------------------------
(***************************************************************************)
(* Headers for ClangImporter:                                              *)
(*    enum E;  struct S { ... };  typedef ... T;  typedef T A[2];          *)
(*    struct D : S, B { ... };                                             *)
(* with char and signed char, which are both /int8_t.  The names stand for *)
(* longer ones, unless the header says that they are not valid.            *)
(***************************************************************************)
EXTENDS ClangImporter

Builtin(n, sort, bits) ==
    [class |-> "Builtin", canonical |-> n, name |-> <<n>>, sort |-> sort, bits |-> bits]
Array(t, canonical) ==
    [class |-> "ConstantArray", canonical |-> canonical, element |-> t, dim |-> "[2]"]
Record(t, name, fields, bases) ==
    [class |-> "Record", canonical |-> t, name |-> name, fields |-> fields, bases |-> bases,
     identifier |-> TRUE, dependent |-> FALSE, complete |-> TRUE, polymorphic |-> FALSE,
     template |-> "", args |-> <<>>, size |-> 16]
Instance(t, template, arg) ==
    [Record(t, <<"std::" \o template, arg>>, <<[type |-> "P", offset |-> 0, anonymous |-> FALSE, private |-> FALSE]>>, <<>>)
       EXCEPT !.template = template, !.args = <<arg, "allocator">>]

Field(t, at) == [type |-> t, offset |-> at, anonymous |-> FALSE, private |-> FALSE]
Fields(ts) == [i \in DOMAIN ts |-> Field(ts[i], 32 * (i - 1))]

Fixed ==
    "int" :> Builtin("int", "SInt", 32) @@ "char" :> Builtin("char", "SInt", 8) @@
    "schar" :> Builtin("schar", "SInt", 8) @@ "float" :> Builtin("float", "Float", 32) @@
    "void" :> Builtin("void", "other", 8) @@
    "int[2]" :> Array("int", "int[2]") @@ "char[2]" :> Array("char", "char[2]") @@
    "schar[2]" :> Array("schar", "schar[2]") @@ "S[2]" :> Array("S", "S[2]") @@
    "int[2][2]" :> Array("int[2]", "int[2][2]") @@ "V[2]" :> Array("V", "V[2]") @@
    "P" :> [class |-> "Pointer", canonical |-> "P", name |-> <<"S*">>] @@
    "struct S" :> [class |-> "Elaborated", canonical |-> "S", named |-> "S"] @@
    "allocator" :> Record("allocator", <<"allocator">>, <<>>, <<>>) @@
    "V" :> Instance("V", "vector", "int") @@ "VS" :> Instance("VS", "vector", "S") @@
    "VP" :> Instance("VP", "vector", "P") @@
    "string" :> Instance("string", "string", "char") @@
    "wstring" :> Instance("wstring", "string", "int") @@
    "B" :> Record("B", <<"B">>, Fields(<<"float">>), <<>>)

Enums == {[class |-> "Enum", canonical |-> "E", name |-> <<"E">>, identifier |-> TRUE, private |-> p] : p \in BOOLEAN}

Struct(fields) == Record("S", <<"S">>, fields, <<>>)
Structs ==
    {Struct(Fields(ts)) : ts \in {<<>>, <<"int", "float">>, <<"E">>, <<"char[2]", "schar[2]">>,
        <<"schar", "char[2]">>, <<"V", "int">>, <<"VS">>, <<"VP">>, <<"string", "schar">>, <<"wstring">>,
        <<"int[2]", "P">>, <<"int[2][2]">>, <<"char[2]", "void">>}}
    \cup {Struct(<<Field("int", 0), [Field("char", 32) EXCEPT !.private = TRUE]>>),
          Struct(<<Field("int", 0), [Field("char", 32) EXCEPT !.anonymous = TRUE]>>),
          Struct(<<Field("int", 0), Field("char", 35)>>)}
    \cup {[Struct(Fields(<<"int">>)) EXCEPT !.identifier = FALSE],
          [Struct(Fields(<<"int">>)) EXCEPT !.dependent = TRUE],
          [Struct(Fields(<<"int">>)) EXCEPT !.complete = FALSE],
          [Struct(Fields(<<"int">>)) EXCEPT !.polymorphic = TRUE]}

Base(t, at, private) == [type |-> t, private |-> private, offset |-> at]
Bases ==
    {<<>>, <<Base("struct S", 0, FALSE)>>, <<Base("struct S", 0, TRUE)>>,
     <<Base("struct S", 0, FALSE), Base("B", 16, FALSE)>>}

\* The bases of a class, 16 bytes each, come before its own fields.
After(bases, ts) == [i \in DOMAIN ts |-> Field(ts[i], 128 * Len(bases) + 32 * (i - 1))]

Derived ==
    {[Record("D", <<"D">>, After(bases, ts), bases) EXCEPT !.size = 16 * Len(bases) + 32] :
        ts \in {<<>>, <<"S[2]">>, <<"schar[2]", "VS">>}, bases \in Bases}

Typedef(name, t, canonical) ==
    [class |-> "Typedef", canonical |-> canonical, name |-> <<name>>, underlying |-> t]

\* T is a typedef of u; A is one of T[2].
Types(e, s, d, u) ==
    Fixed @@ "E" :> e @@ "S" :> s @@ "D" :> d @@
    "T" :> Typedef("T", u, Fixed[u].canonical) @@
    "T[2]" :> Array("T", Fixed[u].canonical \o "[2]") @@
    "A" :> Typedef("A", "T[2]", Fixed[u].canonical \o "[2]")

\* Where the declarations are: the ones that are in functions or in anonymous namespaces,
\* and the names that are not valid.
Scope(ignored, invalid) == [ignored |-> ignored, invalid |-> invalid]
Global == Scope({}, {})
Scopes ==
    {Scope({"E"}, {}), Scope({"T", "A"}, {}),                        \* in a function
     Scope({"S"}, {"S"}), Scope({"E"}, {"E"}), Scope({"T"}, {"T"}),  \* in an anonymous namespace
     Scope({}, {"S"}), Scope({}, {"E"}), Scope({}, {"T"})}           \* a single letter

Header(e, s, d, u, m, o, c) ==
    [types |-> Types(e, s, d, u), decls |-> <<"E", "S", "T", "A", "D">>, main |-> m, opaques |-> o,
     ignored |-> c.ignored, invalid |-> c.invalid]

Mains == {{"E", "S", "T", "A", "D"}, {"A", "D"}, {"T", "D"}}
Opaques == {{}, {<<"T">>}, {<<"S">>}, {<<"S">>, <<"T">>}}

AllHeaders ==
    {Header(e, s, d, u, m, o, Global) :
        e \in Enums, s \in Structs, d \in Derived, u \in {"int", "V", "struct S"}, m \in Mains, o \in Opaques}

\* Opaques have valid names, and what is in a function is not used outside of it.
Scoped ==
    {h \in {Header(e, s, d, u, m, o, c) :
              e \in Enums, d \in {r \in Derived : Len(r.bases) = 1},
              s \in {Struct(Fields(ts)) : ts \in {<<"int", "float">>, <<"E">>, <<"VS">>, <<"int[2]", "P">>}},
              u \in {"int", "struct S"}, m \in Mains, o \in {{}, {<<"T">>}}, c \in Scopes} :
        /\ \A n \in h.opaques : n[1] \notin h.invalid
        /\ "E" \in h.ignored \ h.invalid => h.types["S"].fields # Fields(<<"E">>)}

MCHeaders ==
    {h \in AllHeaders \cup Scoped : h.types["E"].private => h.types["S"].fields = Fields(<<"E">>)}
=============================================================================
