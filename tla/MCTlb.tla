-------------------------------- MODULE MCTlb --------------------------------
EXTENDS Tlb

MCFieldOrder == <<"a", "b", "i", "s", "v", "x">>
MCNameOrder == <<"/I", "/I[2]", "/I[2][2]", "/J", "/J[2]", "/J[2][2]", "/S", "/S[2]", "/S[2][2]", "/T",
                 "/v</I>", "/v</J>", "/v</S>">>
MCDerived ==
    (<<"[2]", "/I">> :> "/I[2]") @@ (<<"[2]", "/J">> :> "/J[2]") @@ (<<"[2]", "/S">> :> "/S[2]")
    @@ (<<"[2]", "/I[2]">> :> "/I[2][2]") @@ (<<"[2]", "/J[2]">> :> "/J[2][2]")
    @@ (<<"[2]", "/S[2]">> :> "/S[2][2]") @@ (<<"[2]", "/I[2][2]">> :> "/I[2][2][2]")
    @@ (<<"vector", "/I">> :> "/v</I>") @@ (<<"vector", "/J">> :> "/v</J>") @@ (<<"vector", "/S">> :> "/v</S>")
Name(base, mods) == [base |-> base, mods |-> mods]
MCParsed ==
    [n \in {"/I", "/J", "/S", "/T", "/v</I>", "/v</J>", "/v</S>"} |-> Name(n, <<>>)]
    @@ ("/I[2]" :> Name("/I", <<"[2]">>)) @@ ("/I[2][2]" :> Name("/I", <<"[2]", "[2]">>))
    @@ ("/J[2]" :> Name("/J", <<"[2]">>)) @@ ("/J[2][2]" :> Name("/J", <<"[2]", "[2]">>))
    @@ ("/S[2]" :> Name("/S", <<"[2]">>)) @@ ("/S[2][2]" :> Name("/S", <<"[2]", "[2]">>))
MCBuilt == {"/I[2]", "/J[2]", "/S[2]"}

Leaf(cat, size, data, meta) ==
    [cat |-> cat, size |-> size, data |-> data, mod |-> "", refs |-> <<>>, meta |-> meta]
Sint(size) == Leaf("Numeric", size, "sint", "doc" :> {"a", "b"})
Struct(size, refs) == [Leaf("Compound", size, "", "empty" :> {}) EXCEPT !.refs = refs]
VectorOf(t, size) == On("Container", size, "vector", "vector", t)
Named(n, d) == [name |-> n, def |-> d, source |-> IF n \in {"/I", "/v</I>", "/T"} THEN "a.h" ELSE NoSource]

\* A type of each kind; containers of two platforms; fields out of order and at one offset
MCDefinitions ==
    {Named("/I", Sint(4)), Named("/v</I>", VectorOf("/I", 12)), Named("/v</S>", VectorOf("/S", 24)),
     Named("/S", Leaf("Null", 0, "", <<>>)), Named("/S", Leaf("Opaque", 16, "", <<>>)),
     Named("/S", Leaf("Enum", EnumSize, "symbols", <<>>)),
     Named("/S", Struct(8, <<Ref("x", 4, "/I", "unit" :> {"m"})>>)),
     Named("/S", Struct(12, <<Ref("x", 4, "/I[2]", <<>>), Ref("b", 4, "/I", <<>>)>>)),
     Named("/T", Struct(20, <<Ref("s", 0, "/S[2]", <<>>), Ref("i", 16, "/I", <<>>)>>)),
     Named("/T", Struct(20, <<Ref("a", 12, "/I[2]", <<>>), Ref("v", 0, "/v</I>", <<>>)>>))}
MCAliases == {<<"/J", "/I">>, <<"/J", "/S">>, <<"/J", "/I[2]">>}

Own(types) == [types |-> types, names |-> [n \in DOMAIN types |-> Entry(n, isPersistent(types[n]), NoSource)]]
\* An empty registry; one of another width; one where /S is a name of /I
MCOthers ==
    {Empty, Own("/I" :> Leaf("Numeric", 8, "sint", <<>>)),
     alias(Own("/I" :> Sint(4)), "/I", "/S", TRUE),
     Own(("/I" :> Sint(4)) @@ ("/v</I>" :> VectorOf("/I", 24)))}
=============================================================================
