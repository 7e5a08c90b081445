---------------------------- MODULE MCIDLExport ----------------------------
(* A registry with two structures, an enumeration, a container, a string, an   *)
(* array of arrays, a pointer and an opaque, with what each one holds, and      *)
(* aliases of every sort.                                                       *)
EXTENDS IDLExport, TLC

CONSTANTS num, str, enm, S, T, V, arr, sub, ptr, opq, reserved, under, array, seq, any, int, tag

MCCategory ==
    num :> "numeric" @@ str :> "string" @@ enm :> "enum" @@ S :> "compound" @@ T :> "compound"
    @@ V :> "container" @@ arr :> "array" @@ sub :> "array" @@ ptr :> "pointer" @@ opq :> "opaque"
MCTarget ==
    reserved :> T @@ under :> S @@ array :> arr @@ seq :> V @@ any :> opq @@ int :> num @@ tag :> S
MCNamespace ==
    [e \in Entry |-> CASE e \in {num, ptr, sub, array, any, int} -> <<>>
                      [] e \in {str, V} -> <<"std">>
                      [] e \in {enm, S, arr, reserved, tag} -> <<"a">>
                      [] e = T -> <<"a", "b">>
                      [] e \in {opq, under, seq} -> <<"c">>]
MCNsOf == [e \in Entry |-> MCNamespace[e]]
MCBasename ==
    num :> <<"double">> @@ str :> <<"string">> @@ enm :> <<"E">> @@ S :> <<"S">>
    @@ T :> <<"T", "<", "x", ",", "x", ">">> @@ V :> <<"vector", "<", "x", ">">> @@ arr :> <<"S", "[2]">>
    @@ sub :> <<"double", "[2]">> @@ ptr :> <<"double", "*">> @@ opq :> <<"O">>
    @@ reserved :> <<"vector", "_", "_", "a", "_", "S", "_">> @@ under :> <<"_", "X">>
    @@ array :> <<"Y">> @@ seq :> <<"Z", "<", "x", ">">> @@ any :> <<"W">>
    @@ int :> <<"unsigned", " ", "int">> @@ tag :> <<"struct", " ", "S">>
MCRank ==
    [e \in Entry |-> CHOOSE i \in 1..17 :
        <<int, any, array, num, ptr, sub, enm, S, tag, arr, reserved, under, opq, seq, str, V, T>>[i] = e]
MCToken ==
    {"double", "string", "E", "S", "T", "x", "vector", "[2]", "O", "*", "_", "a", "X", "Y", "Z", "W",
     "unsigned", "int", "struct", "b", "c", "std", "p", "s", " ", "<", ">", ","}
MCNsOrder == <<<<>>, <<"a">>, <<"a", "b">>, <<"c">>, <<"std">>>>

MCDependencies ==
    {[t \in Type |-> CASE t = S -> {num, enm, str} [] t = T -> f [] t = V -> {v} [] t = arr -> {a}
                      [] t \in {str, sub, ptr} -> {num} [] OTHER -> {}] :
        f \in {{V}, {arr, num}, {S, V, opq}, {ptr}},
        v \in {num, str, S, arr, opq, ptr}, a \in {num, S, sub, ptr}}

\* Arrays and pointers are never persistent.
MCPersistence ==
    {Entry \ ({arr, sub, ptr} \cup out) : out \in {{}, {opq, reserved, array}}}

MCConfigs ==
    {[prefix |-> p[1], suffix |-> p[2], selected |-> s, big |-> b, any |-> o] :
        p \in {<<<<"p">>, <<>>>>, <<<<>>, <<"s">>>>}, s \in {{}, {S, V, num, arr}},
        b \in {{}, {S, T}, {S, T, V, arr}}, o \in BOOLEAN}
=============================================================================
