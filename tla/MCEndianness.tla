---------------------------- MODULE MCEndianness ----------------------------
(***************************************************************************)
(* Types for Endianness: the numbers and the types that are not supported, *)
(* arrays of them and of arrays, compounds of two or three of these laid   *)
(* out as a compiler does, a compound with padding at its end inside of    *)
(* others, and a union.                                                    *)
(***************************************************************************)
EXTENDS Endianness, FiniteSetsExt

Num(cat, size) == [k |-> "num", cat |-> cat, size |-> size]
Numbers == {Num("int", n) : n \in {1, 2, 4, 8}} \cup {Num("float", 4)}
Enum == [k |-> "enum", size |-> 4]
Pointer == [k |-> "ptr", size |-> 8]
Opaque == [k |-> "opaque", size |-> 3]
Container == [k |-> "container", size |-> 24]
Arr(t, n) == [k |-> "arr", of |-> t, dim |-> n, size |-> n * t.size]

RECURSIVE Align(_)
Align(t) ==
    CASE t.k = "arr" -> Align(t.of)
      [] t.k = "cmp" -> Max({Align(f.type) : f \in Range(t.fields)})
      [] t.k = "opaque" -> 1
      [] OTHER -> t.size
Up(n, a) == ((n + a - 1) \div a) * a
Cmp(ts) ==
    LET Place(fs, t) ==
            Append(fs, [offset |-> IF fs = <<>> THEN 0
                                   ELSE Up(Last(fs).offset + Last(fs).type.size, Align(t)), type |-> t])
        fields == FoldLeft(Place, <<>>, ts)
    IN  [k |-> "cmp", fields |-> fields,
         size |-> Up(Last(fields).offset + Last(fields).type.size, Max({Align(t) : t \in Range(ts)}))]

Arrays == {Arr(Num("int", 1), 3), Arr(Num("int", 2), 2), Arr(Arr(Num("int", 1), 2), 3),
           Arr(Arr(Num("int", 4), 2), 2), Arr(Enum, 2)}
Pairs == {Cmp(<<a, b>>) : a \in Numbers \cup {Enum}, b \in Numbers \cup Arrays \cup {Pointer, Opaque}}
Triples == {Cmp(<<a, b, c>>) : a \in {Num("int", 1), Num("int", 4), Arr(Num("int", 1), 3)},
                               b \in {Num("int", 2), Enum}, c \in {Num("int", 1), Num("int", 8)}}
Union == [k |-> "cmp", size |-> 4,
          fields |-> <<[offset |-> 0, type |-> Num("int", 4)], [offset |-> 0, type |-> Num("int", 2)]>>]
Inner == {Cmp(<<Num("int", 4), Num("int", 1)>>), Cmp(<<Num("int", 1), Num("int", 2)>>), Union}
Nested == UNION {{Arr(c, 2), Cmp(<<c, Num("int", 2)>>), Cmp(<<Num("int", 1), c, Num("int", 4)>>),
                  Cmp(<<Num("int", 2), Arr(c, 2)>>), Arr(Arr(c, 2), 2)} : c \in Inner}
AllTypes ==
    Numbers \cup Arrays \cup Pairs \cup Triples \cup Inner \cup Nested
        \cup {Enum, Pointer, Opaque, Num("float", 16), Arr(Num("int", 4), 0)}
MCTypes == AllTypes
Later == Cmp(<<Num("int", 1), Num("int", 4), Container>>)
MCRejected == Later
=============================================================================
