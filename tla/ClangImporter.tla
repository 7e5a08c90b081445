--------------------------- MODULE ClangImporter ---------------------------
(***************************************************************************)
(* The tool that fills a registry from C++ headers: the opaques of a TLB   *)
(* file are loaded, the declarations that have their names are resolved,   *)
(* the types of the main file are translated in the order of the syntax    *)
(* tree, and the registry is saved.                                        *)
(*                                                                         *)
(* The syntax tree is what the tool reads of that of clang.  A name is a   *)
(* sequence of words: that of an array ends with its dimension, that of a  *)
(* container begins with its template.  A type object of the registry is   *)
(* identified by its own name.  Callbacks run one after the other, in one  *)
(* thread; the recursion inside of one is a set of recursive operators on  *)
(* the state st of the registry, with the result of the last call (None    *)
(* for a null pointer) and the exception under way.                        *)
(***************************************************************************)
EXTENDS Naturals, FiniteSets, SequencesExt

\* The programs: types, declarations in order, those of the main file, those inside
\* of functions, hidden or in anonymous namespaces (ignored), words that no valid name
\* of a type contains (invalid), names of the opaques.
CONSTANT Headers

VARIABLES
    header,    \* the program that is read
    registry,  \* names |-> the object that each name denotes, types |-> the objects
    stage,     \* "opaques", "import", "saved" or "failed"
    next,      \* the declaration that the traversal has come to
    error      \* what made the tool fail

vars == <<header, registry, stage, next, error>>

None == <<>>

T(t) == header.types[t]
Canonical(t) == T(T(t).canonical)

\* The name of a type as it is written; records are named by their declaration.
RECURSIVE cxxToTypelibName(_)
cxxToTypelibName(t) ==
    CASE Canonical(t).class = "Record" -> Canonical(t).name
      [] T(t).class = "ConstantArray" -> Append(cxxToTypelibName(T(t).element), T(t).dim)
      [] T(t).class = "Elaborated" -> cxxToTypelibName(T(t).named)
      [] OTHER -> T(t).name

CanonicalName(t) == cxxToTypelibName(T(t).canonical)

\* Not so for types of anonymous namespaces, "(anonymous namespace)/S", and for names of
\* a single letter, which cxxToTypelibName() does not make absolute.
isValidTypename(name) == Range(name) \cap header.invalid = {}

-----------------------------------------------------------------------------
(* The registry, as far as the tool uses it *)

Return(st, own) == [st EXCEPT !.result = own]
Throw(st, e) == [st EXCEPT !.result = None, !.error = e]

getIndirectTypeName(type, name) ==
    IF type.category = "Array" THEN Append(name, type.dim) ELSE <<"vector">> \o name

\* The aliases that modifiedDependencyAliases() has still to make.
MissingAliases(names, types) ==
    UNION {{<<getIndirectTypeName(types[o], a), o>> :
                a \in {n \in DOMAIN names : n # types[o].element /\ names[n] = types[o].element}} :
             o \in {p \in DOMAIN types : types[p].category \in {"Array", "Vector"}}}
      \ {<<n, o>> : n \in DOMAIN names, o \in DOMAIN types}

RECURSIVE WithAliases(_, _)
WithAliases(names, types) ==
    IF MissingAliases(names, types) = {} THEN names
    ELSE WithAliases(names @@ [n \in {m[1] : m \in MissingAliases(names, types)} |->
                                 CHOOSE o \in DOMAIN types : <<n, o>> \in MissingAliases(names, types)],
                     types)

Add(st, own, type) ==
    CASE ~isValidTypename(own) -> Throw(st, "BadName")
      [] own \in DOMAIN st.names -> Throw(st, "AlreadyDefined")
      [] OTHER -> [st EXCEPT !.types = @ @@ (own :> type), !.result = own,
                              !.names = WithAliases(@ @@ (own :> own), st.types @@ (own :> type))]

Alias(st, base, newname) ==
    CASE st.error # "" -> st
      [] base \notin DOMAIN st.names -> Throw(st, "Undefined")
      [] ~isValidTypename(newname) -> Throw(st, "BadName")
      [] newname \in DOMAIN st.names ->
            IF st.names[newname] = st.names[base] THEN st ELSE Throw(st, "AlreadyDefined")
      [] OTHER -> [st EXCEPT !.names = WithAliases(@ @@ (newname :> @[base]), st.types)]

-----------------------------------------------------------------------------
(* Translation of the types *)

IntegerName ==
    [SInt |-> 8 :> <<"int8_t">> @@ 32 :> <<"int32_t">> @@ 64 :> <<"int64_t">>,
     UInt |-> 8 :> <<"uint8_t">> @@ 32 :> <<"uint32_t">> @@ 64 :> <<"uint64_t">>]

NumericName(b, name) == IF b.sort = "Float" THEN name ELSE IntegerName[b.sort][b.bits]

\* Mutant: an integer of this size may be registered already.
RegisterNumericAnew(st, name, own, b) ==
    Alias(Add(st, own, [category |-> "Numeric", sort |-> b.sort, size |-> b.bits \div 8]), own, name)

RegisterNumeric(st, name, own, b) ==
    IF own \in DOMAIN st.names
    THEN Alias(Return(st, st.names[own]), st.names[own], name)
    ELSE Alias(Add(st, own, [category |-> "Numeric", sort |-> b.sort, size |-> b.bits \div 8]),
               own, name)

\* Integers are named after their size; the C++ name is an alias.
registerBuiltIn(st, name, b) ==
    IF b.bits % 8 # 0 \/ b.sort = "other" THEN Return(st, None)
    ELSE RegisterNumeric(st, name, NumericName(b, name), b)

addEnum(st, name, e) ==
    IF ~e.identifier \/ e.private THEN Return(st, None)
    ELSE Add(st, name, [category |-> "Enum"])

AddArray(st, dim) ==
    IF st.result = None THEN st
    ELSE Add(st, Append(st.result, dim), [category |-> "Array", element |-> st.result, dim |-> dim])

isTemplateArgumentIgnored(name) == Head(name) \in {"allocator", "char_traits"}

ExistingContainer(st, type) ==
    IF st.types[type].category \in {"Vector", "String"} THEN Return(st, type)
    ELSE Throw(st, "BadCategory")

AddVector(st, own, element) ==
    IF own \in DOMAIN st.names THEN ExistingContainer(st, st.names[own])
    ELSE Add(st, own, [category |-> "Vector", element |-> element])

WithInt8(st) ==
    IF <<"int8_t">> \in DOMAIN st.names THEN st
    ELSE Add(st, <<"int8_t">>, [category |-> "Numeric", sort |-> "SInt", size |-> 1])

AddString(st) ==
    IF <<"string">> \in DOMAIN st.names THEN ExistingContainer(st, st.names[<<"string">>])
    ELSE Add(WithInt8(st), <<"string">>,
             [category |-> "String", element |-> WithInt8(st).names[<<"int8_t">>]])

\* The factories of the containers that typelib knows, with one argument.
factory(st, template, args) ==
    IF template = "string" THEN AddString(st)
    ELSE AddVector(st, <<"vector">> \o args[1], args[1])

AliasContainer(st, name) ==
    IF st.error # "" \/ st.result = name THEN st ELSE Alias(st, st.result, name)

\* The type itself is being translated by a caller: the recursion never ends.
StackOverflow(st) == Throw(st, "StackOverflow")

RECURSIVE registerType(_, _, _, _)

WithArgument(acc, st) ==
    [st |-> st, ok |-> st.result # None, args |-> Append(acc.args, st.result)]

AddArgument(acc, open, r, arg) ==
    CASE ~acc.ok \/ isTemplateArgumentIgnored(CanonicalName(arg)) -> acc
      [] r.template = "string" /\ CanonicalName(arg) # <<"char">> -> [acc EXCEPT !.ok = FALSE]
      [] OTHER -> WithArgument(acc, registerType(acc.st, open, CanonicalName(arg), arg))

MakeContainer(acc, name, r) ==
    IF acc.ok THEN AliasContainer(factory(acc.st, r.template, acc.args), name)
    ELSE Return(acc.st, None)

\* A null result: the record is then translated like any other one.
checkRegisterContainer(st, open, name, r) ==
    IF r.template \notin {"vector", "string"} THEN Return(st, None)
    ELSE MakeContainer(FoldLeft(LAMBDA acc, arg : AddArgument(acc, open, r, arg),
                                [st |-> st, ok |-> TRUE, args |-> <<>>], r.args),
                       name, r)

WithField(acc, st, offset) ==
    IF st.result = None \/ offset % 8 # 0 THEN [acc EXCEPT !.st = st, !.ok = FALSE]
    ELSE [st |-> st, ok |-> TRUE,
          fields |-> Append(acc.fields, [type |-> st.result, offset |-> offset \div 8])]

AddField(acc, open, f) ==
    IF ~acc.ok \/ f.anonymous \/ f.private THEN [acc EXCEPT !.ok = FALSE]
    ELSE WithField(acc, registerType(acc.st, open, CanonicalName(f.type), T(f.type).canonical),
                   f.offset)

\* Mutant: the members of the base classes are left out.
OwnMembers(acc, open, r) ==
    FoldLeft(LAMBDA a, f : AddField(a, open, f), acc, r.fields)

\* The fields of the record, then those of its bases, at the offsets that they have
\* in the class that declares them.
RECURSIVE addMembersOfClassToCompound(_, _, _)
addMembersOfClassToCompound(acc, open, r) ==
    FoldLeft(LAMBDA a, b : IF a.ok THEN addMembersOfClassToCompound(a, open, Canonical(b.type)) ELSE a,
             FoldLeft(LAMBDA a, f : AddField(a, open, f), acc, r.fields),
             r.bases)

\* Mutant: a base that cannot be registered gives the compound up.
AddBaseOrFail(acc, open, b) ==
    IF ~acc.ok \/ b.private THEN [acc EXCEPT !.ok = FALSE]
    ELSE LET st == registerType(acc.st, open, cxxToTypelibName(b.type), b.type)
         IN  [acc EXCEPT !.st = st, !.ok = st.result # None]

\* Private inheritance gives the compound up.  A base that cannot be registered
\* does not.
AddBase(acc, open, b) ==
    CASE ~acc.ok -> acc
      [] b.private -> [acc EXCEPT !.ok = FALSE]
      [] OTHER -> [acc EXCEPT !.st = registerType(@, open, cxxToTypelibName(b.type), b.type)]

AddCompound(acc, name, size, fields) ==
    CASE acc.st.error # "" -> acc.st
      [] ~acc.ok -> Return(acc.st, None)
      [] OTHER -> Add(acc.st, name, [category |-> "Compound", size |-> size, fields |-> fields])

WithMembers(acc, open, name, r) ==
    IF ~acc.ok \/ acc.fields = <<>> THEN Return(acc.st, None)
    ELSE AddCompound(FoldLeft(LAMBDA a, b : AddBase(a, open, b), [st |-> acc.st, ok |-> TRUE], r.bases),
                     name, r.size, acc.fields)

NotContainer(st, open, name, r) ==
    CASE st.error # "" \/ st.result # None -> st
      [] ~r.complete \/ r.polymorphic -> Return(st, None)
      [] OTHER -> WithMembers(
            addMembersOfClassToCompound([st |-> st, ok |-> TRUE, fields |-> <<>>], open, r),
            open, name, r)

addRecord(st, open, name, r) ==
    CASE name \in open -> StackOverflow(st)
      [] ~r.identifier \/ r.dependent -> Return(st, None)
      [] OTHER -> NotContainer(checkRegisterContainer(st, open \cup {name}, name, r),
                               open \cup {name}, name, r)

AliasTypedef(st, d) ==
    IF st.result = None THEN st ELSE Alias(st, CanonicalName(T(d).underlying), T(d).name)

\* A name that is not valid ends the program.
registerTypedefNameDecl(st, open, d) ==
    IF ~isValidTypename(T(d).name) THEN Throw(st, "exit")
    ELSE AliasTypedef(registerType(st, open, CanonicalName(T(d).underlying), T(d).underlying), d)

registerType(st, open, name, t) ==
    CASE st.error # "" -> st
      [] name \in DOMAIN st.names -> Return(st, st.names[name])
      [] Canonical(t).class \in {"Pointer", "Reference"} -> Return(st, None)
      [] T(t).class = "Builtin" -> registerBuiltIn(st, name, T(t))
      [] T(t).class = "Record" -> addRecord(st, open, name, T(t))
      [] T(t).class = "Enum" -> addEnum(st, name, T(t))
      [] T(t).class = "ConstantArray" ->
            IF T(T(t).element).class = "ConstantArray" THEN Return(st, None)
            ELSE AddArray(registerType(st, open, cxxToTypelibName(T(t).element), T(t).element),
                          T(t).dim)
      [] T(t).class = "Typedef" -> registerTypedefNameDecl(st, open, t)
      [] T(t).class = "Elaborated" -> registerType(st, open, name, T(t).named)
      [] OTHER -> Return(st, None)

-----------------------------------------------------------------------------
(* The tool *)

Decl == header.decls[next]
Typedefs(h) == {d \in Range(h.decls) : h.types[d].class = "Typedef"}

State == [names |-> registry.names, types |-> registry.types, result |-> None, error |-> ""]

\* A callback returns, or exit() or an exception ends the program.
Apply(st, position) ==
    /\ registry' = [names |-> st.names, types |-> st.types]
    /\ error' = st.error
    /\ next' = position
    /\ stage' = IF st.error = "" THEN stage ELSE "failed"
    /\ UNCHANGED header

\* A file of opaques is loaded.
Init ==
    /\ header \in Headers
    /\ registry = [names |-> [o \in header.opaques |-> o],
                   types |-> [o \in header.opaques |-> [category |-> "Opaque"]]]
    /\ stage = "opaques" /\ next = 1 /\ error = ""

\* A typedef that is opaque stands for the type that it names from now on.
AliasOpaque(st, d) ==
    IF T(d).class = "Typedef" THEN Alias(st, T(d).name, CanonicalName(T(d).underlying)) ELSE st

registerOpaque ==
    /\ stage = "opaques" /\ next <= Len(header.decls)
    /\ \E st \in {IF T(Decl).name \in header.opaques THEN AliasOpaque(State, Decl) ELSE State} :
         Apply(st, next + 1)

OpaquesResolved ==
    /\ stage = "opaques" /\ next > Len(header.decls)
    /\ stage' = "import" /\ next' = 1
    /\ UNCHANGED <<header, registry, error>>

\* Typedefs come before the filters on functions and anonymous namespaces.
RegisterDecl(d) ==
    CASE T(d).class = "Typedef" -> registerTypedefNameDecl(State, {}, d)
      [] d \in header.ignored -> State
      [] OTHER -> registerType(State, {}, T(d).name, d)

\* Declarations of included files are not in header.main.
registerTypeDecl ==
    /\ stage = "import" /\ next <= Len(header.decls)
    /\ \E st \in {IF Decl \in header.main THEN RegisterDecl(Decl) ELSE State} : Apply(st, next + 1)

\* The second matcher finds typedefs again where they are used.
RegisterTypedefAgain ==
    /\ stage = "import"
    /\ \E i \in 1..(next - 1) :
         /\ header.decls[i] \in Typedefs(header) \cap header.main
         /\ \E st \in {RegisterDecl(header.decls[i])} : Apply(st, next)

saveRegistry ==
    /\ stage = "import" /\ next > Len(header.decls)
    /\ stage' = "saved"
    /\ UNCHANGED <<header, registry, next, error>>

Next ==
    registerOpaque \/ OpaquesResolved \/ registerTypeDecl \/ RegisterTypedefAgain \/ saveRegistry

Spec == Init /\ [][Next]_vars

-----------------------------------------------------------------------------
(* What a header says, read without a registry *)

\* The opaque that stands for a name: the one of that name, or a typedef of the type.
OpaquesFor(n) ==
    {o \in header.opaques : o = n} \cup
    {T(d).name : d \in {e \in Typedefs(header) : T(e).name \in header.opaques
                                               /\ CanonicalName(T(e).underlying) = n}}

\* The name of the registry's type for a C++ type.
RECURSIVE Meaning(_)
Meaning(t) ==
    CASE OpaquesFor(CanonicalName(t)) # {} -> CHOOSE o \in OpaquesFor(CanonicalName(t)) : TRUE
      [] Canonical(t).class = "Builtin" /\ Canonical(t).sort # "other" ->
            NumericName(Canonical(t), Canonical(t).name)
      [] Canonical(t).class = "ConstantArray" -> Append(Meaning(Canonical(t).element), Canonical(t).dim)
      [] Canonical(t).class = "Record" /\ Canonical(t).template = "vector" ->
            <<"vector">> \o Meaning(Canonical(t).args[1])
      [] Canonical(t).class = "Record" /\ Canonical(t).template = "string" -> <<"string">>
      [] OTHER -> CanonicalName(t)

\* All fields of a class and its bases, where the compiler puts them, with the place
\* at of the class that declares them.
RECURSIVE Members(_, _)
Members(r, at) ==
    FoldLeft(LAMBDA fs, b : fs \o Members(Canonical(b.type), at + b.offset),
             [i \in DOMAIN r.fields |-> [type |-> Meaning(r.fields[i].type), at |-> at,
                                        offset |-> at + r.fields[i].offset \div 8]],
             r.bases)

\* Whether a type can be translated at all; open are the records around it.
RECURSIVE Translatable(_, _), Plain(_, _)
Translatable(t, open) ==
    \/ OpaquesFor(CanonicalName(t)) # {}
    \/ Canonical(t).class = "Builtin" /\ Canonical(t).sort # "other" /\ Canonical(t).bits % 8 = 0
    \/ Canonical(t).class = "Enum" /\ Canonical(t).identifier /\ ~Canonical(t).private
    \/ /\ Canonical(t).class = "ConstantArray"
       /\ T(Canonical(t).element).class # "ConstantArray"
       /\ Translatable(Canonical(t).element, open)
    \/ /\ Canonical(t).class = "Record" /\ Canonical(t).identifier /\ ~Canonical(t).dependent
       /\ Canonical(t).name \notin open
       /\ \/ /\ Canonical(t).template \in {"vector", "string"}
             /\ Canonical(t).template = "string" => Canonical(t).args[1] = "char"
             /\ Translatable(Canonical(t).args[1], open \cup {Canonical(t).name})
          \/ /\ Canonical(t).complete /\ ~Canonical(t).polymorphic
             /\ Members(Canonical(t), 0) # <<>>
             /\ \A b \in Range(Canonical(t).bases) : ~b.private
             /\ Plain(Canonical(t), open \cup {Canonical(t).name})
Plain(r, open) ==
    /\ \A f \in Range(r.fields) : /\ ~f.anonymous /\ ~f.private /\ f.offset % 8 = 0
                                 /\ Translatable(f.type, open)
    /\ \A b \in Range(r.bases) : Plain(Canonical(b.type), open)

-----------------------------------------------------------------------------
(* Properties *)

\* Names denote objects of the registry, and objects have their own names.
TypeOK ==
    /\ stage \in {"opaques", "import", "saved", "failed"}
    /\ next \in 1..(Len(header.decls) + 1)
    /\ error # "" <=> stage = "failed"
    /\ \A n \in DOMAIN registry.names : registry.names[n] \in DOMAIN registry.types
    /\ \A o \in DOMAIN registry.types : o \in DOMAIN registry.names /\ registry.names[o] = o

References(type) ==
    CASE type.category \in {"Array", "Vector", "String"} -> {type.element}
      [] type.category = "Compound" -> {f.type : f \in Range(type.fields)}
      [] OTHER -> {}

\* A compound is deleted when one of its fields or bases turns out to be impossible,
\* but what was registered for it stays: whatever stays refers to types that are
\* in the registry too.
SelfContained ==
    \A o \in DOMAIN registry.types : References(registry.types[o]) \subseteq DOMAIN registry.types

\* The compound of a class has its size and all its fields, those of the bases included.
FieldsOf(compound, r) ==
    /\ compound.size = r.size
    /\ [i \in DOMAIN compound.fields |-> compound.fields[i].type]
         = [i \in DOMAIN Members(r, 0) |-> Members(r, 0)[i].type]

Placed(compound, r, i) == compound.fields[i].offset = Members(r, 0)[i].offset

\* The types of the header that the registry knows as compounds.
Compounds ==
    {t \in DOMAIN header.types :
        /\ stage \in {"import", "saved"} /\ cxxToTypelibName(t) \in DOMAIN registry.names
        /\ registry.types[registry.names[cxxToTypelibName(t)]].category = "Compound"}
CompoundFor(t) == registry.types[registry.names[cxxToTypelibName(t)]]

\* A name of the header that the registry knows denotes the translation of the C++
\* type of that name, whichever declaration came first and through whatever
\* typedefs, aliases and opaques it was reached.  The types of the fields of a
\* compound are in the registry.  Its own fields and those of bases at offset 0 are
\* where the compiler puts them; for those of a further base see MembersPlaced.
NamesFaithful ==
    /\ SelfContained
    /\ stage \in {"import", "saved"} =>
        \A t \in DOMAIN header.types : cxxToTypelibName(t) \in DOMAIN registry.names =>
            registry.names[cxxToTypelibName(t)] = Meaning(t)
    /\ \A t \in Compounds :
        /\ FieldsOf(CompoundFor(t), Canonical(t))
        /\ \A i \in DOMAIN CompoundFor(t).fields :
              Members(Canonical(t), 0)[i].at = 0 => Placed(CompoundFor(t), Canonical(t), i)

\* All the fields of a compound are where the compiler puts them, as in the document
\* that the test suite expects (classes.tlb:102).  Refuted: members of a second base
\* class get the offsets that they have in that class.
MembersPlaced ==
    \A t \in Compounds : \A i \in DOMAIN CompoundFor(t).fields :
        Placed(CompoundFor(t), Canonical(t), i)

\* The declarations that the tool translates for themselves.
Handled == {d \in header.main : d \in header.ignored => d \in Typedefs(header)}

\* What the tool registers depends on the header and not on the order of its
\* callbacks: a declaration of the main file, in functions and anonymous namespaces
\* only if it is a typedef, is in the registry that is saved if and only if it can be
\* translated.
SavedIffTranslatable ==
    stage = "saved" => \A d \in Handled :
        T(d).name \in DOMAIN registry.names <=> Translatable(d, {})

\* Arrays of the header that the compiler tells apart and the registry does not.
Twins(t, u) ==
    /\ {T(t).class, T(u).class} = {"ConstantArray"}
    /\ CanonicalName(t) # CanonicalName(u) /\ Meaning(t) = Meaning(u)

FieldTypes ==
    UNION {{f.type : f \in Range(T(d).fields)} :
             d \in {e \in Range(header.decls) : T(e).class = "Record"}}

\* What the declaration or the spelling of a type refers to.
Referred(t) ==
    CASE T(t).class = "Record" ->
            {x.type : x \in Range(T(t).fields \o T(t).bases)} \cup Range(T(t).args)
      [] T(t).class = "ConstantArray" -> {T(t).element}
      [] T(t).class = "Typedef" -> {T(t).underlying}
      [] T(t).class = "Elaborated" -> {T(t).named}
      [] OTHER -> {}

RECURSIVE Reached(_)
Reached(S) ==
    IF UNION {Referred(t) : t \in S} \subseteq S THEN S
    ELSE Reached(S \cup UNION {Referred(t) : t \in S})

\* Exceptions that no handler catches: a type that contains a container of itself,
\* two opaques that are typedefs of one type, arrays of two integers of one size, a
\* structure or an enum without a valid name that could be translated otherwise and
\* that the translation reaches.  A typedef without a valid name ends the tool too, in
\* whatever scope it is.  On all other headers it runs to its end.
FailsWithCause ==
    /\ TypeOK
    /\ error \in {"", "AlreadyDefined", "StackOverflow", "BadName", "exit"}
    /\ error = "StackOverflow" =>
          \E t \in DOMAIN header.types : /\ T(t).class = "Record" /\ T(t).template = "vector"
                                         /\ Canonical(T(t).args[1]).class = "Record"
                                         /\ \E f \in Range(Canonical(T(t).args[1]).fields) : f.type = t
    /\ error = "AlreadyDefined" =>
          \/ \E d \in Typedefs(header) : /\ T(d).name \in header.opaques
                                          /\ Cardinality(OpaquesFor(CanonicalName(T(d).underlying))) > 1
          \/ \E t, u \in FieldTypes : Twins(t, u)
    /\ error = "BadName" =>
          \E t \in Reached(Handled \cup {d \in Typedefs(header) : T(d).name \in header.opaques}) :
             /\ T(t).class \in {"Record", "Enum"} /\ ~isValidTypename(T(t).name)
             /\ Translatable(t, {})
    /\ error = "exit" => \E t \in Reached(Handled) : t \in Typedefs(header) /\ ~isValidTypename(T(t).name)
    /\ stage = "saved" => \A d \in Handled : d \in Typedefs(header) => isValidTypename(T(d).name)
=============================================================================
