# A TLA+ verification of Typelib

Typelib describes the memory of C++ values at run time.  A *type* (numeric,
enum, structure, array, pointer, container, opaque) lives in a *registry* under
absolute names such as `/base/Time`.  Importers fill registries, exporters write
them to files, a *memory layout* compiled from a type drives the operations on
values, and a Ruby extension wraps all of it.  Importers and exporters are plugins,
found through a manager that is a reference counted singleton.

| part | code | modules |
|---|---|---|
| registry, type builder, type names | `typelib/registry.cc`, `typebuilder.cc`, `typename.cc` | `Registry` |
| type model, and merge, minimal, resize of registries | `typelib/typemodel.cc`, `registry.cc` | `TypeModel` |
| exporter | `typelib/exporter.cc` | `Exporter` |
| IDL export, on top of the exporter | `lang/idl/export.cc` | `IDLExport` |
| TLB export and import | `lang/tlb/` | `Tlb` |
| memory layout | `typelib/memory_layout.cc` | `LayoutBytecode`, `MemoryLayout` |
| value operations and C++ containers, on top of the layout | `typelib/value_ops.cc`, `lang/csupport/containers.cc` | `ValueOps` |
| endianness | `typelib/endianness.cc`, `value.cc` | `Endianness` |
| singletons, and what they promise | `typelib/utilmm/singleton` | `Singleton`, `Phoenix` |
| plugins, on top of the singletons | `typelib/pluginmanager.cc`, `plugins.hh` | `PluginManager` |
| memory of the Ruby bindings | `bindings/ruby` | `RubyMemory` |
| clang importer | `tools/typelib-clang-tlb-importer` | `ClangImporter` |

The modules `MC*` hold the small instances for TLC, the modules `*Proofs` the
theorems.  Only the singletons and the plugin manager are used from several threads.
Elsewhere the hard part is long sequences of legal calls, calls nested in calls, a
garbage collector that runs at any time, and state kept in two places.

**How to read the results.**  Where the code departs from what it documents, the
property of the passing run leaves that case out, and a configuration of its own
checks the documented behaviour and is refuted by TLC.  These exclusions are listed
under [Known divergences](#known-divergences): a passing run says nothing about them.

## Modules and runs

States are distinct states; `cfg` files are named after the modules.

### Registry: `registry_derived`, `registry_namespaces`

`m_global` and `m_current` are the two maps of the class: absolute names, and
absolute plus relative names.  A map is a total function with `NoType` where the
code has no entry.  A name is a sequence of components, so that namespaces are
prefixes; the order of strings is `Rank` on components.  `owner` says who has to
delete a `Type` object.  `alias()`, `add()` and `modifiedDependencyAliases()` call
each other: the nested calls still to be made are in `pending`, each one is a step
(`Propagate`), and `builder` is the `TypeBuilder` in use.  No operation of the public
interface starts before these are done (`Idle`).  `dropped` is a history variable:
the names that a caller took away since the last `clear()`.  So is `orphaned`: the names
derived from one that `removeAlias()` or `clearAliases()` took away, for as long as they are
bound.  The order of nested
calls is left open; the code takes that of its maps, so the model has more behaviours
than the code.  A call that throws without a change is a step that is not enabled.
`Build` of a name that cannot be finished keeps the levels that were made, and a nested
`alias()` whose name is not valid throws `BadName` out of the whole call, with what was done
so far (`NestedThrow`).

* `registry_derived` (156560 states): a type, the pointer on it, the array of these
  pointers and two aliases, so that an alias climbs two levels in each order of creation;
  one alias is a template name, on which no pointer can be named.  `DeletedOnce`: ownership.  `DependenciesRegistered`: closed
  under dependencies after removals.  `DerivedNamesBind`: a name with modifiers means what it
  says, and `build()` binds it, **if the names on the way to it are valid** (`Spelled`), and
  **but for orphaned names**: `/y*` stays when the alias `/y` goes, and does not follow a new
  `/y`.  Removals of types and aliases are covered otherwise, and an orphaned name is covered
  again once it was unbound itself.  `build()` is not required to bind a name that is spelled
  with an alias whose derived names were taken away or orphaned.
  `AliasesFollowed`: aliases reach the derived types.  `CallsReturn`: the nested calls end.
* `registry_namespaces` (11524 states): the same relative name in two namespaces and a
  structure that holds both types, with any default namespace and import.
  `NoDanglingName`, `RelativeNameSound`, and `NamesNeverRebound`: no name silently changes its
  meaning.

### TypeModel: `type_model`

`objs` is the heap of `Type` objects of all registries, so that deleted, shared and
recursive types can be told apart.  The merge of a type, the comparison with its
stack of assumptions, and the propagation of sizes are recursive operators on that
heap; `merge()`, `minimal()` and `resize()` are the actions.  A call that throws sets `failed`,
one that never returns sets `endless`, and nothing follows either of them.

* 23465 states, four calls on pairs of registries that agree or differ in a field, an
  enumeration, a typedef or a category.  `CompareSound`: `isSame()` and `canCastTo()`
  against the greatest bisimulation, a definition without memory or order.
  `MergeExact`: merged types are equivalent to their originals and nothing that was
  registered changes, also when the call throws.  `MinimalExact`: what was asked for,
  what it depends on, and nothing else.  `ResizePropagates`: padding between fields is
  kept at any depth, **but for registries with a structure that refers to itself and is not
  resized by the caller**, where `resize()` does not return, and **for changes that do not
  cancel out**.  Four calls allow a merge of both registries, a resize and a
  minimal registry of the result.

### Exporter: `exporter_order`

`Exporter::save()`.  The registry is chosen in `Init`: any dependency graph and any
set of persistent entries.  `types`, `free_types`, `saved_types` and `last_namespace`
are the local variables, `cursor` is the iterator `save_it`, `output` the sequence of
calls to the virtual `save()`, whose result is left open.

* 85404 states: the 512 graphs on three types, in two namespaces, with two aliases and
  any persistent set; cycles of length one to three and types reached through types
  that are not saved all happen.  `DependenciesFirst`, `ExactlyOnce`,
  `ErrorIffRecursive`, `SaveTerminates`.  The function ends, hence no deadlock check.

### IDLExport: `idl_export`

Extends `Exporter`: the virtual `save()` and `end()` of the IDL exporter.  The stream is
the sequence of declarations, each with the modules open around it and the identifiers
in its text; names are sequences of tokens.  Each call of `save()` is a step of the exporter,
and each turn of the loop of `generateTypedefs()` in `end()` is one (`typedefs_it` is its
iterator).  The visitor that names a type goes through arrays and containers: what it visits
is the least set that is closed under their elements (`Nested`, `Visited`), which says the
same as its recursion and is defined on cyclic types too.

* 128464 states: 17 entries of every category, with a prefix or a suffix, and all
  combinations of dependencies, persistent entries, selection, blob threshold and opaques
  as `any`.  `ReferencesResolved`: identifiers are declared before use, **but for types
  written as blobs under another name and arrays of types with two leading underscores**
  (`Misnamed`).  `EachDeclared`: once, in its modules, which nest.
  `RefusedIffUnsupported`: what is refused and why.  `RelativeResolves`: the name that
  `getIDLRelative()` gives reaches the module of the type, for all modules that hold
  declarations, **if no two modules share a name**; the suffix may be shared, but then no
  namespace of the registry may have its name (`Unambiguous`).

### Tlb: `tlb_round_trip`

A document maps names to nodes.  The importer builds types in the order of names, and
on demand the types these need; the exporter says what each entry becomes.

* 77887 states: up to five edits of a registry, saves, and loads into empty, different
  and edited registries.  `RoundTrip`: a document gives back what was saved, the fields of
  structures **in the order of their offsets**, whatever their order was.
  `LoadConservative`: an import changes nothing that was there.  Five edits are enough to
  define a chain of three types with an alias and to remove the alias.

### LayoutBytecode and MemoryLayout: `layout_simplify`

`LayoutBytecode` holds no state: the types, the bytecode that `raw_layout_of()` writes
for them, and one iteration of the loops of `simplify()` and `simplifyInit()` as
operators on a machine state, with a frame for each recursive call.  Bytecode is the
same sequence of integers as in the code.  Sizes are small, so that sums do not
overflow; differences of unsigned numbers that would go below zero fail
(`length_error`) or break the type invariant.  `MemoryLayout` runs the machine, one loop
iteration per step.  The reference (`Cells`) describes each byte from the type alone:
data, hole, initial value or container.

* 273872 states: structures of up to two fields with and without holes, nested in
  arrays of dimension 0 to 2, in containers and in structures, with every option.
  `DataKept`: what is written covers exactly the data.  `InitKept`: what has to be
  initialized is, and nothing else.  `SquashedToMemcpy`: one copy when it can be.  Three
  levels are what `simplify()` tells apart: a block, the block it is in, and the operations
  before that one.  Left out: arrays of elements without bytes, pointers and opaques as
  elements.  **Of the bytes of pointers that are accepted nothing is said** but that they keep
  their room.

### ValueOps: `value_ops`

The interpreters of the bytecode, and the vectors and strings they call.  Memory is a
sequence of cells; a container is one cell, with the memories of its elements and a mark
that tells whether an object is constructed there.  One recursive operator, `Interpret`,
stands for the seven loops of `value_ops.cc`, which differ in what they do with a copy
(`Block`), an array (`InArray`) and a container (`InContainer`).  A container type carries
the layout of its elements (`ContainerOf`), as a `Vector` does.  The storage of a vector
that grows may or may not have to move.  Use of memory that is not an object, a copy of
an object byte by byte and an access past the end are the error `"undefined"`; dropping
memory with an object in it counts in `lost`.  After an exception the program stops.

* 10768 states: two elements in a container and one in the containers in it, so that
  both grow, shrink and move; two values for a byte, also in holes.  `Completes`: nothing
  throws, leaks or is used before it is constructed.  `CompareIsEquality`.
  `AssignsValue`: `copy`, `zero`, and `load` after `dump`, the latter **only into a value with
  empty containers**.  `EditsContainer`: `push`, `erase`, `delete_if` and `setElement` against
  sequences.

### Endianness: `endian_swap`

Both byte swappers: the visitor that swaps a value in place, and the compiler of swap
programs with its interpreter, on a visitor that may have failed on another type.

* 1326 states, 115 types: numbers, enums, arrays, nested compounds, unions and what is
  not supported.  `CompiledSwaps`: every number is reversed, **for types without padding
  inside**, and reads and writes stay inside of the values for all types **without empty
  arrays**.  `InPlaceSwaps`: every number is reversed, twice gives the value back, and what
  compiles can be swapped in place.

### Phoenix, Singleton and PluginManager: `plugins_singleton`

`Phoenix` is the promise: a singleton exists if and only if it has a client, and comes back
for the next one.  `Singleton` is the server with its table, reference counts and mutex;
each `use<>` object is a process.  `PluginManager` extends it: its constructor scans the
plugin path and loads libraries with the mutex held, its destructor deletes plugins, and
both run again for each incarnation.  `path` is the copy of the list that the constructor
consumes, one directory per step (`OpenDirectory`), and `todo` the files of the directory that
is open, which come in any order (`LoadFile`).  The dynamic linker is external.

* 167376 states: three clients of the manager (a registry, calls, a holder), one of another
  singleton, seven values of the plugin path, libraries that do not open or have no entry
  point.  `PluginsUsable`: all plugins are there for whoever is entitled to them, their code
  is mapped, registries are complete.  `PhoenixSpec`: the refinement.  `MutexReleased`.

### RubyMemory: `ruby_memory`

The table from addresses to memory zones with reference counts, the layouts that keep
registries alive, the values and the children they cache, the garbage collector, which
may collect at any time, and the finalization of everything at exit in any order.
`memory_unref()` calls itself for the root of a zone: each call is a step (`UnrefRoot`), and
so is what a call does after the nested one has returned (`Deregister`).  `kept` are the values
that `delete_if` yielded and the program kept, and the fields read from these: their container
is their parent, but does not cache them.  The program uses them as long as they are in the
buffer of the container; later use is undefined and is not modelled.  The calls in
progress need no stack: they are those of the entries whose count is zero.  `LowestFit`
chooses between an allocator that takes the lowest free cells and any allocator.

* 776306 states: a heap of 7 cells, three values, vectors of two elements; an object is
  allocated while there are less than two zones, and zones of fields and elements are then
  added to these; the lowest cells are taken, so that a vector moves to an address used
  before.  `TablesConsistent`: counts are exact, nothing
  is freed twice or missed.  `ValuesUsable`: a value that was not invalidated is in live
  memory, **but for those in `kept`**, which nothing invalidates.  `ExitFrees`: all memory is freed, **but for blocks that got a stale zone**.

### ClangImporter: `clang_import`

The translation of declarations into a registry, callback after callback, with the opaques
and typedefs resolved first; the syntax tree is what the tool reads of clang's.  A header says
which of its declarations are in functions, hidden or in anonymous namespaces (`ignored`) and
which words make a name invalid (`invalid`).

* 136546 states, 11448 headers.  `NamesFaithful`: names denote what the compiler means, and
  fields are where it puts them, **but for the fields of a base class that is not at offset
  0**; the types of these are right.  `SavedIffTranslatable`: what is saved does not depend on
  the order.  `FailsWithCause`: the tool fails for five known reasons only (see below).

## Fairness

* Registry: weak fairness of the steps inside a call.  The thread that made it drives it;
  callers are under no fairness.
* Exporter: weak fairness of `Next`, since `save()` is one loop in one thread.
* PluginManager: weak fairness of each client's steps with the mutex held.  No code between
  lock and unlock waits for another thread, and constructors scan a finite path.

No other run has a liveness property.  `CHECK_DEADLOCK FALSE` is there where a call or a
program ends, or where a bound on calls is reached.

## Proofs

TLAPS proves the following for every value of the constants that satisfies these assumptions,
which TLC evaluates on the small instances:

* `TypeAssumption`, `NameAssumption`: typing of the constants, and that a derived type depends
  on the type it is derived from.
* `DerivedAssumption`: pointers, arrays and containers get their names from their
  constructors, a derived name tells how it was made and of what, and the callers give such a
  name to no other type or alias.  A caller that calls a structure `/x*` makes
  `DerivedNamesBind` false; the other theorems on the registry do not use this.
* `EntryAssumption`, `UseAssumption`, `TyAssumption`: typing, and that clients are finitely many.
* `IDLAssumption`: typing; numbers, enums and opaques depend on nothing, and arrays and
  containers on one type, as the classes of these types make it; the namespaces of the map of
  typedefs are distinct; the empty string, which stands for no namespace, is no component.
* `PluginAssumption`: the manager is one of the singletons, the plugin path is a sequence of
  characters, and directories hold libraries.
* `MemoryAssumption`: the sizes of the heap and of the rest are natural numbers.

`RegistryProofs`.  The inductive invariant `NameInv` joins the type invariant, the agreement
of the two maps on absolute names, the ownership of what is named, the closure under
dependencies, and, for derived aliases, that every alias of a base type has been extended,
was taken away by a caller, or is still in `pending`.  The last part is what makes
`AliasesFollowed` inductive: it only holds between calls, and the nested calls have to be
accounted for.  One lemma per kind of step (`AddTypeInv`, `AliasInv`, `RemoveInv`,
`RecomputeInv`).  Proved: `DeletedOnce`, `NoDanglingName`, `DependenciesRegistered`,
`AliasesFollowed`, `NamesNeverRebound`, and `RelativeNameSound`, which is inductive on top of
`NameInv`: `add()` gives a relative name only to the type it binds (`BindRelative`), and
`updateCurrentNameMap()` makes all of them anew from absolute names (`UpdateRelative`).

`RegistryProofs`, derived names.  `DerivedInv` has three parts: a nested `alias()` call that is pending is
for a derived type, with a name derived from a name of its base (`NestedCallsDerived`); a
derived name that is not orphaned denotes a type derived in that way from what the rest of
the name denotes (`DerivedNamesMean`); and, inside of `build()`, the modifiers that are left lead to the name
that was asked for, from a name that the type in hand has, or is about to get from a pending
call (`BuilderOnTrail`); from an alias they lead through names that were not taken away or
orphaned (`OnTrail`).  `DerivedNamesBind` speaks of the end of `build()` and is not
inductive: in the middle the name of the level that was just made may only exist in
`pending`.  Proved: `DerivedNamesBind`.

`ExporterProofs`, `Exporter::save()`.  `ExportInv` says that `saved_types` is closed under dependencies and that
every persistent entry of a saved type is in the output (`SavedInv`), that every entry is in
exactly one of `types`, `free_types`, the output or dropped (`EntryInv`), and ties them to the
control state.  The witness for `DependenciesFirst` is `saved_types` at the time an entry is
saved.  An error means that every type still waiting waits for another one (`Cyclic`).
Proved: `DependenciesFirst`, `ExactlyOnce`, `ErrorIffRecursive`.

`ExporterProofs`, `IDLStepProofs`, `IDLExportProofs`.  The IDL exporter implements `Exporter`
(`IDLIsExporter`), so that order and uniqueness carry over to it (`IDLOrder`), and `ExportInv`
may be used in its proofs.  The inductive invariant is `IDLInv`, `ExportInv` with `OutputInv`:

* `StreamInv`: before the end of `end()`, the open modules are those of `m_namespace`, and
  none of them is empty;
* `TypesInv`: a type that `save()` was given is declared once, in its modules and under the
  name by which others refer to it, and other types are not declared;
* `LinesInv`, `AliasesInv`: an alias that can be a typedef has one line among the typedefs
  of its namespace, and one declaration once `end()` is past that namespace;
* `TypedefsResolved`: what the typedefs refer to is in the stream before they are;
* `RefusedInv`: what `save()` was given can be written.

`ReferencesResolved` alone is not inductive: a declaration may refer to all of `saved_types`,
so that `TypesInv` has to say that these are in the stream, where the references look for
them, and typedefs are written long after the call that made their text.  `EachDeclared`
needs to know where a typedef is between `save()` and `end()`.  The first of the modules has
the invariant and the lemmas on names: in what order arrays and containers are gone through
(`NestedIs`, `ThroughElement`), that only a type of a cycle has no innermost element
(`DeclaredNamespace`), and that `Visitable`, what the visitor does, is `Writable`, which says
what IDL can express (`VisitableWritable`, `WritableVisitable`).  The second has one lemma per
kind of step (`Quiet`, `SavesType`, `SavesAlias`, `WritesTypedefs`, `Ends`), the third the
stream (`Adapted`, `Writes`), the step lemma `OutputNext` and the theorems.
`RelativeResolves` follows from `IDLInv`, by which every module with a declaration is the
image of a namespace (`HomesExported`), and from `MinimalPathReaches`: if a scope inside of
the shared components had a module with the first component of the path, it would either be
the one that is meant, or the suffix, and then the path occurs in the namespace and was not
chosen.  Proved: `ReferencesResolved`, `EachDeclared`, `RefusedIffUnsupported`,
`RelativeResolves`.

`PluginProofs`, singletons.  `SInv`: the mutex is held by the one in a critical section, an entry has a
client or is about to get one, its count is the number of its clients, and an instance
exists for each entry and until the deletion of one that was erased.  Without the last two
parts the count of a step in progress could not be told from a wrong one.  From it follow
`OneInstance`, `InstanceForClients`, `NeededOnly`, and the refinement `ServerIsPhoenix`.

`PluginProofs` also holds the lemmas on the plugin path and the tables: the loop of the
constructor, with its `find()`, `substr()` and `erase()`, goes through the entries of the list
in order and leaves none out (`NextEntry`, `LastEntry`), and loading a library extends what a
table covers and keeps the first plugin of each name (`LoadCovers`, `LoadFirst`,
`LoadDefines`).

`PluginManagerProofs`.  The manager implements the server (`ManagerIsSingleton`) and so the
promise (`ManagerIsPhoenix`).  `PInv` says what the tables hold at each point of the life of
the manager: in its constructor, the plugins of the part of the list that was consumed, but
for the files still in `todo` (`ConstructorInv`); while it exists, those of the whole list
(`InstanceTablesInv`); without an instance nothing (`NoInstanceInv`).  `PluginsUsable` only
speaks of attached clients, and says nothing of a constructor in progress, of one that threw,
or of the tables the next incarnation starts from.  That the one who constructs is alone, and
that clients have an instance, comes from `SInv`.  Proved: `PluginsUsable`, and that no step
unmaps code or unregisters a container factory (`CodeNeverUnmapped`).

`RubyValueProofs`, `RubyMemoryProofs`.  The inductive invariant is `MemoryInv`:

* `RefInv`: the count of each entry is exact (`RefcountExact`), with the call of
  `memory_unref()` that is under way; the root of an entry that has references is registered;
  and roots form no cycle (`Acyclic`);
* `BlockInv`: the blocks of the heap are disjoint, and each is an object that an entry owns,
  one that no entry owns (`stale`), or the buffer of a vector;
* `VecInv`: vectors are objects, each has a buffer of its own, of the size of its capacity;
* `KindInv`, `LayoutsCounted`: `memory_types` knows the vectors among the owned objects, and
  `memory_layouts` counts its entries, so that `memory_delete()` frees the buffers too;
* `ValueInv`: a value is an object, an element within the length of a vector, or a field of
  one of these, and its zone is not about to be invalidated.

`MemoryInv` says nothing of the values in `kept`; reading from one of them, while it is in the
buffer of its container, is a step like the others (`KeptFieldStep`, `ToPtrStep`): the zone it
makes has the same root as those of the elements.

None of the checked properties is inductive.  That memory is not freed under a value
(`ValuesUsable`) needs to know which references keep the object of a field of an element, and
that the buffer is not also the memory of something else.  That invalidating the children of a vector
spares the values outside of it needs that two values share an address only if one is in the
other (`SharedValue`).  `ExitFrees` needs `Acyclic`: without zones, an entry that is left would
be the root of another one that is left, and so on in a cycle.  The table does not depend on
the rest, and one lemma per operation on it is enough (`WrapRef`, `UnrefRef`,
`DeregisterRef`).  The first module has the invariant and the steps on values that exist, the
second the steps that allocate or release memory.  Proved, for heaps and vectors of any size
and wherever the allocator puts a block: `TablesConsistent`, `ValuesUsable`, `ExitFrees`, and
`RubyTypesKept`: a value is destroyed after its type only if that type was removed from its
registry.  This bounds the divergence `TypeOutlivesValues` of `RubyMemoryDivergences.cfg`
below: the layouts do keep registries alive for all other types.

Only model-checked: the liveness properties (`CallsReturn`, `SaveTerminates`, `MutexReleased`),
which need fairness; and layouts, values, type graphs, byte swaps, documents and the clang importer,
which rest on recursive operators on types, on which the prover cannot do induction.

## Known divergences

For each of these, `tlc -config X.cfg M` finds a behaviour of the model that departs from
what a comment or a document of the repository says.
`RubyMemoryDivergences.cfg` lists three properties: TLC stops at the first one it refutes, and
with `-continue` it goes on to refute the other two.

| configuration | module | property | what the code does |
|---|---|---|---|
| `RegistryInnermost.cfg` | `MCRegistry` | `InnermostWins` | `add()` arbitrates relative names with an order in which outer namespaces come first, contrary to the comment on `nameSort` (`registry.cc:346`) |
| `RegistryOrphans.cfg` | `MCRegistry` | `DerivedNamesCurrent` | names derived from an alias stay when the alias is removed, and keep denoting the old type when it is made anew on another one (`typemodel.cc:284`) |
| `MemoryLayoutTrailing.cfg` | `MCMemoryLayout` | `TrailingHolesKept` | `remove_trailing_skips = false` has no effect (`memory_layout.cc:363`) |
| `MemoryLayoutEmpty.cfg` | `MCMemoryLayout` | `EmptyArraysRemoved` | `simplify()` takes four entries off its output where two were written (`memory_layout.cc:315`) |
| `MemoryLayoutAccept.cfg` | `MCMemoryLayout` | `AcceptedHasLayout` | the flags that accept pointers and opaques are not passed to elements (`memory_layout.cc:574`) |
| `MemoryLayoutPointers.cfg` | `MCMemoryLayout` | `PointersSkipped` | pointers that are accepted are copied (`memory_layout.cc:607`); the documentation says that they are "simply skipped" (`memory_layout.hh:165`, `type.rb:411`) |
| `ValueOpsLoad.cfg` | `MCValueOps` | `LoadReplaces` | `load()` leaves the elements of a container whose new contents are empty (`value_ops.cc:173`) |
| `ValueOpsUnmerged.cfg` | `MCValueOps` | `DumpEndsBlock` | `Vector::dump()` assumes the default options (`containers.cc:308`) |
| `RubyMemoryDivergences.cfg` | `RubyMemory` | `TypeOutlivesValues` | types removed from a registry are deleted before values of them (`ext/registry.cc:39`) |
| `RubyMemoryDivergences.cfg` | `RubyMemory` | `NewOwned` | a new value at the address of a stale zone does not own its memory (`ext/memory.cc:270`) |
| `RubyMemoryDivergences.cfg` | `RubyMemory` | `KeptUsable` | a value that `delete_if` yielded is not cached by its container and not invalidated when the container moves (`specialized_types.cc:582`) |
| `TypeModelRecursive.cfg` | `MCTypeModel` | `ResizeReturns` | `resize()` of a registry with a structure that refers to itself never returns (`typemodel.cc:289`, `404`) |
| `TypeModelCancelling.cfg` | `MCTypeModel` | `ResizePropagates` | changes of size that cancel out are applied again (`typemodel.cc:418`); the run `type_model` has no such change |
| `EndiannessPadded.cfg` | `MCEndianness` | `OppositeEndianness` | the padding at the end of a nested compound is not skipped (`endianness.cc:115`) |
| `ClangImporterBases.cfg` | `MCClangImporter` | `MembersPlaced` | the fields of a second base class get the offsets they have in that class (`TypelibBuilder.cpp:651`, `672`); the test expects those of the derived class (`classes.tlb:102`) |

The clang importer ends without a registry for five reasons, and `FailsWithCause` states
that there is no other: a structure that holds a vector of itself; two opaques that are
typedefs of one type; depending on the order, arrays of two integers of one size; a typedef
whose name is not valid, for which it calls `exit()` although its message says "ignoring"; and
a structure or an enumeration whose name is not valid, which `add()` refuses.  Names are not
valid in an anonymous namespace: structures declared there are filtered
(`TypelibBuilder.cpp:57`), but not when something else uses them, and typedefs are handled
before the filters (`TypelibBuilder.cpp:32`).  Neither is a global name of a single letter
(`NamingConversions.cpp:78`).

Read in the code, and not checked by a configuration: a `merge()` that throws at a later field
of a recursive structure leaves the pointer on it in the registry, and the structure itself is
freed (`typemodel.cc:387`); a TLB document that defines a type differently from the registry is
ignored without a word (`import.cc:143`); a null type equals any type of its name
(`typemodel.hh:259`), a pair that the registries of `type_model` do not contain; `Type#cast`
returns a value that its parent does not cache, like those of `delete_if` (`value.cc:557`);
fields that were saved out of order come back in another one, so that `isSame()` tells the two
structures apart; `remove()` leaves types hidden by the
removed one unreachable by relative name until the default namespace changes; `exporter.hh`
documents `UnsupportedType` where recursive types give `ExportError`; arrays of dimension
zero that were not squashed are only handled by `dump` and `load`; `erase` and `delete_if` do
nothing on strings; container and alias source ids do not survive a TLB document;
`s_available_containers` is not protected against concurrent registration; a constructor of a
singleton that uses singletons re-enters the server, which the model excludes; the IDL text for
an array of a type whose name starts with two underscores drops both, the declaration of
that type drops one (`export.cc:99`); and a namespace with the name of the IDL namespace suffix
makes relative IDL names ambiguous.

## Not modelled

* Visitors that only dispatch, display and CSV output: no state that outlives a call.
* Configuration sets: a tree of strings without invariants between its parts.
* Conversions between Ruby objects and values, and the export of types as Ruby constants:
  they keep no table, and their results are defined by Ruby.
* `validate()` and `display()` of layouts, and files and descriptors as streams.
* The characters of names and documents: validity rules, XML escaping, the rewriting of
  C++ names.  Names are sequences of components or tokens.
* The XML parser, the dynamic linker, clang and the other compilers: external.  The
  importers based on those other compilers read formats defined outside of the repository.
* `isSame()` of two registries, `addArrayMinor()`, and the size that can be given to `build()`.
