--------------------------- MODULE PluginManager ---------------------------
(***************************************************************************)
(* The plugin manager (typelib/pluginmanager.cc), which is one of the      *)
(* singletons: its constructor loads the plugin libraries with the         *)
(* singleton mutex held, its destructor deletes the plugins, and both run  *)
(* again each time that the last client leaves and a new one comes.  Three *)
(* kinds of clients exist: the constructor of Registry, the calls load()   *)
(* and save(), and code that holds a PluginManager::self and keeps the     *)
(* importers and the exporters that it asks for.                           *)
(***************************************************************************)
EXTENDS Singleton, Integers, Sequences, Functions

CONSTANTS
    Manager,        \* the singleton that is the plugin manager
    Job,            \* [Use -> {"registry", "call", "hold"}]: what a client of it does
    Char,           \* what a list of directories is made of, the delimiter included
    Env,            \* the values of TYPELIB_PLUGIN_PATH, or Unset
    Unset,
    HardcodedPath,  \* TYPELIB_HARDCODED_PLUGIN_PATH
    Libraries,      \* [directory -> set of .so files]: the directories that exist
    Library,        \* [.so file -> what dlopen(), dlsym() and registerPlugins() do]
    NoLib

ASSUME PluginAssumption ==
    /\ Manager \in Single
    /\ ":" \in Char /\ Env \ {Unset} \subseteq Seq(Char)
    /\ \A d \in DOMAIN Libraries : Libraries[d] \subseteq DOMAIN Library

VARIABLES
    env,                    \* TYPELIB_PLUGIN_PATH
    path,                   \* the copy of it that the constructor consumes
    todo,                   \* the files that directory_iterator has still to yield
    m_importers,            \* name -> the library whose plugin has it
    m_exporters,
    m_definition_plugins,   \* the libraries of the type definition plugins
    loaded,                 \* the libraries that dlopen() mapped in the process
    s_available_containers, \* name -> the library whose factory it is
    product,                \* the importer or exporter that a call works with
    kept,                   \* the libraries of those that clients keep
    registries              \* the definition plugins that each Registry was filled by

pVars == <<path, todo, m_importers, m_exporters, m_definition_plugins, loaded,
           s_available_containers, product, kept, registries>>
vars == <<sVars, env, pVars>>

Empty == [n \in {} |-> NoLib]
NPos == -1

Init ==
    /\ SInit
    /\ env \in Env
    /\ path = <<>> /\ todo = {}
    /\ m_importers = Empty /\ m_exporters = Empty /\ m_definition_plugins = <<>>
    /\ loaded = {} /\ s_available_containers = Empty
    /\ product = [u \in Use |-> NoLib] /\ kept = {} /\ registries = {}

\* Positions in a path, from 0 as in std::string.
Delims(s) == {i \in 0..(Len(s) - 1) : s[i + 1] = ":"}
FindLastOf(s) == IF Delims(s) = {} THEN NPos ELSE CHOOSE i \in Delims(s) : \A j \in Delims(s) : j <= i
Find(s) == IF Delims(s) = {} THEN NPos ELSE CHOOSE i \in Delims(s) : \A j \in Delims(s) : i <= j

\* What the constructor goes through: the list, to which the delimiter is always
\* appended since FindLastOf(s) is below Len(s) or NPos, or the compiled-in path.
PathToScan ==
    IF env # Unset THEN (IF FindLastOf(env) # Len(env) THEN Append(env, ":") ELSE env) ELSE <<>>
CompiledIn ==
    IF env = Unset /\ HardcodedPath \in DOMAIN Libraries THEN Libraries[HardcodedPath] ELSE {}

-----------------------------------------------------------------------------
\* map::insert() keeps the plugin that already has the name.
add_plugin(plugins, names, lib) ==
    [n \in DOMAIN plugins \cup names |-> IF n \in DOMAIN plugins THEN plugins[n] ELSE lib]

\* registerContainer() replaces the factory that already has the name.
registerContainers(factories, names, lib) ==
    [n \in DOMAIN factories \cup names |-> IF n \in names THEN lib ELSE factories[n]]

\* registerPlugins(*this), with all that the entry point of the library registers.
registerPlugins(lib) ==
    /\ m_importers' = add_plugin(m_importers, Library[lib].importers, lib)
    /\ m_exporters' = add_plugin(m_exporters, Library[lib].exporters, lib)
    /\ m_definition_plugins' = IF Library[lib].defines THEN Append(m_definition_plugins, lib)
                               ELSE m_definition_plugins
    /\ s_available_containers' =
          registerContainers(s_available_containers, Library[lib].containers, lib)

\* A library that does not open is skipped; one without entry point stays mapped.
loadPlugin(lib) ==
    /\ loaded' = IF Library[lib].opens THEN loaded \cup {lib} ELSE loaded
    /\ IF Library[lib].opens /\ Library[lib].entry THEN registerPlugins(lib)
       ELSE UNCHANGED <<m_importers, m_exporters, m_definition_plugins, s_available_containers>>

\* Mutant: the destructor closes the libraries.
ClearAndClose ==
    /\ m_importers' = Empty /\ m_exporters' = Empty /\ m_definition_plugins' = <<>>
    /\ loaded' = {} /\ UNCHANGED s_available_containers

\* ~PluginManager() deletes the plugins; a constructor that throws forgets them.  The
\* libraries are not closed and the container factories not unregistered.
Clear ==
    /\ m_importers' = Empty /\ m_exporters' = Empty /\ m_definition_plugins' = <<>>
    /\ UNCHANGED <<loaded, s_available_containers>>
-----------------------------------------------------------------------------
Constructs(u) == phase[u] = "create" /\ Ty[u] = Manager
OtherP == UNCHANGED <<product, kept, registries>>

Tables == <<m_importers, m_exporters, m_definition_plugins, loaded, s_available_containers>>

\* The first client starts the constructor.
AttachTo(u) ==
    /\ Attach(u)
    /\ IF Ty[u] = Manager /\ Ty[u] \notin singletons
       THEN path' = PathToScan /\ todo' = CompiledIn
       ELSE UNCHANGED <<path, todo>>
    /\ UNCHANGED Tables /\ OtherP

\* Mutant: the entry is not erased from the path.
OpenDirectoryAgain(u) ==
    /\ Constructs(u)
    /\ todo = {} /\ Delims(path) # {}
    /\ SubSeq(path, 1, Find(path)) \in DOMAIN Libraries
    /\ todo' = Libraries[SubSeq(path, 1, Find(path))]
    /\ UNCHANGED <<path, sVars, Tables>> /\ OtherP

\* One iteration of the loop on the path: a directory is opened ...
OpenDirectory(u) ==
    /\ Constructs(u)
    /\ todo = {} /\ Delims(path) # {}
    /\ SubSeq(path, 1, Find(path)) \in DOMAIN Libraries
    /\ todo' = Libraries[SubSeq(path, 1, Find(path))]
    /\ path' = SubSeq(path, Find(path) + 2, Len(path))
    /\ UNCHANGED <<sVars, Tables>> /\ OtherP

\* ... and its files come in the order of directory_iterator, which is not specified.
LoadFile(u) ==
    /\ Constructs(u)
    /\ \E lib \in todo : todo' = todo \ {lib} /\ loadPlugin(lib)
    /\ UNCHANGED <<sVars, path>> /\ OtherP

\* directory_iterator throws on what is not a directory.
ManagerThrows(u) ==
    /\ Constructs(u)
    /\ todo = {} /\ Delims(path) # {}
    /\ SubSeq(path, 1, Find(path)) \notin DOMAIN Libraries
    /\ CreateThrows(u)
    /\ path' = <<>>
    /\ Clear
    /\ UNCHANGED todo /\ OtherP

ManagerCreated(u) ==
    /\ Constructs(u)
    /\ todo = {} /\ Delims(path) = {}
    /\ Create(u)
    /\ UNCHANGED pVars

\* The other singletons: nothing is known of their constructors.
OtherCreate(u) ==
    /\ Ty[u] # Manager
    /\ Create(u) \/ CreateThrows(u)
    /\ UNCHANGED pVars

DeleteInstance(u) ==
    /\ Delete(u)
    /\ IF Ty[u] = Manager THEN Clear ELSE UNCHANGED Tables
    /\ UNCHANGED <<path, todo>> /\ OtherP

\* importer(name) or exporter(name), on behalf of load(), save() or the code that
\* holds u; PluginNotFound when no plugin has the name.
GetPlugin(u, plugins, name) ==
    /\ Ty[u] = Manager /\ phase[u] = "in" /\ product[u] = NoLib
    /\ name \in DOMAIN plugins
    /\ IF Job[u] = "hold" THEN kept' = kept \cup {plugins[name]} /\ UNCHANGED product
       ELSE product' = [product EXCEPT ![u] = plugins[name]] /\ UNCHANGED kept
    /\ UNCHANGED <<sVars, path, todo, Tables, registries>>

\* The caller is done with the manager: load() and save() delete the importer or the
\* exporter first, the constructor of Registry has registered the plugins' types.
Finish(u) ==
    /\ Done(u)
    /\ product' = [product EXCEPT ![u] = NoLib]
    /\ registries' = IF Ty[u] = Manager /\ Job[u] = "registry"
                     THEN registries \cup {m_definition_plugins} ELSE registries
    /\ UNCHANGED <<path, todo, Tables, kept>>

\* The caller deletes an importer or an exporter that it kept.
DeleteKept(l) ==
    /\ l \in kept
    /\ kept' = kept \ {l}
    /\ UNCHANGED <<sVars, path, todo, Tables, product, registries>>

Client(u) ==
    \/ (Construct(u) \/ Count(u) \/ Access(u) \/ Get(u) \/ Destroy(u) \/ Release(u) \/ Erase(u))
       /\ UNCHANGED pVars
    \/ AttachTo(u) \/ OpenDirectory(u) \/ LoadFile(u) \/ ManagerThrows(u) \/ ManagerCreated(u)
    \/ OtherCreate(u)
    \/ DeleteInstance(u) \/ Finish(u)
    \/ \E name \in DOMAIN m_importers : GetPlugin(u, m_importers, name)
    \/ \E name \in DOMAIN m_exporters : GetPlugin(u, m_exporters, name)

Next ==
    /\ \/ \E u \in Use : Client(u)
       \/ \E l \in kept : DeleteKept(l)
    /\ UNCHANGED env

Spec == Init /\ [][Next]_vars

\* Every thread goes on while it holds the mutex, the constructors of the singletons
\* included: the code in the critical sections waits for nothing.
Critical(u) ==
    \/ OpenDirectory(u) \/ LoadFile(u) \/ ManagerThrows(u) \/ ManagerCreated(u) \/ OtherCreate(u)
    \/ DeleteInstance(u) \/ (Count(u) /\ UNCHANGED pVars)
FairSpec == Spec /\ \A u \in Use : WF_vars(Critical(u) /\ UNCHANGED env)
-----------------------------------------------------------------------------
\* The entries of the list: what is between two delimiters, and where it starts.
Entries ==
    {e \in (1..(Len(env) + 1)) \X (0..Len(env)) :
        /\ e[1] <= e[2] + 1
        /\ \A k \in e[1]..e[2] : env[k] # ":"
        /\ e[1] = 1 \/ env[e[1] - 1] = ":"
        /\ e[2] = Len(env) \/ env[e[2] + 1] = ":"}
Listed == IF env = Unset THEN [e \in {<<1, 0>>} |-> HardcodedPath]
          ELSE [e \in Entries |-> SubSeq(env, e[1], e[2])]
ValidIn(d) == {l \in UNION {Libraries[e] : e \in DOMAIN Libraries \cap {d}} :
                  Library[l].opens /\ Library[l].entry}
Valid == UNION {ValidIn(Listed[e]) : e \in DOMAIN Listed}

\* The tables hold plugins of libraries that exist.
TypeOK ==
    /\ STypeOK
    /\ env \in Env
    /\ todo \subseteq DOMAIN Library
    /\ \A p \in {m_importers, m_exporters, s_available_containers} : Range(p) \subseteq DOMAIN Library
    /\ m_definition_plugins \in Seq(DOMAIN Library) /\ loaded \cup kept \subseteq DOMAIN Library
    /\ product \in [Use -> DOMAIN Library \cup {NoLib}]

\* What the libraries offer.
Importers == [l \in DOMAIN Library |-> Library[l].importers]
Exporters == [l \in DOMAIN Library |-> Library[l].exporters]

\* Entry e is the first one, in the list of directories L, whose plugins have the name n.
FirstWith(n, offered, e, L) ==
    \A f \in DOMAIN L : f[1] < e[1] => \A l \in ValidIn(L[f]) : n \notin offered[l]

\* Whoever is attached to the plugin manager, in whichever of its incarnations, finds
\* every plugin of every directory of the list, and for a name that several
\* directories offer the one that is listed first.
Complete(plugins, offered) ==
    /\ DOMAIN plugins = UNION {offered[l] : l \in Valid}
    /\ \A n \in DOMAIN plugins : \E e \in DOMAIN Listed :
          /\ plugins[n] \in ValidIn(Listed[e]) /\ n \in offered[plugins[n]]
          /\ FirstWith(n, offered, e, Listed)
PluginsComplete ==
    (\E u \in Use : Ty[u] = Manager /\ phase[u] \in Attached) =>
        Complete(m_importers, Importers) /\ Complete(m_exporters, Exporters)

\* The code of the plugins, of the importers and exporters that outlive the manager,
\* and of the container factories, which stay registered, is never unmapped.
CodeLoaded ==
    (Range(product) \ {NoLib}) \cup kept \cup Range(m_importers) \cup Range(m_exporters)
        \cup Range(m_definition_plugins) \cup Range(s_available_containers) \subseteq loaded

\* Every Registry received the types of each definition plugin, and finds the
\* containers of the plugins for as long as it lives, with or without a manager.
RegistryComplete ==
    \A r \in registries :
        /\ Range(r) = {l \in Valid : Library[l].defines}
        /\ UNION {Library[l].containers : l \in Valid} \subseteq DOMAIN s_available_containers

\* The plugins serve whoever is entitled to them, the clients of the manager and the
\* registries that outlive it, across any number of incarnations of the manager.
PluginsUsable == TypeOK /\ PluginsComplete /\ CodeLoaded /\ RegistryComplete

\* Loading plugins, deleting them or failing to find a directory never leaves the
\* singleton mutex locked.
MutexReleased == []<>(sing_mtx = NoUse)
=============================================================================
