------------------------ MODULE PluginManagerProofs ------------------------
(***************************************************************************)
(* The plugin manager is one of the singletons: whatever its constructor   *)
(* loads and its clients do, the singletons behave as Singleton says, and  *)
(* keep what Phoenix promises.  And the plugins that it loads are those    *)
(* of the list of directories, in each of its incarnations.                *)
(***************************************************************************)
EXTENDS PluginProofs

\* What a client does with the plugins is a step of the singletons, or none.
LEMMA ClientStep ==
    ASSUME NEW u \in Use, Client(u)
    PROVE  [SNext]_sVars
<1>1. CASE Construct(u) \/ Count(u) \/ Access(u) \/ Get(u) \/ Destroy(u) \/ Release(u) \/ Erase(u)
  BY <1>1, Zenon DEF SNext, Step
<1>2. CASE AttachTo(u) \/ DeleteInstance(u) \/ Finish(u)
  BY <1>2, Zenon DEF AttachTo, DeleteInstance, Finish, SNext, Step
<1>3. CASE ManagerThrows(u) \/ ManagerCreated(u) \/ OtherCreate(u)
  BY <1>3, Zenon DEF ManagerThrows, ManagerCreated, OtherCreate, SNext, Step
<1>4. CASE OpenDirectory(u) \/ LoadFile(u)
  BY <1>4, Zenon DEF OpenDirectory, LoadFile
<1>5. ASSUME NEW plugins, NEW name, GetPlugin(u, plugins, name)
      PROVE  UNCHANGED sVars
  BY <1>5, Zenon DEF GetPlugin
<1> QED BY <1>1, <1>2, <1>3, <1>4, <1>5, Zenon DEF Client

\* The plugin manager and its clients implement the server with any constructor that
\* may throw.
THEOREM ManagerIsSingleton == Spec => SSpec
<1>1. Init => SInit
  BY Zenon DEF Init
<1>2. [Next]_vars => [SNext]_sVars
  <2>1. ASSUME NEW l, DeleteKept(l)
        PROVE  UNCHANGED sVars
    BY <2>1, Zenon DEF DeleteKept
  <2>2. CASE UNCHANGED vars
    BY <2>2, Zenon DEF vars, sVars
  <2> QED BY <2>1, <2>2, ClientStep, Zenon DEF Next
<1> QED BY <1>1, <1>2, PTL DEF Spec, SSpec

\* There is one plugin manager as long as someone uses it and none otherwise, through
\* every reload of the plugins and every failure to load them.
THEOREM ManagerIsPhoenix == Spec => PhoenixSpec
BY ManagerIsSingleton, ServerIsPhoenix, PTL
-----------------------------------------------------------------------------
\* While the manager is constructed the tables hold what was consumed of the list, while
\* it exists they hold all of it, and when it is gone they are empty.
ConstructorInv == (\E u \in Use : Constructs(u)) => PathInv /\ TodoInv /\ TablesInv(Part)
InstanceTablesInv == Manager \in singletons => todo = {} /\ TablesInv(Listed)
NoInstance ==
    /\ Manager \notin singletons
    /\ \A u \in Use : Ty[u] = Manager => phase[u] \notin {"create", "delete"}
NoInstanceInv ==
    NoInstance => m_importers = Empty /\ m_exporters = Empty /\ m_definition_plugins = <<>>

\* The inductive invariant.
PInv ==
    /\ TypeOK /\ CodeLoaded /\ RegistryComplete
    /\ ConstructorInv /\ InstanceTablesInv /\ NoInstanceInv

-----------------------------------------------------------------------------
\* The entries of the list, and what is not read of the plugins, do not change.
LEMMA SameList ==
    ASSUME env' = env
    PROVE  Entries' = Entries /\ Listed' = Listed /\ Valid' = Valid
<1>1. Entries' = Entries
  BY Zenon DEF Entries
<1>2. Listed' = Listed
  BY <1>1, Zenon DEF Listed
<1> QED BY <1>1, <1>2, Zenon DEF Valid

\* The entries start at a position of the list, and those that were scanned are listed.
LEMMA EntryFacts ==
    ASSUME env \in Env
    PROVE  /\ \A e \in DOMAIN Listed : e[1] \in Nat
           /\ Scanned \subseteq DOMAIN Listed
           /\ DOMAIN Part = Scanned /\ \A e \in Scanned : Part[e] = Listed[e]
<1>1. CASE env = Unset
  BY <1>1 DEF Listed, Scanned, Part
<1>2. CASE env # Unset
  <2>1. \A e \in Entries : e[1] \in Nat
    BY <1>2, Delimited DEF Entries
  <2> QED BY <1>2, <2>1, Zenon DEF Listed, Scanned, Part
<1> QED BY <1>1, <1>2, Zenon

\* A step that leaves the tables alone, starts no constructor of the manager and makes
\* it neither exist nor disappear.
LEMMA QuietStep ==
    ASSUME PInv, UNCHANGED <<env, path, todo, Tables>>,
           \A u \in Use : Constructs(u)' => Constructs(u),
           Manager \in singletons' => Manager \in singletons,
           NoInstance' => NoInstance
    PROVE  ConstructorInv' /\ InstanceTablesInv' /\ NoInstanceInv'
<1>1. Listed' = Listed /\ Entries' = Entries
  BY SameList, Zenon
<1>2. Consumed' = Consumed
  BY Zenon DEF Consumed
<1>3. Scanned' = Scanned /\ PathInv' = PathInv
  BY <1>1, <1>2, Zenon DEF Scanned, PathInv
<1>4. Part' = Part
  BY <1>1, <1>3, Zenon DEF Part
<1>5. TodoInv' = TodoInv
  BY <1>1, <1>3, <1>4, Zenon DEF TodoInv
<1>6. TablesInv(Part)' = TablesInv(Part) /\ TablesInv(Listed)' = TablesInv(Listed)
  BY <1>1, <1>4, Zenon DEF TablesInv, Tables
<1>7. ConstructorInv'
  BY <1>3, <1>5, <1>6, Zenon DEF PInv, ConstructorInv
<1>8. InstanceTablesInv'
  BY <1>6, Zenon DEF PInv, InstanceTablesInv
<1>9. NoInstanceInv'
  BY Zenon DEF PInv, NoInstanceInv, Tables, Empty
<1> QED BY <1>7, <1>8, <1>9, Zenon

\* What the client u does with the singletons, when it has nothing to do with the
\* construction or the deletion of the manager.
Aside(u) ==
    \/ Construct(u) \/ Count(u) \/ Access(u) \/ Get(u) \/ Done(u) \/ Destroy(u) \/ Release(u) \/ Erase(u)
    \/ Attach(u) /\ (Ty[u] # Manager \/ Manager \in singletons)
    \/ Ty[u] # Manager /\ (Create(u) \/ CreateThrows(u) \/ Delete(u))

LEMMA AsideStep ==
    ASSUME SInv, NEW u \in Use, Aside(u)
    PROVE  /\ \A v \in Use : Constructs(v)' => Constructs(v)
           /\ Manager \in singletons' => Manager \in singletons
           /\ NoInstance' => NoInstance
<1> USE DEF Goto
<1>1. phase \in [Use -> Phases]
  BY Zenon DEF SInv, STypeOK
<1>2. CASE Construct(u) \/ Count(u) \/ Access(u) \/ Get(u) \/ Done(u) \/ Destroy(u) \/ Release(u)
  BY <1>1, <1>2, Zenon DEF Construct, Count, Access, Get, Done, Destroy, Release, Constructs, NoInstance
<1>3. CASE Erase(u)
  BY <1>1, <1>3, Zenon DEF Erase, Constructs, NoInstance
<1>4. CASE Attach(u) /\ (Ty[u] # Manager \/ Manager \in singletons)
  BY <1>1, <1>4, Zenon DEF Attach, Constructs, NoInstance
<1>5. CASE Ty[u] # Manager /\ (Create(u) \/ CreateThrows(u) \/ Delete(u))
  BY <1>1, <1>5, Zenon DEF Create, CreateThrows, Delete, Constructs, NoInstance
<1> QED BY <1>2, <1>3, <1>4, <1>5, Zenon DEF Aside

\* The first client starts the constructor, with nothing in the tables.
LEMMA AttachTables ==
    ASSUME SInv, PInv, env' = env, NEW u \in Use, AttachTo(u)
    PROVE  ConstructorInv' /\ InstanceTablesInv' /\ NoInstanceInv'
<1>1. CASE Ty[u] # Manager \/ Manager \in singletons
  <2>1. UNCHANGED <<path, todo, Tables>> /\ Aside(u)
    BY <1>1, Zenon DEF AttachTo, Aside
  <2> QED BY <2>1, AsideStep, QuietStep, Zenon
<1>2. CASE Ty[u] = Manager /\ Manager \notin singletons
  <2>1. /\ path' = PathToScan /\ todo' = CompiledIn /\ UNCHANGED Tables
        /\ sing_mtx = NoUse /\ singletons' = singletons /\ phase'[u] = "create"
    BY <1>2, Zenon DEF AttachTo, Attach, Goto, SInv, STypeOK
  <2>2. NoInstance
    BY <1>2, <2>1, UseAssumption, Zenon DEF NoInstance, SInv, MutexInv, Locked
  <2>3. m_importers' = Empty /\ m_exporters' = Empty /\ m_definition_plugins' = <<>>
    BY <2>1, <2>2, Zenon DEF PInv, NoInstanceInv, Tables
  <2>4. InstanceTablesInv' /\ NoInstanceInv'
    BY <1>2, <2>1, Zenon DEF InstanceTablesInv, NoInstanceInv, NoInstance
  <2>5. /\ \A offered, L : FromFirst(Empty, offered, L)
        /\ Range(<<>>) = {}
    BY DEF FromFirst, Empty, Range
  <2>6. CASE env = Unset
    <3>1. path' = <<>>
      BY <2>1, <2>6, Zenon DEF PathToScan
    <3>2. Scanned' = {<<1, 0>>} /\ Listed' = [e \in {<<1, 0>>} |-> HardcodedPath] /\ PathInv'
      BY <2>6, <3>1, Zenon DEF Scanned, Listed, PathInv
    <3>3. Part' = [e \in {<<1, 0>>} |-> HardcodedPath]
      BY <3>2, Zenon DEF Part
    <3>4. \A e \in DOMAIN Part' : Last(e, Part')
      BY <3>3 DEF Last
    <3>5. \A e \in DOMAIN Part' : \A l \in ValidIn(Part'[e]) : l \in todo'
      BY <2>1, <2>6, <3>3, ZenonT(60) DEF ValidIn, CompiledIn
    <3>6. TodoInv'
      BY <2>1, <2>6, <3>2, <3>3, <3>4, Zenon DEF TodoInv, CompiledIn
    <3>7. \A plugins, offered : Covers(plugins, offered, Part', todo')
      BY <3>4, <3>5, Zenon DEF Covers
    <3>8. Defines(<<>>, Part', todo')
      BY <2>5, <3>4, <3>5, Zenon DEF Defines
    <3>9. TablesInv(Part)'
      BY <2>3, <2>5, <3>7, <3>8, Zenon DEF TablesInv
    <3> QED BY <2>4, <3>2, <3>6, <3>9, Zenon DEF ConstructorInv
  <2>7. CASE env # Unset
    <3>1. path' = Append(env, ":") /\ todo' = {}
      BY <2>1, <2>7, ListIs, Zenon DEF PInv, TypeOK, CompiledIn
    <3>2. /\ Append(env, ":") \in Seq(Char) /\ Len(Append(env, ":")) = Len(env) + 1 /\ Len(env) \in Nat
      BY <2>7, Delimited, Zenon DEF PInv, TypeOK
    <3>3. Consumed' = 0
      BY <3>1, <3>2 DEF Consumed
    <3>4. PathInv'
      <4>1. \A k \in 1..Len(path') : path'[k] = Append(env, ":")[0 + k]
        BY <3>1, <3>2
      <4> QED BY <2>7, <3>1, <3>2, <3>3, <4>1, SMTT(30) DEF PathInv
    <3>5. Scanned' = {}
      BY <2>7, <3>2, <3>3, SameList, SMTT(30) DEF Scanned, Entries
    <3>6. DOMAIN Part' = {}
      BY <3>5, Zenon DEF Part
    <3>7. \A plugins, offered : Covers(plugins, offered, Part', todo')
      BY <3>6, Zenon DEF Covers
    <3>8. Defines(<<>>, Part', todo')
      BY <2>5, <3>6, ZenonT(60) DEF Defines
    <3>9. TablesInv(Part)'
      BY <2>3, <2>5, <3>7, <3>8, Zenon DEF TablesInv
    <3>10. TodoInv'
      BY <3>1, Zenon DEF TodoInv
    <3> QED BY <2>4, <3>4, <3>9, <3>10, Zenon DEF ConstructorInv
  <2> QED BY <2>6, <2>7, Zenon
<1> QED BY <1>1, <1>2, Zenon

\* While u constructs the manager, there is none.
LEMMA NoneYet ==
    ASSUME SInv, NEW u \in Use, Constructs(u)
    PROVE  Manager \notin singletons
BY Zenon DEF SInv, EntryInv, Constructs

\* The constructor opens the next directory of the list.
LEMMA OpenDirectoryTables ==
    ASSUME SInv, PInv, env' = env, NEW u \in Use, OpenDirectory(u)
    PROVE  ConstructorInv' /\ InstanceTablesInv' /\ NoInstanceInv'
<1>1. /\ Constructs(u) /\ todo = {} /\ Delims(path) # {}
      /\ SubSeq(path, 1, Find(path)) \in DOMAIN Libraries
      /\ todo' = Libraries[SubSeq(path, 1, Find(path))]
      /\ path' = SubSeq(path, Find(path) + 2, Len(path))
      /\ UNCHANGED <<phase, singletons>> /\ UNCHANGED Tables
  BY Zenon DEF OpenDirectory, sVars
<1>2. env \in Env /\ PathInv /\ TablesInv(Part)
  BY <1>1, Zenon DEF PInv, TypeOK, ConstructorInv
<1>3. env # Unset
  BY <1>1, <1>2 DEF PathInv, Delims
<1>4. /\ PathInv'
      /\ \E e \in Entries : /\ Listed[e] = SubSeq(path, 1, Find(path))
                            /\ \A f \in Scanned : f[1] < e[1]
                            /\ Scanned' = Scanned \cup {e}
  BY <1>1, <1>2, <1>3, NextEntry, Zenon
<1>5. PICK e \in Entries : /\ Listed[e] = SubSeq(path, 1, Find(path))
                           /\ \A f \in Scanned : f[1] < e[1]
                           /\ Scanned' = Scanned \cup {e}
  BY <1>4, Zenon
<1>6. Listed' = Listed /\ DOMAIN Listed = Entries
  BY <1>3, SameList, Zenon DEF Listed
<1>7. Part' = [f \in Scanned \cup {e} |-> Listed[f]]
  BY <1>5, <1>6, Zenon DEF Part
<1>8. Extends(Part', Part, e) /\ Part'[e] \in DOMAIN Libraries /\ todo' = Libraries[Part'[e]]
  BY <1>1, <1>2, <1>5, <1>6, <1>7, EntryFacts, ZenonT(60) DEF Extends
<1>9. TablesInv(Part)'
  BY <1>1, <1>2, <1>8, OpenTables, Zenon DEF TablesInv, Tables
<1>10. TodoInv'
  <2>1. Last(e, Part')
    BY <1>8 DEF Extends, Last
  <2> QED BY <1>1, <1>5, <1>6, <2>1, Zenon DEF TodoInv
<1>11. InstanceTablesInv'
  BY <1>1, NoneYet, Zenon DEF InstanceTablesInv
<1>12. NoInstanceInv'
  BY <1>1, Zenon DEF NoInstanceInv, NoInstance, Constructs
<1> QED BY <1>4, <1>9, <1>10, <1>11, <1>12, Zenon DEF ConstructorInv

\* The constructor loads one file of the directory.
LEMMA LoadFileTables ==
    ASSUME SInv, PInv, env' = env, NEW u \in Use, LoadFile(u)
    PROVE  ConstructorInv' /\ InstanceTablesInv' /\ NoInstanceInv'
<1>1. PICK lib \in todo : todo' = todo \ {lib} /\ loadPlugin(lib)
  BY Zenon DEF LoadFile
<1>2. Constructs(u) /\ UNCHANGED <<phase, singletons, path>>
  BY Zenon DEF LoadFile, sVars
<1>3. env \in Env /\ PathInv /\ TodoInv /\ TablesInv(Part)
  BY <1>2, Zenon DEF PInv, TypeOK, ConstructorInv
<1>4. Listed' = Listed /\ Scanned' = Scanned /\ PathInv' /\ Part' = Part
  <2>1. Listed' = Listed /\ Entries' = Entries
    BY SameList, Zenon
  <2>2. Consumed' = Consumed
    BY <1>2, Zenon DEF Consumed
  <2>3. Scanned' = Scanned
    BY <2>1, <2>2, Zenon DEF Scanned
  <2> QED BY <1>2, <1>3, <2>1, <2>2, <2>3, ZenonT(60) DEF PathInv, Part
<1>5. PICK e \in Scanned : /\ Listed[e] \in DOMAIN Libraries /\ todo \subseteq Libraries[Listed[e]]
                           /\ Last(e, Part)
  BY <1>1, <1>3, Zenon DEF TodoInv
<1>6. TodoInv'
  BY <1>1, <1>4, <1>5, Zenon DEF TodoInv
<1>7. /\ DOMAIN Part = Scanned /\ e \in DOMAIN Part /\ Part[e] = Listed[e]
      /\ \A f \in DOMAIN Part : f[1] \in Nat
  BY <1>3, <1>5, EntryFacts, Zenon
<1>8. lib \in DOMAIN Library
  BY <1>1, <1>5, PluginAssumption, Zenon
<1>9. ASSUME Library[lib].opens /\ Library[lib].entry
      PROVE  TablesInv(Part)'
  <2>1. lib \in ValidIn(Part[e])
    BY <1>1, <1>5, <1>7, <1>9, Zenon DEF ValidIn
  <2>2. registerPlugins(lib)
    BY <1>1, <1>9, Zenon DEF loadPlugin
  <2>3. Covers(m_importers', Importers, Part, todo') /\ FromFirst(m_importers', Importers, Part)
    <3>1. m_importers' = add_plugin(m_importers, Importers[lib], lib)
      BY <1>8, <2>2, Zenon DEF registerPlugins, Importers
    <3>2. Covers(m_importers, Importers, Part, todo) /\ FromFirst(m_importers, Importers, Part)
      BY <1>3, Zenon DEF TablesInv
    <3>3. DOMAIN m_importers' = DOMAIN m_importers \cup Importers[lib]
      BY <3>1, AddPlugin, Zenon
    <3>4. Covers(m_importers', Importers, Part, todo')
      BY <1>1, <3>2, <3>3, LoadCovers, ZenonT(60)
    <3>5. FromFirst(m_importers', Importers, Part)
      BY <1>5, <1>7, <2>1, <3>1, <3>2, LoadFirst, ZenonT(60)
    <3> QED BY <3>4, <3>5, Zenon
  <2>4. Covers(m_exporters', Exporters, Part, todo') /\ FromFirst(m_exporters', Exporters, Part)
    <3>1. m_exporters' = add_plugin(m_exporters, Exporters[lib], lib)
      BY <1>8, <2>2, Zenon DEF registerPlugins, Exporters
    <3>2. Covers(m_exporters, Exporters, Part, todo) /\ FromFirst(m_exporters, Exporters, Part)
      BY <1>3, ZenonT(60) DEF TablesInv
    <3>3. DOMAIN m_exporters' = DOMAIN m_exporters \cup Exporters[lib]
      BY <3>1, AddPlugin, Zenon
    <3>4. Covers(m_exporters', Exporters, Part, todo')
      BY <1>1, <3>2, <3>3, LoadCovers, Zenon
    <3>5. FromFirst(m_exporters', Exporters, Part)
      BY <1>5, <1>7, <2>1, <3>1, <3>2, LoadFirst, Zenon
    <3> QED BY <3>4, <3>5, Zenon
  <2>5. Covers(s_available_containers', Containers, Part, todo')
    <3>1. DOMAIN s_available_containers' = DOMAIN s_available_containers \cup Containers[lib]
      BY <1>8, <2>2, AddContainers, ZenonT(60) DEF registerPlugins, Containers
    <3>2. Covers(s_available_containers, Containers, Part, todo)
      BY <1>3, Zenon DEF TablesInv
    <3> QED BY <1>1, <3>1, <3>2, LoadCovers, Zenon
  <2>6. Defines(m_definition_plugins', Part, todo')
    <3>1. m_definition_plugins \in Seq(DOMAIN Library)
      BY Zenon DEF PInv, TypeOK
    <3>2. m_definition_plugins' = IF Library[lib].defines THEN Append(m_definition_plugins, lib)
                                  ELSE m_definition_plugins
      BY <2>2, Zenon DEF registerPlugins
    <3>3. Range(Append(m_definition_plugins, lib)) = Range(m_definition_plugins) \cup {lib}
      BY <1>8, <3>1, AppendRange
    <3>4. /\ Range(m_definition_plugins) \subseteq Range(m_definition_plugins')
          /\ Range(m_definition_plugins') \subseteq Range(m_definition_plugins) \cup
                 {l \in {lib} : Library[l].defines /\ \E f \in DOMAIN Part : l \in ValidIn(Part[f])}
          /\ Library[lib].defines => lib \in Range(m_definition_plugins')
      BY <1>7, <2>1, <3>2, <3>3, Zenon
    <3>5. Defines(m_definition_plugins, Part, todo)
      BY <1>3, Zenon DEF TablesInv
    <3> QED BY <1>1, <3>4, <3>5, LoadDefines, Zenon
  <2> QED BY <1>4, <2>3, <2>4, <2>5, <2>6, ZenonT(60) DEF TablesInv
<1>10. ASSUME ~(Library[lib].opens /\ Library[lib].entry)
       PROVE  TablesInv(Part)'
  <2>1. UNCHANGED <<m_importers, m_exporters, m_definition_plugins, s_available_containers>>
    BY <1>1, <1>10, Zenon DEF loadPlugin
  <2>2. \A plugins, offered : Covers(plugins, offered, Part, todo) => Covers(plugins, offered, Part, todo')
    BY <1>1, <1>10, LoadCovers, Zenon
  <2>3. Defines(m_definition_plugins, Part, todo')
    <3>1. Defines(m_definition_plugins, Part, todo)
      BY <1>3, Zenon DEF TablesInv
    <3> QED BY <1>1, <1>10, <3>1, LoadDefines, ZenonT(60)
  <2> QED BY <1>3, <1>4, <2>1, <2>2, <2>3, ZenonT(60) DEF TablesInv
<1>11. TablesInv(Part)'
  BY <1>9, <1>10, Zenon
<1>12. InstanceTablesInv'
  BY <1>2, NoneYet, Zenon DEF InstanceTablesInv
<1>13. NoInstanceInv'
  BY <1>2, Zenon DEF NoInstanceInv, NoInstance, Constructs
<1> QED BY <1>4, <1>6, <1>11, <1>12, <1>13, Zenon DEF ConstructorInv

\* The constructor throws, or the destructor runs: nothing is left in the tables.
LEMMA ClearTables ==
    ASSUME SInv, PInv, NEW u \in Use, Ty[u] = Manager, phase[u] \in {"create", "delete"},
           phase' = [phase EXCEPT ![u] = "none"], singletons' = singletons, Clear
    PROVE  ConstructorInv' /\ InstanceTablesInv' /\ NoInstanceInv'
<1>1. Manager \notin singletons
  BY Zenon DEF SInv, EntryInv
<1>2. \A v \in Use : phase[v] \in Locked => v = u
  BY Alone, Zenon DEF Locked
<1>3. \A v \in Use : phase'[v] # "create"
  BY <1>2, Zenon DEF SInv, STypeOK, Locked
<1>4. ConstructorInv'
  BY <1>3, Zenon DEF ConstructorInv, Constructs
<1>5. InstanceTablesInv'
  BY <1>1, Zenon DEF InstanceTablesInv
<1>6. NoInstanceInv'
  BY Zenon DEF NoInstanceInv, Clear, Empty
<1> QED BY <1>4, <1>5, <1>6, Zenon

\* The constructor has gone through the whole list: all the plugins are there.
LEMMA ManagerCreatedTables ==
    ASSUME SInv, PInv, env' = env, NEW u \in Use, ManagerCreated(u)
    PROVE  ConstructorInv' /\ InstanceTablesInv' /\ NoInstanceInv'
<1>1. /\ Constructs(u) /\ todo = {} /\ Delims(path) = {} /\ Create(u)
      /\ UNCHANGED <<path, todo, m_importers, m_exporters, m_definition_plugins, s_available_containers>>
  BY Zenon DEF ManagerCreated, pVars
<1>2. env \in Env /\ PathInv /\ TablesInv(Part)
  BY <1>1, Zenon DEF PInv, TypeOK, ConstructorInv
<1>3. Scanned = DOMAIN Listed
  <2>1. CASE env = Unset
    BY <2>1, Zenon DEF Scanned, Listed
  <2>2. CASE env # Unset
    BY <1>1, <1>2, <2>2, LastEntry, Zenon DEF Listed
  <2> QED BY <2>1, <2>2, Zenon
<1>4. Part = Listed
  <2>1. Listed = [e \in DOMAIN Listed |-> Listed[e]]
    BY Zenon DEF Listed
  <2> QED BY <1>3, <2>1, Zenon DEF Part
<1>5. Listed' = Listed
  BY SameList, Zenon
<1>6. InstanceTablesInv'
  BY <1>1, <1>2, <1>4, <1>5, Zenon DEF InstanceTablesInv, TablesInv
<1>7. \A v \in Use : phase'[v] # "create"
  <2>1. \A v \in Use : phase[v] \in Locked => v = u
    BY <1>1, Alone, Zenon DEF Constructs, Locked
  <2> QED BY <1>1, <2>1, Zenon DEF SInv, STypeOK, Create, Goto, Locked
<1>8. ConstructorInv'
  BY <1>7, Zenon DEF ConstructorInv, Constructs
<1>9. NoInstanceInv'
  BY <1>1, Zenon DEF NoInstanceInv, NoInstance, Create, Constructs
<1> QED BY <1>6, <1>8, <1>9, Zenon

\* Every step of a client keeps the tables as they should be.
LEMMA ClientTables ==
    ASSUME SInv, PInv, env' = env, NEW u \in Use, Client(u)
    PROVE  ConstructorInv' /\ InstanceTablesInv' /\ NoInstanceInv'
<1>1. CASE (Construct(u) \/ Count(u) \/ Access(u) \/ Get(u) \/ Destroy(u) \/ Release(u) \/ Erase(u))
           /\ UNCHANGED pVars
  <2>1. Aside(u) /\ UNCHANGED <<path, todo, Tables>>
    BY <1>1, Zenon DEF Aside, pVars, Tables
  <2> QED BY <2>1, AsideStep, QuietStep, Zenon
<1>2. CASE AttachTo(u)
  BY <1>2, AttachTables, Zenon
<1>3. CASE OpenDirectory(u)
  BY <1>3, OpenDirectoryTables, ZenonT(60)
<1>4. CASE LoadFile(u)
  BY <1>4, LoadFileTables, Zenon
<1>5. CASE ManagerThrows(u)
  BY <1>5, ClearTables, ZenonT(60) DEF ManagerThrows, Constructs, CreateThrows, Goto
<1>6. CASE ManagerCreated(u)
  BY <1>6, ManagerCreatedTables, Zenon
<1>7. CASE OtherCreate(u)
  <2>1. Aside(u) /\ UNCHANGED <<path, todo, Tables>>
    BY <1>7, Zenon DEF OtherCreate, Aside, pVars, Tables
  <2> QED BY <2>1, AsideStep, QuietStep, Zenon
<1>8. CASE DeleteInstance(u)
  <2>1. CASE Ty[u] = Manager
    BY <1>8, <2>1, ClearTables, ZenonT(60) DEF DeleteInstance, Delete, Goto
  <2>2. CASE Ty[u] # Manager
    <3>1. Aside(u) /\ UNCHANGED <<path, todo, Tables>>
      BY <1>8, <2>2, ZenonT(60) DEF DeleteInstance, Aside
    <3> QED BY <3>1, AsideStep, QuietStep, Zenon
  <2> QED BY <2>1, <2>2, Zenon
<1>9. CASE Finish(u)
  <2>1. Aside(u) /\ UNCHANGED <<path, todo, Tables>>
    BY <1>9, Zenon DEF Finish, Aside
  <2> QED BY <2>1, AsideStep, QuietStep, Zenon
<1>10. ASSUME NEW plugins, NEW name, GetPlugin(u, plugins, name)
       PROVE  ConstructorInv' /\ InstanceTablesInv' /\ NoInstanceInv'
  <2>1. UNCHANGED <<path, todo, Tables>> /\ UNCHANGED <<phase, singletons>>
    BY <1>10, Zenon DEF GetPlugin, sVars
  <2> QED BY <2>1, QuietStep, Zenon DEF Constructs, NoInstance
<1> QED BY <1>1, <1>2, <1>3, <1>4, <1>5, <1>6, <1>7, <1>8, <1>9, <1>10, ZenonT(60) DEF Client

-----------------------------------------------------------------------------
\* The code of what is in the tables.
InTables == Range(m_importers) \cup Range(m_exporters) \cup Range(m_definition_plugins)
                \cup Range(s_available_containers)

\* What a step may do to the tables: what they hold is mapped, nothing is unmapped, and
\* no container factory is unregistered.
TablesStep ==
    /\ loaded \subseteq loaded' /\ loaded' \subseteq DOMAIN Library /\ InTables' \subseteq loaded'
    /\ m_definition_plugins' \in Seq(DOMAIN Library)
    /\ DOMAIN s_available_containers \subseteq DOMAIN s_available_containers'

LEMMA SameTables ==
    ASSUME PInv, UNCHANGED Tables
    PROVE  TablesStep
BY Zenon DEF PInv, TypeOK, CodeLoaded, Tables, TablesStep, InTables

LEMMA ClearStep ==
    ASSUME PInv, Clear
    PROVE  TablesStep
<1>1. Range(Empty) = {} /\ Range(<<>>) = {}
  BY DEF Empty, Range
<1>2. m_definition_plugins' \in Seq(DOMAIN Library)
  BY EmptySeq, Zenon DEF Clear
<1> QED BY <1>1, <1>2, Zenon DEF PInv, TypeOK, CodeLoaded, Clear, TablesStep, InTables

LEMMA LoadStep ==
    ASSUME PInv, NEW lib \in DOMAIN Library, loadPlugin(lib)
    PROVE  TablesStep
<1>1. /\ InTables \subseteq loaded /\ loaded \subseteq DOMAIN Library
      /\ m_definition_plugins \in Seq(DOMAIN Library)
  BY Zenon DEF PInv, TypeOK, CodeLoaded, InTables
<1>2. loaded \subseteq loaded' /\ loaded' \subseteq DOMAIN Library
  BY <1>1, Zenon DEF loadPlugin
<1>3. CASE Library[lib].opens /\ Library[lib].entry
  <2>1. registerPlugins(lib) /\ lib \in loaded'
    BY <1>3, Zenon DEF loadPlugin
  <2>2. Range(m_importers') \subseteq Range(m_importers) \cup {lib}
    <3>1. m_importers' = add_plugin(m_importers, Library[lib].importers, lib)
      BY <2>1, Zenon DEF registerPlugins
    <3> QED BY <3>1, AddPlugin, Zenon
  <2>3. Range(m_exporters') \subseteq Range(m_exporters) \cup {lib}
    <3>1. m_exporters' = add_plugin(m_exporters, Library[lib].exporters, lib)
      BY <2>1, Zenon DEF registerPlugins
    <3> QED BY <3>1, AddPlugin, Zenon
  <2>4. /\ Range(s_available_containers') \subseteq Range(s_available_containers) \cup {lib}
        /\ DOMAIN s_available_containers \subseteq DOMAIN s_available_containers'
    <3>1. s_available_containers' =
              registerContainers(s_available_containers, Library[lib].containers, lib)
      BY <2>1, Zenon DEF registerPlugins
    <3>2. DOMAIN s_available_containers \subseteq DOMAIN s_available_containers'
      BY <3>1, Zenon DEF registerContainers
    <3>3. Range(s_available_containers') \subseteq Range(s_available_containers) \cup {lib}
      BY <3>1, AddContainers, Zenon
    <3> QED BY <3>2, <3>3, Zenon
  <2>5. /\ Append(m_definition_plugins, lib) \in Seq(DOMAIN Library)
        /\ Range(Append(m_definition_plugins, lib)) = Range(m_definition_plugins) \cup {lib}
    BY <1>1, AppendRange
  <2>6. /\ m_definition_plugins' \in Seq(DOMAIN Library)
        /\ Range(m_definition_plugins') \subseteq Range(m_definition_plugins) \cup {lib}
    BY <1>1, <2>1, <2>5, Zenon DEF registerPlugins
  <2> QED BY <1>1, <1>2, <2>1, <2>2, <2>3, <2>4, <2>6, ZenonT(60) DEF TablesStep, InTables
<1>4. CASE ~(Library[lib].opens /\ Library[lib].entry)
  <2>1. UNCHANGED <<m_importers, m_exporters, m_definition_plugins, s_available_containers>>
    BY <1>4, Zenon DEF loadPlugin
  <2>2. InTables' = InTables
    BY <2>1, Zenon DEF InTables
  <2> QED BY <1>1, <1>2, <2>1, <2>2, Zenon DEF TablesStep
<1> QED BY <1>3, <1>4, Zenon

LEMMA ClientTablesStep ==
    ASSUME PInv, NEW u \in Use, Client(u)
    PROVE  TablesStep
<1>1. ASSUME UNCHANGED pVars
      PROVE  UNCHANGED Tables
  BY <1>1, Zenon DEF pVars, Tables
<1>2. CASE AttachTo(u) \/ OpenDirectory(u) \/ Finish(u)
  BY <1>2, SameTables, Zenon DEF AttachTo, OpenDirectory, Finish
<1>3. CASE ManagerCreated(u) \/ OtherCreate(u)
  BY <1>1, <1>3, SameTables, Zenon DEF ManagerCreated, OtherCreate
<1>4. CASE ManagerThrows(u) \/ DeleteInstance(u)
  BY <1>4, SameTables, ClearStep, Zenon DEF ManagerThrows, DeleteInstance
<1>5. CASE LoadFile(u)
  BY <1>5, LoadStep, Zenon DEF LoadFile, PInv, TypeOK
<1>6. ASSUME NEW plugins, NEW name, GetPlugin(u, plugins, name)
      PROVE  TablesStep
  BY <1>6, SameTables, Zenon DEF GetPlugin
<1> QED BY <1>1, <1>2, <1>3, <1>4, <1>5, <1>6, SameTables, ZenonT(60) DEF Client

\* The files that are to be loaded exist.
LEMMA ClientTodo ==
    ASSUME PInv, NEW u \in Use, Client(u)
    PROVE  todo' \subseteq DOMAIN Library
<1>1. todo \subseteq DOMAIN Library
  BY Zenon DEF PInv, TypeOK
<1>2. CASE todo' = todo
  BY <1>1, <1>2, Zenon
<1>3. CASE AttachTo(u)
  BY <1>1, <1>3, PluginAssumption, Zenon DEF AttachTo, CompiledIn
<1>4. CASE OpenDirectory(u)
  BY <1>4, PluginAssumption, Zenon DEF OpenDirectory
<1>5. CASE LoadFile(u)
  BY <1>1, <1>5, Zenon DEF LoadFile
<1>6. CASE ManagerThrows(u) \/ ManagerCreated(u) \/ OtherCreate(u) \/ DeleteInstance(u) \/ Finish(u)
  BY <1>2, <1>6, Zenon DEF ManagerThrows, ManagerCreated, OtherCreate, DeleteInstance, Finish, pVars
<1>7. ASSUME NEW plugins, NEW name, GetPlugin(u, plugins, name)
      PROVE  todo' = todo
  BY <1>7, Zenon DEF GetPlugin
<1>8. ASSUME UNCHANGED pVars
      PROVE  todo' = todo
  BY <1>8, Zenon DEF pVars
<1> QED BY <1>2, <1>3, <1>4, <1>5, <1>6, <1>7, <1>8, ZenonT(60) DEF Client

\* The importers and exporters that calls work with, or that clients keep, come from the
\* tables.
LEMMA ClientProducts ==
    ASSUME PInv, NEW u \in Use, Client(u)
    PROVE  /\ product' \in [Use -> DOMAIN Library \cup {NoLib}]
           /\ (Range(product') \ {NoLib}) \cup kept' \subseteq loaded
<1>1. /\ product \in [Use -> DOMAIN Library \cup {NoLib}]
      /\ (Range(product) \ {NoLib}) \cup kept \cup Range(m_importers) \cup Range(m_exporters) \subseteq loaded
      /\ loaded \subseteq DOMAIN Library
  BY Zenon DEF PInv, TypeOK, CodeLoaded
<1>2. CASE UNCHANGED <<product, kept>>
  BY <1>1, <1>2, Zenon
<1>3. CASE Finish(u)
  <2>1. product' = [product EXCEPT ![u] = NoLib] /\ kept' = kept
    BY <1>3, Zenon DEF Finish
  <2> QED BY <1>1, <2>1, Zenon DEF Range
<1>4. ASSUME NEW plugins, NEW name \in DOMAIN plugins, GetPlugin(u, plugins, name),
             Range(plugins) \subseteq loaded
      PROVE  /\ product' \in [Use -> DOMAIN Library \cup {NoLib}]
             /\ (Range(product') \ {NoLib}) \cup kept' \subseteq loaded
  <2>1. plugins[name] \in loaded
    BY <1>4, Zenon DEF Range
  <2>2. CASE kept' = kept \cup {plugins[name]} /\ product' = product
    BY <1>1, <2>1, <2>2, Zenon
  <2>3. CASE product' = [product EXCEPT ![u] = plugins[name]] /\ kept' = kept
    BY <1>1, <2>1, <2>3, ZenonT(60) DEF Range
  <2> QED BY <1>4, <2>2, <2>3, Zenon DEF GetPlugin
<1>5. CASE \/ \E name \in DOMAIN m_importers : GetPlugin(u, m_importers, name)
           \/ \E name \in DOMAIN m_exporters : GetPlugin(u, m_exporters, name)
  <2>1. Range(m_importers) \subseteq loaded /\ Range(m_exporters) \subseteq loaded
    BY <1>1, Zenon
  <2> QED BY <1>4, <1>5, <2>1, Zenon
<1>6. CASE AttachTo(u) \/ OpenDirectory(u) \/ LoadFile(u) \/ ManagerThrows(u) \/ DeleteInstance(u)
  BY <1>2, <1>6, Zenon DEF AttachTo, OpenDirectory, LoadFile, ManagerThrows, DeleteInstance, OtherP
<1>7. CASE ManagerCreated(u) \/ OtherCreate(u)
  BY <1>2, <1>7, Zenon DEF ManagerCreated, OtherCreate, pVars
<1>8. ASSUME UNCHANGED pVars
      PROVE  UNCHANGED <<product, kept>>
  BY <1>8, Zenon DEF pVars
<1> QED BY <1>2, <1>3, <1>5, <1>6, <1>7, <1>8, ZenonT(60) DEF Client

\* While the manager exists, the definition plugins are those of the list, and the
\* containers of the list are registered.
LEMMA InstanceComplete ==
    ASSUME PInv, Manager \in singletons
    PROVE  /\ Range(m_definition_plugins) = {l \in Valid : Library[l].defines}
           /\ UNION {Library[l].containers : l \in Valid} \subseteq DOMAIN s_available_containers
           /\ Complete(m_importers, Importers) /\ Complete(m_exporters, Exporters)
<1>1. todo = {} /\ TablesInv(Listed)
  BY Zenon DEF PInv, InstanceTablesInv
<1>2. \A l : l \in Valid <=> \E e \in DOMAIN Listed : l \in ValidIn(Listed[e])
  BY Zenon DEF Valid
<1>3. Range(m_definition_plugins) = {l \in Valid : Library[l].defines}
  <2>1. Defines(m_definition_plugins, Listed, {})
    BY <1>1, Zenon DEF TablesInv
  <2> QED BY <1>2, <2>1, Zenon DEF Defines
<1>4. ASSUME NEW plugins, NEW offered, Covers(plugins, offered, Listed, {})
      PROVE  \A l \in Valid : offered[l] \subseteq DOMAIN plugins
  BY <1>2, <1>4, Zenon DEF Covers
<1>5. UNION {Library[l].containers : l \in Valid} \subseteq DOMAIN s_available_containers
  <2>1. \A l \in Valid : Containers[l] \subseteq DOMAIN s_available_containers
    BY <1>1, <1>4, Zenon DEF TablesInv
  <2>2. \A l \in Valid : l \in DOMAIN Library
    BY <1>2, PluginAssumption DEF ValidIn
  <2> QED BY <2>1, <2>2, Zenon DEF Containers
<1>6. ASSUME NEW plugins, NEW offered, Covers(plugins, offered, Listed, {}),
             FromFirst(plugins, offered, Listed)
      PROVE  Complete(plugins, offered)
  <2>1. \A l \in Valid : offered[l] \subseteq DOMAIN plugins
    BY <1>4, <1>6, Zenon
  <2>2. \A n \in DOMAIN plugins : \E l \in Valid : n \in offered[l]
    BY <1>2, <1>6, Zenon DEF FromFirst
  <2>3. DOMAIN plugins = UNION {offered[l] : l \in Valid}
    BY <2>1, <2>2, Zenon
  <2> QED BY <1>6, <2>3, Zenon DEF Complete, FromFirst
<1>7. Complete(m_importers, Importers) /\ Complete(m_exporters, Exporters)
  BY <1>1, <1>6, Zenon DEF TablesInv
<1> QED BY <1>3, <1>5, <1>7, ZenonT(60)

\* A Registry gets the definition plugins from a manager that exists.
LEMMA ClientRegistries ==
    ASSUME SInv, PInv, env' = env, NEW u \in Use, Client(u)
    PROVE  RegistryComplete'
<1>1. Valid' = Valid /\ DOMAIN s_available_containers \subseteq DOMAIN s_available_containers'
  BY SameList, ClientTablesStep, Zenon DEF TablesStep
<1>2. RegistryComplete
  BY Zenon DEF PInv
<1>3. CASE registries' = registries
  BY <1>1, <1>2, <1>3, Zenon DEF RegistryComplete
<1>4. CASE Finish(u) /\ Ty[u] = Manager
  <2>1. Manager \in singletons
    BY <1>4, Zenon DEF Finish, Done, Goto, SInv, EntryInv, Attached
  <2>2. registries' \subseteq registries \cup {m_definition_plugins}
    BY <1>4, Zenon DEF Finish
  <2>3. /\ Range(m_definition_plugins) = {l \in Valid : Library[l].defines}
        /\ UNION {Library[l].containers : l \in Valid} \subseteq DOMAIN s_available_containers
    BY <2>1, InstanceComplete, Zenon
  <2> QED BY <1>1, <1>2, <2>2, <2>3, ZenonT(60) DEF RegistryComplete
<1>5. CASE Finish(u) /\ Ty[u] # Manager
  BY <1>3, <1>5, Zenon DEF Finish
<1>6. CASE AttachTo(u) \/ OpenDirectory(u) \/ LoadFile(u) \/ ManagerThrows(u) \/ DeleteInstance(u)
  BY <1>3, <1>6, Zenon DEF AttachTo, OpenDirectory, LoadFile, ManagerThrows, DeleteInstance, OtherP
<1>7. CASE ManagerCreated(u) \/ OtherCreate(u)
  BY <1>3, <1>7, Zenon DEF ManagerCreated, OtherCreate, pVars
<1>8. ASSUME NEW plugins, NEW name, GetPlugin(u, plugins, name)
      PROVE  registries' = registries
  BY <1>8, Zenon DEF GetPlugin
<1>9. ASSUME UNCHANGED pVars
      PROVE  registries' = registries
  BY <1>9, Zenon DEF pVars
<1> QED BY <1>3, <1>4, <1>5, <1>6, <1>7, <1>8, <1>9, ZenonT(60) DEF Client

\* The program starts without a manager and without plugins.
LEMMA InitPInv == Init => PInv
<1> SUFFICES ASSUME Init PROVE PInv
  BY Zenon
<1>1. SInit /\ STypeOK
  BY SInitInv, Zenon DEF Init, SInv
<1>2. Range(Empty) = {} /\ Range(<<>>) = {} /\ <<>> \in Seq(DOMAIN Library)
  BY EmptySeq DEF Empty, Range
<1>3. Range([u \in Use |-> NoLib]) \ {NoLib} = {}
  BY Zenon DEF Range
<1>4. TypeOK /\ CodeLoaded
  BY <1>1, <1>2, <1>3, Zenon DEF Init, TypeOK, CodeLoaded
<1>5. RegistryComplete /\ NoInstanceInv
  BY Zenon DEF Init, RegistryComplete, NoInstanceInv
<1>6. ConstructorInv /\ InstanceTablesInv
  BY <1>1, Zenon DEF SInit, ConstructorInv, Constructs, InstanceTablesInv
<1> QED BY <1>4, <1>5, <1>6, ZenonT(60) DEF PInv

\* Every step keeps the invariant.
LEMMA NextPInv ==
    ASSUME SInv, SInv', PInv, [Next]_vars
    PROVE  PInv'
<1>1. ASSUME NEW u \in Use, Client(u), env' = env
      PROVE  PInv'
  <2>1. ConstructorInv' /\ InstanceTablesInv' /\ NoInstanceInv'
    BY <1>1, ClientTables, Zenon
  <2>2. RegistryComplete'
    BY <1>1, ClientRegistries, Zenon
  <2>3. TablesStep /\ todo' \subseteq DOMAIN Library
    BY <1>1, ClientTablesStep, ClientTodo, ZenonT(60)
  <2>4. /\ product' \in [Use -> DOMAIN Library \cup {NoLib}]
        /\ (Range(product') \ {NoLib}) \cup kept' \subseteq loaded
    BY <1>1, ClientProducts, Zenon
  <2>5. CodeLoaded'
    BY <2>3, <2>4, Zenon DEF CodeLoaded, TablesStep, InTables
  <2>6. TypeOK'
    BY <1>1, <2>3, <2>4, ZenonT(60) DEF SInv, PInv, TypeOK, TablesStep, InTables
  <2> QED BY <2>1, <2>2, <2>5, <2>6, ZenonT(60) DEF PInv
<1>2. ASSUME UNCHANGED <<sVars, env, path, todo, Tables, product, registries>>, kept' \subseteq kept
      PROVE  PInv'
  <2>1. UNCHANGED <<phase, singletons>> /\ UNCHANGED <<env, path, todo, Tables>>
    BY <1>2, Zenon DEF sVars
  <2>2. ConstructorInv' /\ InstanceTablesInv' /\ NoInstanceInv'
    BY <2>1, QuietStep, Zenon DEF Constructs, NoInstance
  <2>3. TypeOK' /\ CodeLoaded'
    BY <1>2, Zenon DEF SInv, PInv, TypeOK, CodeLoaded, Tables
  <2>4. Valid' = Valid
    BY <2>1, SameList, Zenon
  <2>5. RegistryComplete'
    BY <1>2, <2>4, Zenon DEF PInv, RegistryComplete, Tables
  <2> QED BY <2>2, <2>3, <2>5, Zenon DEF PInv
<1>3. ASSUME NEW l, DeleteKept(l), env' = env
      PROVE  PInv'
  BY <1>2, <1>3, Zenon DEF DeleteKept
<1>4. CASE UNCHANGED vars
  BY <1>2, <1>4, Zenon DEF vars, pVars, Tables
<1> QED BY <1>1, <1>3, <1>4, ZenonT(60) DEF Next

\* What the tables, the libraries and the registries hold in every reachable state: the
\* inductive invariant of the plugin manager.
THEOREM ManagerSafe == Spec => []PInv
<1>1. SInv /\ PInv /\ SInv' /\ [Next]_vars => PInv'
  BY NextPInv, Zenon
<1>2. Spec => []SInv
  BY ManagerIsSingleton, SingletonSafe, PTL
<1> QED BY <1>1, <1>2, InitPInv, PTL DEF Spec

\* For any list of directories, any libraries in them and any number of clients: whoever
\* is attached to the plugin manager finds every plugin of the list, the first listed one
\* for each name, none of the code in use is unmapped, and each Registry got every type.
THEOREM PluginsAlwaysUsable == Spec => []PluginsUsable
<1>1. SInv /\ PInv => PluginsUsable
  <2> SUFFICES ASSUME SInv, PInv PROVE PluginsUsable
    BY Zenon
  <2>1. (\E u \in Use : Ty[u] = Manager /\ phase[u] \in Attached) => Manager \in singletons
    BY Zenon DEF SInv, EntryInv
  <2>2. PluginsComplete
    BY <2>1, InstanceComplete, ZenonT(60) DEF PluginsComplete
  <2> QED BY <2>2, Zenon DEF PInv, PluginsUsable
<1>2. Spec => []SInv
  BY ManagerIsSingleton, SingletonSafe, PTL
<1> QED BY <1>1, <1>2, ManagerSafe, PTL

\* Nothing that dlopen() mapped is unmapped and no container factory is unregistered by
\* any step, the destructor of the manager and a constructor that throws included.
CodeStays ==
    loaded \subseteq loaded' /\ DOMAIN s_available_containers \subseteq DOMAIN s_available_containers'
THEOREM CodeNeverUnmapped == Spec => [][CodeStays]_vars
<1>1. PInv /\ [Next]_vars => [CodeStays]_vars
  <2> SUFFICES ASSUME PInv, Next PROVE CodeStays
    BY Zenon DEF vars
  <2>1. ASSUME NEW l, DeleteKept(l)
        PROVE  CodeStays
    BY <2>1, Zenon DEF DeleteKept, Tables, CodeStays
  <2> QED BY <2>1, ClientTablesStep, Zenon DEF Next, TablesStep, CodeStays
<1> QED BY <1>1, ManagerSafe, PTL DEF Spec

=============================================================================
