---------------------------- MODULE PluginProofs ----------------------------
(***************************************************************************)
(* What the theorems about the plugin manager rest on.  First the          *)
(* singletons, for any number of clients and of singleton types.  Then     *)
(* what the constructor of the plugin manager does to its list of          *)
(* directories and to its tables: each turn of the loop consumes exactly   *)
(* one entry of the list, and each library that is loaded adds its plugins *)
(* without hiding one that was listed before.                              *)
(***************************************************************************)
EXTENDS PluginManager, FiniteSetTheorems, SequenceTheorems, TLAPS

-----------------------------------------------------------------------------
(* Singletons *)

\* The mutex is held exactly by the one that is in a critical section.
MutexInv == \A u \in Use : phase[u] \in Locked <=> sing_mtx = u

\* The table: an entry has a client, or is about to get one; a client has an entry;
\* what is being created or deleted has none.  The server exists when it is needed.
EntryInv ==
    /\ \A u \in Use : phase[u] \in Attached \cup {"count"} => Ty[u] \in singletons
    /\ \A s \in singletons : \E u \in Use : Ty[u] = s /\ phase[u] \in Attached \cup {"count"}
    /\ \A u \in Use : phase[u] \in {"create", "delete"} => Ty[u] \notin singletons
    /\ singletons # {} \/ sing_mtx # NoUse => the_instance

\* The count of an entry is the number of its clients.
RefInv == \A s \in singletons : ref_counter[s] = Cardinality(Counted(s))

\* An instance exists for each entry, and until the deletion of the one that was erased.
Erased(s) == \E u \in Use : Ty[u] = s /\ phase[u] = "delete"
InstanceInv == \A s \in Single : instances[s] = IF s \in singletons \/ Erased(s) THEN 1 ELSE 0

\* The inductive invariant.
SInv == STypeOK /\ MutexInv /\ EntryInv /\ RefInv /\ InstanceInv

\* The clients of a singleton are finitely many.
LEMMA CountedFinite ==
    \A s : IsFiniteSet(Counted(s)) /\ Cardinality(Counted(s)) \in Nat
<1>1. \A s : Counted(s) \in SUBSET Use
  BY Zenon DEF Counted
<1>2. \A s : IsFiniteSet(Counted(s))
  BY <1>1, UseAssumption, FS_Subset, Zenon
<1> QED BY <1>2, FS_CardinalityType, Zenon

\* Two distinct members make a set of two elements at least.
LEMMA TwoMembers ==
    ASSUME NEW S, IsFiniteSet(S), NEW a \in S, NEW b \in S, a # b
    PROVE  Cardinality(S) >= 2
<1>1. /\ IsFiniteSet(S \ {a}) /\ Cardinality(S \ {a}) = Cardinality(S) - 1
  BY FS_RemoveElement, Zenon
<1>2. Cardinality(S \ {a}) # 0
  BY <1>1, FS_EmptySet
<1>3. Cardinality(S) \in Nat /\ Cardinality(S \ {a}) \in Nat
  BY <1>1, FS_CardinalityType, Zenon
<1> QED BY <1>1, <1>2, <1>3

\* The program starts without singletons.
LEMMA SInitInv == SInit => SInv
<1> SUFFICES ASSUME SInit PROVE SInv
  BY Zenon
<1>1. STypeOK
  BY Zenon DEF SInit, STypeOK, Phases
<1>2. MutexInv
  BY UseAssumption, Zenon DEF SInit, MutexInv, Locked
<1>3. EntryInv
  BY Zenon DEF SInit, EntryInv, Attached
<1>4. RefInv /\ InstanceInv
  BY Zenon DEF SInit, RefInv, InstanceInv, Erased
<1> QED BY <1>1, <1>2, <1>3, <1>4, Zenon DEF SInv

\* Steps by which a client neither starts nor stops to count: the table, the counts
\* and the mutex are left alone.
Idle(u) == Construct(u) \/ Access(u) \/ Get(u) \/ Done(u) \/ Destroy(u)

LEMMA IdleInv ==
    ASSUME SInv, NEW u \in Use, Idle(u)
    PROVE  SInv'
<1> USE DEF Idle, Construct, Access, Get, Done, Destroy, Goto
<1>1. STypeOK'
  BY Zenon DEF SInv, STypeOK, Phases
<1>2. MutexInv'
  BY Zenon DEF SInv, STypeOK, MutexInv, Locked
<1>3. \A s : Counted(s)' = Counted(s)
  BY Zenon DEF SInv, STypeOK, Counted, Attached
<1>4. EntryInv'
  BY DEF SInv, STypeOK, EntryInv, Attached
<1>5. RefInv'
  BY <1>3, Zenon DEF SInv, RefInv
<1>6. InstanceInv'
  BY ZenonT(60) DEF SInv, STypeOK, InstanceInv, Erased
<1> QED BY <1>1, <1>2, <1>4, <1>5, <1>6, Zenon DEF SInv

\* attach() takes the free mutex.
LEMMA AttachInv ==
    ASSUME SInv, NEW u \in Use, Attach(u)
    PROVE  SInv'
<1> USE DEF Attach, Goto
<1>1. STypeOK'
  BY Zenon DEF SInv, STypeOK, Phases
<1>2. MutexInv'
  BY UseAssumption, Zenon DEF SInv, STypeOK, MutexInv, Locked
<1>3. \A s : Counted(s)' = Counted(s)
  BY Zenon DEF SInv, STypeOK, Counted, Attached
<1>4. EntryInv'
  BY Zenon DEF SInv, STypeOK, EntryInv, Attached
<1>5. RefInv'
  BY <1>3, Zenon DEF SInv, RefInv
<1>6. InstanceInv'
  BY Zenon DEF SInv, STypeOK, InstanceInv, Erased
<1> QED BY <1>1, <1>2, <1>4, <1>5, <1>6, Zenon DEF SInv

\* The only use<> object with the mutex is the one in its critical section.
LEMMA Alone ==
    ASSUME SInv, NEW u \in Use, phase[u] \in Locked
    PROVE  \A v \in Use : phase[v] \in Locked => v = u
BY Zenon DEF SInv, MutexInv

\* The new instance enters the table, with no client yet.
LEMMA CreateInv ==
    ASSUME SInv, NEW u \in Use, Create(u)
    PROVE  SInv'
<1> USE DEF Create, Goto
<1>a. Ty[u] \in Single /\ phase[u] \in Locked /\ Ty[u] \notin singletons
  BY TyAssumption, Zenon DEF SInv, EntryInv, Locked
<1>b. \A v \in Use : phase[v] \in Locked => v = u
  BY <1>a, Alone, Zenon
<1>1. STypeOK'
  BY <1>a DEF SInv, STypeOK, Phases
<1>2. MutexInv'
  BY Zenon DEF SInv, STypeOK, MutexInv, Locked
<1>3. \A s : Counted(s)' = Counted(s)
  BY Zenon DEF SInv, STypeOK, Counted, Attached
<1>4. EntryInv'
  <2>1. the_instance
    BY <1>a, UseAssumption, Zenon DEF SInv, EntryInv, MutexInv
  <2> QED BY <1>b, <2>1 DEF SInv, STypeOK, EntryInv, Attached, Locked
<1>5. RefInv'
  <2>1. Counted(Ty[u]) = {}
    BY <1>a, Zenon DEF SInv, EntryInv, Counted
  <2> QED BY <1>a, <1>3, <2>1, FS_EmptySet, Zenon DEF SInv, STypeOK, RefInv
<1>6. InstanceInv'
  <2>1. ~Erased(Ty[u])
    BY <1>b, Zenon DEF Erased, Locked
  <2>2. \A s : Erased(s)' <=> Erased(s)
    BY Zenon DEF SInv, STypeOK, Erased
  <2> QED BY <1>a, <2>1, <2>2 DEF SInv, STypeOK, InstanceInv
<1> QED BY <1>1, <1>2, <1>4, <1>5, <1>6, Zenon DEF SInv

\* A constructor that throws leaves the table as it was.
LEMMA CreateThrowsInv ==
    ASSUME SInv, NEW u \in Use, CreateThrows(u)
    PROVE  SInv'
<1> USE DEF CreateThrows, Goto
<1>a. \A v \in Use : phase[v] \in Locked => v = u
  BY Alone, Zenon DEF Locked
<1>1. STypeOK'
  BY Zenon DEF SInv, STypeOK, Phases
<1>2. MutexInv'
  BY <1>a, UseAssumption, Zenon DEF SInv, STypeOK, MutexInv, Locked
<1>3. \A s : Counted(s)' = Counted(s)
  BY Zenon DEF SInv, STypeOK, Counted, Attached
<1>4. EntryInv'
  BY ZenonT(60) DEF SInv, STypeOK, EntryInv, Attached
<1>5. RefInv'
  BY <1>3, Zenon DEF SInv, RefInv
<1>6. InstanceInv'
  BY Zenon DEF SInv, STypeOK, InstanceInv, Erased
<1> QED BY <1>1, <1>2, <1>4, <1>5, <1>6, Zenon DEF SInv

\* incr_ref() accounts for the new client.
LEMMA CountInv ==
    ASSUME SInv, NEW u \in Use, Count(u)
    PROVE  SInv'
<1> USE DEF Count, Goto
<1>a. Ty[u] \in singletons /\ Ty[u] \in Single
  BY TyAssumption, Zenon DEF SInv, EntryInv
<1>b. \A v \in Use : phase[v] \in Locked => v = u
  BY Alone, Zenon DEF Locked
<1>1. STypeOK'
  BY <1>a DEF SInv, STypeOK, Phases
<1>2. MutexInv'
  BY <1>b, UseAssumption, Zenon DEF SInv, STypeOK, MutexInv, Locked
<1>3. EntryInv'
  BY <1>a, ZenonT(60) DEF SInv, STypeOK, EntryInv, Attached
<1>4. RefInv'
  <2>1. \A s : s # Ty[u] => Counted(s)' = Counted(s)
    BY Zenon DEF SInv, STypeOK, Counted, Attached
  <2>2. Counted(Ty[u])' = Counted(Ty[u]) \cup {u} /\ u \notin Counted(Ty[u])
    BY Zenon DEF SInv, STypeOK, Counted, Attached
  <2>3. Cardinality(Counted(Ty[u])') = Cardinality(Counted(Ty[u])) + 1
    BY <2>2, CountedFinite, FS_AddElement, Zenon
  <2> QED BY <1>a, <2>1, <2>3, Zenon DEF SInv, STypeOK, RefInv
<1>5. InstanceInv'
  BY Zenon DEF SInv, STypeOK, InstanceInv, Erased
<1> QED BY <1>1, <1>2, <1>3, <1>4, <1>5, Zenon DEF SInv

\* A client that leaves others behind: one of them keeps the entry.
LEMMA ReleaseInv ==
    ASSUME SInv, NEW u \in Use, Release(u)
    PROVE  SInv'
<1> USE DEF Release, Goto, DecrRefIsLast
<1>a. Ty[u] \in singletons /\ Ty[u] \in Single /\ u \in Counted(Ty[u])
  BY TyAssumption, Zenon DEF SInv, EntryInv, Counted, Attached
<1>b. ref_counter[Ty[u]] = Cardinality(Counted(Ty[u])) /\ ref_counter[Ty[u]] >= 2
  BY <1>a DEF SInv, STypeOK, RefInv
<1>c. Counted(Ty[u])' = Counted(Ty[u]) \ {u} /\ \A s : s # Ty[u] => Counted(s)' = Counted(s)
  BY Zenon DEF SInv, STypeOK, Counted, Attached
<1>d. IsFiniteSet(Counted(Ty[u])') /\ Cardinality(Counted(Ty[u])') = Cardinality(Counted(Ty[u])) - 1
  BY <1>a, <1>c, CountedFinite, FS_RemoveElement
<1>1. STypeOK'
  BY <1>a, <1>b DEF SInv, STypeOK, Phases
<1>2. MutexInv'
  BY Zenon DEF SInv, STypeOK, MutexInv, Locked
<1>3. EntryInv'
  <2>1. Counted(Ty[u])' # {}
    BY <1>a, <1>b, <1>d, FS_EmptySet DEF SInv, STypeOK
  <2>2. \E v \in Use : Ty[v] = Ty[u] /\ phase'[v] \in Attached
    BY <2>1, Zenon DEF Counted
  <2>3. \A s \in singletons' : \E v \in Use : Ty[v] = s /\ phase'[v] \in Attached \cup {"count"}
    BY <2>2 DEF SInv, STypeOK, EntryInv
  <2> QED BY <2>3 DEF SInv, STypeOK, EntryInv, Attached
<1>4. RefInv'
  BY <1>a, <1>b, <1>c, <1>d, Zenon DEF SInv, STypeOK, RefInv
<1>5. InstanceInv'
  BY Zenon DEF SInv, STypeOK, InstanceInv, Erased
<1> QED BY <1>1, <1>2, <1>3, <1>4, <1>5, Zenon DEF SInv

\* The client whose count is at most one is the only one.
LEMMA LastClient ==
    ASSUME SInv, NEW u \in Use, phase[u] \in Attached, DecrRefIsLast(Ty[u])
    PROVE  Counted(Ty[u]) = {u}
<1>1. Ty[u] \in singletons /\ u \in Counted(Ty[u])
  BY Zenon DEF SInv, EntryInv, Counted
<1>2. Cardinality(Counted(Ty[u])) <= 1
  BY <1>1, Zenon DEF SInv, RefInv, DecrRefIsLast
<1>3. \A v \in Counted(Ty[u]) : v = u
  BY <1>1, <1>2, CountedFinite, TwoMembers
<1> QED BY <1>1, <1>3, Zenon

\* The last client erases the entry, and no client is left without one.
LEMMA EraseInv ==
    ASSUME SInv, NEW u \in Use, Erase(u)
    PROVE  SInv'
<1> USE DEF Erase, Goto
<1>a. Ty[u] \in singletons /\ Ty[u] \in Single
  BY TyAssumption, Zenon DEF SInv, EntryInv, Attached
<1>b. Counted(Ty[u]) = {u}
  BY LastClient, Zenon DEF Attached
<1>c. \A v \in Use : phase[v] \notin Locked
  BY UseAssumption, Zenon DEF SInv, MutexInv
<1>1. STypeOK'
  BY Zenon DEF SInv, STypeOK, Phases
<1>2. MutexInv'
  BY <1>c, UseAssumption, Zenon DEF SInv, STypeOK, MutexInv, Locked
<1>3. EntryInv'
  <2>1. \A v \in Use : v # u /\ phase[v] \in Attached \cup {"count"} => Ty[v] # Ty[u]
    BY <1>b, <1>c DEF Counted, Locked
  <2> QED BY <1>c, <2>1 DEF SInv, STypeOK, EntryInv, Attached, Locked
<1>4. RefInv'
  <2>1. \A s : s # Ty[u] => Counted(s)' = Counted(s)
    BY Zenon DEF SInv, STypeOK, Counted, Attached
  <2> QED BY <2>1, Zenon DEF SInv, RefInv
<1>5. InstanceInv'
  <2>1. Erased(Ty[u])' /\ \A s : s # Ty[u] => (Erased(s)' <=> Erased(s))
    BY Zenon DEF SInv, STypeOK, Erased
  <2> QED BY <1>a, <2>1, Zenon DEF SInv, InstanceInv
<1> QED BY <1>1, <1>2, <1>3, <1>4, <1>5, Zenon DEF SInv

\* The erased instance is deleted, and the server with its last entry.
LEMMA DeleteInv ==
    ASSUME SInv, NEW u \in Use, Delete(u)
    PROVE  SInv'
<1> USE DEF Delete, Goto
<1>a. Ty[u] \in Single /\ Ty[u] \notin singletons /\ Erased(Ty[u])
  BY TyAssumption, Zenon DEF SInv, EntryInv, Erased
<1>b. \A v \in Use : phase[v] \in Locked => v = u
  BY Alone, Zenon DEF Locked
<1>c. instances[Ty[u]] = 1
  BY <1>a, Zenon DEF SInv, InstanceInv
<1>1. STypeOK'
  BY <1>a, <1>c DEF SInv, STypeOK, Phases
<1>2. MutexInv'
  BY <1>b, UseAssumption, Zenon DEF SInv, STypeOK, MutexInv, Locked
<1>3. EntryInv'
  BY Zenon DEF SInv, STypeOK, EntryInv, Attached
<1>4. RefInv'
  <2>1. \A s : Counted(s)' = Counted(s)
    BY Zenon DEF SInv, STypeOK, Counted, Attached
  <2> QED BY <2>1, Zenon DEF SInv, RefInv
<1>5. InstanceInv'
  <2>1. ~Erased(Ty[u])' /\ \A s : s # Ty[u] => (Erased(s)' <=> Erased(s))
    BY <1>b, Zenon DEF SInv, STypeOK, Erased, Locked
  <2> QED BY <1>a, <1>c, <2>1 DEF SInv, STypeOK, InstanceInv
<1> QED BY <1>1, <1>2, <1>3, <1>4, <1>5, Zenon DEF SInv

\* Every step keeps the invariant.
LEMMA SNextInv == SInv /\ [SNext]_sVars => SInv'
<1> SUFFICES ASSUME SInv, [SNext]_sVars PROVE SInv'
  BY Zenon
<1>1. CASE UNCHANGED sVars
  <2>1. \A s : Counted(s)' = Counted(s)
    BY <1>1, Zenon DEF sVars, Counted
  <2>2. MutexInv' /\ EntryInv' /\ STypeOK'
    BY <1>1, Zenon DEF sVars, SInv, STypeOK, MutexInv, EntryInv
  <2>3. RefInv' /\ InstanceInv'
    BY <1>1, <2>1, Zenon DEF sVars, SInv, RefInv, InstanceInv, Erased
  <2> QED BY <2>2, <2>3, Zenon DEF SInv
<1>2. ASSUME NEW u \in Use, Idle(u)
      PROVE  SInv'
  BY <1>2, IdleInv, Zenon
<1>3. ASSUME NEW u \in Use, Attach(u) \/ Step(u) \/ Release(u) \/ Erase(u)
      PROVE  SInv'
  BY <1>3, AttachInv, CreateInv, CreateThrowsInv, CountInv, ReleaseInv, EraseInv, DeleteInv, Zenon DEF Step
<1> QED BY <1>1, <1>2, <1>3, Zenon DEF SNext, Idle

\* The inductive invariant of the singleton server, whatever the clients do.
THEOREM SingletonSafe == SSpec => []SInv
BY SInitInv, SNextInv, PTL DEF SSpec

\* attach() by any number of threads never leads to two instances of a singleton.
THEOREM OneInstance == SSpec => []AtMostOneInstance
<1>1. SInv => AtMostOneInstance
  BY DEF SInv, InstanceInv, AtMostOneInstance
<1> QED BY <1>1, SingletonSafe, PTL

\* get() and detach() always find the entry, and no instance is deleted under a client.
THEOREM InstanceForClients == SSpec => []ClientsFindInstance
<1>1. SInv => ClientsFindInstance
  BY TyAssumption, Zenon DEF SInv, EntryInv, InstanceInv, ClientsFindInstance
<1> QED BY <1>1, SingletonSafe, PTL

\* With the mutex free, an instance exists exactly while it has clients, and its
\* reference count is their number.
THEOREM NeededOnly == SSpec => []ExistsIffNeeded
<1>1. SInv => ExistsIffNeeded
  <2> SUFFICES ASSUME SInv, sing_mtx = NoUse, NEW s \in Single
               PROVE  /\ s \in singletons <=> Counted(s) # {}
                      /\ instances[s] = IF Counted(s) # {} THEN 1 ELSE 0
                      /\ s \in singletons => the_instance /\ ref_counter[s] = Cardinality(Counted(s))
    BY Zenon DEF ExistsIffNeeded
  <2>1. \A u \in Use : phase[u] \notin Locked
    BY UseAssumption, Zenon DEF SInv, MutexInv
  <2>2. s \in singletons <=> Counted(s) # {}
    BY <2>1 DEF SInv, EntryInv, Counted, Locked
  <2>3. ~Erased(s)
    BY <2>1, Zenon DEF Erased, Locked
  <2>4. s \in singletons => the_instance /\ ref_counter[s] = Cardinality(Counted(s))
    BY Zenon DEF SInv, EntryInv, RefInv
  <2> QED BY <2>2, <2>3, <2>4, Zenon DEF SInv, InstanceInv
<1> QED BY <1>1, SingletonSafe, PTL

\* Which singletons exist, in terms of the table.
LEMMA ExistingIs ==
    ASSUME SInv
    PROVE  PhoenixExisting = {s \in Single : s \in singletons \/ Erased(s)}
BY DEF SInv, InstanceInv, PhoenixExisting

\* A step of the server that no client of the abstract singletons can see.
LEMMA StutterStep ==
    ASSUME SInv, NEW u \in Use, Idle(u) \/ CreateThrows(u) \/ Count(u)
    PROVE  UNCHANGED <<PhoenixClients, PhoenixExisting>>
<1>1. phase[u] \in ClientPhases <=> phase'[u] \in ClientPhases
  BY Zenon DEF SInv, STypeOK, Idle, Construct, Access, Get, Done, Destroy, CreateThrows, Count, Goto,
         ClientPhases, Attached
<1>2. \A v \in Use \ {u} : phase'[v] = phase[v]
  BY Zenon DEF SInv, STypeOK, Idle, Construct, Access, Get, Done, Destroy, CreateThrows, Count, Goto
<1>3. PhoenixClients' = PhoenixClients
  BY <1>1, <1>2 DEF PhoenixClients
<1>4. instances' = instances
  BY Zenon DEF Idle, Construct, Access, Get, Done, Destroy, CreateThrows, Count
<1> QED BY <1>3, <1>4, Zenon DEF PhoenixExisting

\* The client that finds the entry, or makes it, attaches.
LEMMA AttachStep ==
    ASSUME SInv, NEW u \in Use, Attach(u) \/ Create(u)
    PROVE  P!Attach(u) \/ UNCHANGED <<PhoenixClients, PhoenixExisting>>
<1>1. Ty[u] \in Single
  BY TyAssumption, Zenon
<1>2. CASE Attach(u) /\ Ty[u] \notin singletons
  <2>1. PhoenixClients' = PhoenixClients
    BY <1>2, Zenon DEF SInv, STypeOK, Attach, Goto, PhoenixClients, ClientPhases, Attached
  <2> QED BY <1>2, <2>1, Zenon DEF Attach, PhoenixExisting
<1>3. CASE Attach(u) /\ Ty[u] \in singletons
  <2>1. u \notin PhoenixClients /\ PhoenixClients' = PhoenixClients \cup {u}
    BY <1>3, Zenon DEF SInv, STypeOK, Attach, Goto, PhoenixClients, ClientPhases, Attached
  <2>2. PhoenixExisting' = PhoenixExisting /\ Ty[u] \in PhoenixExisting
    BY <1>1, <1>3 DEF SInv, InstanceInv, Attach, PhoenixExisting
  <2> QED BY <2>1, <2>2, Zenon DEF P!Attach
<1>4. CASE Create(u)
  <2>1. u \notin PhoenixClients /\ PhoenixClients' = PhoenixClients \cup {u}
    BY <1>4, Zenon DEF SInv, STypeOK, Create, Goto, PhoenixClients, ClientPhases, Attached
  <2>2. PhoenixExisting' = PhoenixExisting \cup {Ty[u]}
    BY <1>1, <1>4 DEF SInv, STypeOK, Create, PhoenixExisting
  <2> QED BY <2>1, <2>2, Zenon DEF P!Attach
<1> QED BY <1>2, <1>3, <1>4, Zenon

\* The client that leaves others behind, or has deleted the instance, detaches.
LEMMA DetachStep ==
    ASSUME SInv, NEW u \in Use, Release(u) \/ Erase(u) \/ Delete(u)
    PROVE  P!Detach(u) \/ UNCHANGED <<PhoenixClients, PhoenixExisting>>
<1>0. Ty[u] \in Single
  BY TyAssumption, Zenon
\* Between two steps, what exists is what has a client.
<1>1. \A s \in Single : s \in PhoenixExisting <=> \E v \in PhoenixClients : Ty[v] = s
  BY ExistingIs DEF SInv, EntryInv, Erased, PhoenixClients, ClientPhases
<1>2. CASE Erase(u)
  <2>1. PhoenixClients' = PhoenixClients
    BY <1>2, Zenon DEF SInv, STypeOK, Erase, Goto, PhoenixClients, ClientPhases, Attached
  <2> QED BY <1>2, <2>1, Zenon DEF Erase, PhoenixExisting
<1>3. CASE Release(u) \/ Delete(u)
  <2>1. u \in PhoenixClients /\ PhoenixClients' = PhoenixClients \ {u}
    BY <1>3, Zenon DEF SInv, STypeOK, Release, Delete, Goto, PhoenixClients, ClientPhases, Attached
  <2>2. SInv'
    BY <1>3, ReleaseInv, DeleteInv, Zenon
  <2>3. \A s \in Single : s \in PhoenixExisting' <=> \E v \in PhoenixClients' : Ty[v] = s
    <3>1. \A s \in Single : s \in PhoenixExisting' <=> (s \in singletons' \/ Erased(s)')
      BY <2>2 DEF SInv, InstanceInv, PhoenixExisting
    <3> QED BY <2>2, <3>1 DEF SInv, EntryInv, Erased, PhoenixClients, ClientPhases
  <2>4. PhoenixExisting' \subseteq Single /\ PhoenixExisting \subseteq Single
    BY Zenon DEF PhoenixExisting
  <2>5. PhoenixExisting' = {s \in PhoenixExisting : \E v \in PhoenixClients \ {u} : Ty[v] = s}
    BY <1>1, <2>1, <2>3, <2>4, Zenon
  <2> QED BY <2>1, <2>5, Zenon DEF P!Detach
<1> QED BY <1>2, <1>3, Zenon

\* The server with its lock and its reference counts implements the phoenix
\* singletons that use.hh promises.
THEOREM ServerIsPhoenix == SSpec => PhoenixSpec
<1>1. SInit => P!Init
  BY Zenon DEF SInit, P!Init, PhoenixClients, PhoenixExisting, ClientPhases, Attached
<1>2. SInv /\ [SNext]_sVars => [P!Next]_<<PhoenixClients, PhoenixExisting>>
  <2> SUFFICES ASSUME SInv, [SNext]_sVars
               PROVE  P!Next \/ UNCHANGED <<PhoenixClients, PhoenixExisting>>
    BY Zenon
  <2>1. CASE UNCHANGED sVars
    BY <2>1, Zenon DEF sVars, PhoenixClients, PhoenixExisting
  <2>2. CASE SNext
    <3>1. PICK u \in Use : \/ Idle(u) \/ CreateThrows(u) \/ Count(u) \/ Attach(u) \/ Create(u)
                           \/ Release(u) \/ Erase(u) \/ Delete(u)
      BY <2>2, Zenon DEF SNext, Step, Idle
    <3> QED BY <3>1, StutterStep, AttachStep, DetachStep, Zenon DEF P!Next
  <2> QED BY <2>1, <2>2, Zenon
<1> QED BY <1>1, <1>2, SingletonSafe, PTL DEF SSpec, PhoenixSpec, P!Spec

-----------------------------------------------------------------------------
(* The list of directories and the tables *)

\* A nonempty set of natural numbers has a least element.
LEMMA LeastNat ==
    ASSUME NEW S \in SUBSET Nat, S # {}
    PROVE  \E m \in S : \A k \in S : m <= k
<1> DEFINE R == {p \in Nat \X Nat : p[1] < p[2]}
<1>1. IsWellFoundedOn(R, Nat)
  BY NatLessThanWellFounded, Zenon DEF OpToRel
<1> HIDE DEF R
<1>2. PICK m \in S : \A k \in S : <<k, m>> \notin R
  BY <1>1, WFMin, Zenon
<1>3. \A k \in S : <<k, m>> \in R <=> k < m
  BY Zenon DEF R
<1>4. \A k \in S : k \in Nat /\ ~(k < m)
  BY <1>2, <1>3, Zenon
<1>5. \A k \in S : m <= k
  BY <1>4
<1> QED BY <1>5, Zenon

\* find(): the first delimiter.
LEMMA FindIs ==
    ASSUME NEW s \in Seq(Char), Delims(s) # {}
    PROVE  /\ Find(s) \in 0..(Len(s) - 1) /\ s[Find(s) + 1] = ":"
           /\ \A k \in 1..Find(s) : s[k] # ":"
<1>1. Len(s) \in Nat /\ Delims(s) \in SUBSET Nat
  BY DEF Delims
<1>2. \E i \in Delims(s) : \A j \in Delims(s) : i <= j
  BY <1>1, LeastNat, Zenon
<1>3. Find(s) \in Delims(s) /\ \A j \in Delims(s) : Find(s) <= j
  BY <1>2, Zenon DEF Find
<1>4. Find(s) \in 0..(Len(s) - 1) /\ s[Find(s) + 1] = ":"
  BY <1>3, Zenon DEF Delims
<1>5. ASSUME NEW k \in 1..Find(s), s[k] = ":"
      PROVE  FALSE
  <2>1. k - 1 \in 0..(Len(s) - 1) /\ s[(k - 1) + 1] = ":"
    BY <1>1, <1>4, <1>5
  <2>2. k - 1 \in Delims(s)
    BY <2>1, Zenon DEF Delims
  <2> QED BY <1>3, <1>4, <2>2
<1> QED BY <1>4, <1>5, Zenon

\* find_last_of() is never the length of the string: the delimiter is always appended.
LEMMA ListIs ==
    ASSUME env \in Env, env # Unset
    PROVE  env \in Seq(Char) /\ PathToScan = Append(env, ":")
<1>1. env \in Seq(Char) /\ Len(env) \in Nat
  BY PluginAssumption
<1>2. CASE Delims(env) = {}
  BY <1>1, <1>2 DEF PathToScan, FindLastOf, NPos
<1>3. CASE Delims(env) # {}
  <2> DEFINE B == {k \in Nat : \A j \in Delims(env) : j <= k}
  <2>1. Len(env) \in B
    BY <1>1 DEF Delims
  <2>2. PICK m \in B : \A k \in B : m <= k
    BY <2>1, LeastNat, Zenon
  <2>3. m \in Delims(env)
    <3>1. SUFFICES ASSUME m \notin Delims(env) PROVE FALSE
      BY Zenon
    <3>2. \A j \in Delims(env) : j \in Nat /\ j <= m - 1
      BY <3>1 DEF Delims
    <3>3. m - 1 \in B
      BY <1>3, <3>2
    <3> QED BY <2>2, <3>3
  <2>4. FindLastOf(env) \in Delims(env)
    BY <1>3, <2>3, Zenon DEF FindLastOf
  <2> QED BY <1>1, <2>4 DEF PathToScan, Delims
<1> QED BY <1>2, <1>3, Zenon

-----------------------------------------------------------------------------
\* How much of the list the constructor has consumed, and the entries in it.
Consumed == Len(env) + 1 - Len(path)
Scanned == IF env = Unset THEN {<<1, 0>>} ELSE {e \in Entries : e[1] <= Consumed}

\* The copy of the list is what remains of it, from the start of an entry on.
PathInv ==
    IF env = Unset THEN path = <<>>
    ELSE /\ path \in Seq(Char) /\ Len(path) <= Len(env) + 1
         /\ \A k \in 1..Len(path) : path[k] = Append(env, ":")[Consumed + k]
         /\ Consumed = 0 \/ Append(env, ":")[Consumed] = ":"

\* The part of the list that the constructor has consumed.
Part == [e \in Scanned |-> Listed[e]]

\* Entry e is the last one of the list of directories L.
Last(e, L) == \A f \in DOMAIN L : f[1] <= e[1]

\* The names that the libraries of L offer are in the table, but for the libraries T
\* of the last entry, which are still to be loaded.
Covers(plugins, offered, L, T) ==
    \A e \in DOMAIN L : \A l \in ValidIn(L[e]) :
        offered[l] \subseteq DOMAIN plugins \/ (l \in T /\ Last(e, L))

\* Each name comes from the first entry of L that offers it.
FromFirst(plugins, offered, L) ==
    \A n \in DOMAIN plugins : \E e \in DOMAIN L :
        /\ plugins[n] \in ValidIn(L[e]) /\ n \in offered[plugins[n]]
        /\ FirstWith(n, offered, e, L)

\* The definition plugins are those of L, but for the libraries T of the last entry.
Defines(plugins, L, T) ==
    /\ \A l \in Range(plugins) : Library[l].defines /\ \E e \in DOMAIN L : l \in ValidIn(L[e])
    /\ \A e \in DOMAIN L : \A l \in ValidIn(L[e]) :
          Library[l].defines => l \in Range(plugins) \/ (l \in T /\ Last(e, L))

Containers == [l \in DOMAIN Library |-> Library[l].containers]

\* The tables hold the plugins of L, but for those that are still to be loaded.
TablesInv(L) ==
    /\ Covers(m_importers, Importers, L, todo) /\ FromFirst(m_importers, Importers, L)
    /\ Covers(m_exporters, Exporters, L, todo) /\ FromFirst(m_exporters, Exporters, L)
    /\ Covers(s_available_containers, Containers, L, todo)
    /\ Defines(m_definition_plugins, L, todo)

\* The files of the open directory are those of the last entry.
TodoInv ==
    todo # {} => \E e \in Scanned : /\ Listed[e] \in DOMAIN Libraries /\ todo \subseteq Libraries[Listed[e]]
                                    /\ Last(e, Part)

-----------------------------------------------------------------------------
\* The list with the delimiter that is appended to it.
LEMMA Delimited ==
    ASSUME env \in Env, env # Unset
    PROVE  /\ env \in Seq(Char) /\ Len(env) \in Nat
           /\ Append(env, ":") \in Seq(Char) /\ Len(Append(env, ":")) = Len(env) + 1
           /\ Append(env, ":")[Len(env) + 1] = ":"
           /\ \A k \in 1..Len(env) : Append(env, ":")[k] = env[k]
<1>1. env \in Seq(Char) /\ ":" \in Char
  BY PluginAssumption, Zenon
<1> QED BY <1>1, AppendProperties, LenProperties

\* substr() and erase(): the elements of a part of a sequence.
LEMMA Slice ==
    ASSUME NEW s \in Seq(Char), NEW i \in Nat, NEW j \in Nat, 1 <= i, i <= j + 1, j <= Len(s)
    PROVE  /\ SubSeq(s, i, j) \in Seq(Char) /\ Len(SubSeq(s, i, j)) = j + 1 - i
           /\ \A k \in 1..(j + 1 - i) : SubSeq(s, i, j)[k] = s[i - 1 + k]
<1>1. Len(s) \in Nat /\ \A k \in i..j : k \in 1..Len(s)
  BY LenProperties
<1>2. \A k \in i..j : s[k] \in Char
  BY <1>1, ElementOfSeq, Zenon
<1>3. /\ SubSeq(s, i, j) \in Seq(Char)
      /\ Len(SubSeq(s, i, j)) = IF i <= j THEN j - i + 1 ELSE 0
      /\ \A k \in 1..(j - i + 1) : SubSeq(s, i, j)[k] = s[i + k - 1]
  BY <1>2, SubSeqProperties
<1>4. j - i + 1 = j + 1 - i /\ \A k \in 1..(j + 1 - i) : i + k - 1 = i - 1 + k
  OBVIOUS
<1>5. Len(SubSeq(s, i, j)) = j + 1 - i
  BY <1>3
<1> QED BY <1>3, <1>4, <1>5, Zenon

\* erase(0, p + 1) leaves what follows position p + 1.
LEMMA EraseIs ==
    ASSUME NEW s \in Seq(Char), NEW p \in Nat, p < Len(s)
    PROVE  /\ SubSeq(s, p + 2, Len(s)) \in Seq(Char)
           /\ Len(SubSeq(s, p + 2, Len(s))) = Len(s) - p - 1
           /\ \A k \in 1..(Len(s) - p - 1) : SubSeq(s, p + 2, Len(s))[k] = s[p + 1 + k]
<1>1. Len(s) \in Nat
  BY LenProperties, Zenon
<1>2. p + 2 \in Nat /\ 1 <= p + 2 /\ p + 2 <= Len(s) + 1
  BY <1>1
<1>3. Len(s) + 1 - (p + 2) = Len(s) - p - 1 /\ p + 2 - 1 = p + 1
  BY <1>1
<1>4. /\ SubSeq(s, p + 2, Len(s)) \in Seq(Char)
      /\ Len(SubSeq(s, p + 2, Len(s))) = Len(s) + 1 - (p + 2)
      /\ \A k \in 1..(Len(s) + 1 - (p + 2)) : SubSeq(s, p + 2, Len(s))[k] = s[p + 2 - 1 + k]
  BY <1>1, <1>2, Slice
<1> QED BY <1>3, <1>4, Zenon

\* The text that follows a delimiter, up to the next one, is an entry of the list, and
\* the only one that starts there or in it.
LEMMA EntryAt ==
    ASSUME NEW n \in Nat, n = Len(env), NEW d \in Nat, NEW q \in Nat, d <= q, q <= n,
           d = 0 \/ env[d] = ":", q = n \/ env[q + 1] = ":",
           \A k \in (d + 1)..q : env[k] # ":"
    PROVE  /\ <<d + 1, q>> \in Entries
           /\ \A f \in Entries : f[1] \in Nat /\ (f[1] <= q + 1 <=> f[1] <= d \/ f = <<d + 1, q>>)
<1> DEFINE e == <<d + 1, q>>
<1>1. e \in Entries
  <2>1. e \in (1..(n + 1)) \X (0..n) /\ e[1] <= e[2] + 1
    OBVIOUS
  <2>2. e[1] = 1 \/ env[e[1] - 1] = ":"
    <3>1. e[1] - 1 = d
      OBVIOUS
    <3> QED BY <3>1
  <2> QED BY <2>1, <2>2, Zenon DEF Entries
<1>2. ASSUME NEW f \in Entries
      PROVE  f[1] \in Nat /\ (f[1] <= q + 1 <=> f[1] <= d \/ f = e)
  <2>1. PICK a \in 1..(n + 1), b \in 0..n : f = <<a, b>>
    BY DEF Entries
  <2>2. /\ a <= b + 1 /\ \A k \in a..b : env[k] # ":"
        /\ a = 1 \/ env[a - 1] = ":"
        /\ b = n \/ env[b + 1] = ":"
    BY <2>1, Zenon DEF Entries
  <2>3. ASSUME a <= q + 1, d < a
        PROVE  a = d + 1 /\ b = q
    <3>1. a = d + 1
      <4>1. SUFFICES ASSUME a # d + 1 PROVE FALSE
        BY Zenon
      <4>2. a - 1 \in (d + 1)..q
        BY <2>3, <4>1
      <4> QED BY <2>2, <4>2
    <3>2. ~(b < q)
      <4>1. SUFFICES ASSUME b < q PROVE FALSE
        BY Zenon
      <4>2. b + 1 \in (d + 1)..q /\ b # n
        BY <2>2, <3>1, <4>1
      <4> QED BY <2>2, <4>2, Zenon
    <3>3. ~(q < b)
      <4>1. SUFFICES ASSUME q < b PROVE FALSE
        BY Zenon
      <4>2. q + 1 \in a..b /\ q # n
        BY <3>1, <4>1
      <4> QED BY <2>2, <4>2, Zenon
    <3> QED BY <3>1, <3>2, <3>3, SMTT(30)
  <2>4. a <= q + 1 <=> a <= d \/ f = e
    <3>1. a <= d => a <= q + 1
      OBVIOUS
    <3>2. f = e => a <= q + 1
      BY <2>1
    <3> QED BY <2>1, <2>3, <3>1, <3>2
  <2> QED BY <2>1, <2>4
<1> QED BY <1>1, <1>2, Zenon

\* One turn of the loop erases exactly the next entry of the list, which is the
\* directory that it opens, and leaves the rest.
LEMMA NextEntry ==
    ASSUME env \in Env, env # Unset, PathInv, Delims(path) # {},
           env' = env, path' = SubSeq(path, Find(path) + 2, Len(path))
    PROVE  /\ PathInv'
           /\ \E e \in Entries : /\ Listed[e] = SubSeq(path, 1, Find(path))
                                 /\ \A f \in Scanned : f[1] < e[1]
                                 /\ Scanned' = Scanned \cup {e}
<1>1. PICK n \in Nat, full \in Seq(Char) :
          /\ n = Len(env) /\ full = Append(env, ":")
          /\ env \in Seq(Char) /\ full[n + 1] = ":"
          /\ \A k \in 1..n : full[k] = env[k]
  BY Delimited, Zenon
<1>2. path \in Seq(Char) /\ Len(path) \in Nat /\ Len(path) <= n + 1
  BY <1>1, LenProperties, Zenon DEF PathInv
<1>3. PICK d \in Nat : d = Consumed /\ d + Len(path) = n + 1
  <2>1. Consumed = n + 1 - Len(path)
    BY <1>1, Zenon DEF Consumed
  <2>2. n \in Nat
    BY <1>1, Zenon
  <2>3. n + 1 - Len(path) \in Nat /\ n + 1 - Len(path) + Len(path) = n + 1
    BY <1>2, <2>2
  <2> QED BY <2>1, <2>3, Zenon
<1>4. (\A k \in 1..Len(path) : path[k] = full[d + k]) /\ (d = 0 \/ full[d] = ":")
  BY <1>1, <1>3, Zenon DEF PathInv
<1>5. PICK p \in Nat : /\ p = Find(path) /\ p < Len(path) /\ path[p + 1] = ":"
                       /\ \A k \in 1..p : path[k] # ":"
  <2>1. /\ Find(path) \in 0..(Len(path) - 1) /\ path[Find(path) + 1] = ":"
        /\ \A k \in 1..Find(path) : path[k] # ":"
    BY <1>2, FindIs, Zenon
  <2>2. Find(path) \in Nat /\ Find(path) < Len(path)
    BY <1>2, <2>1
  <2> QED BY <2>1, <2>2, Zenon
<1>a. PICK m \in Nat : /\ m = Len(path) /\ m <= n + 1 /\ d + m = n + 1 /\ p < m
                       /\ n \in Nat /\ d \in Nat /\ p \in Nat
  BY <1>1, <1>2, <1>3, <1>5, ZenonT(60)
<1>6. PICK q \in Nat : q = d + p /\ d <= q /\ q <= n
  BY <1>a
<1>7. full[q + 1] = ":" /\ (q = n \/ env[q + 1] = ":")
  <2>1. p + 1 \in 1..Len(path) /\ d + (p + 1) = q + 1
    BY <1>a, <1>6
  <2>2. full[q + 1] = ":"
    BY <1>4, <1>5, <2>1, Zenon
  <2>3. q # n => q + 1 \in 1..n
    BY <1>a, <1>6
  <2> QED BY <1>1, <2>2, <2>3, Zenon
<1>8. \A k \in 1..p : env[d + k] = path[k]
  <2> SUFFICES ASSUME NEW k \in 1..p PROVE env[d + k] = path[k]
    BY Zenon
  <2>1. k \in 1..Len(path) /\ d + k \in 1..n
    BY <1>a, <1>6
  <2> QED BY <1>1, <1>4, <2>1, Zenon
<1>9. \A k \in (d + 1)..q : env[k] # ":"
  <2> SUFFICES ASSUME NEW k \in (d + 1)..q PROVE env[k] # ":"
    BY Zenon
  <2>1. k - d \in 1..p /\ d + (k - d) = k
    BY <1>a, <1>6
  <2> QED BY <1>5, <1>8, <2>1, Zenon
<1>10. d = 0 \/ env[d] = ":"
  <2>1. d # 0 => d \in 1..n
    BY <1>a, <1>6
  <2> QED BY <1>1, <1>4, <2>1, Zenon
<1> DEFINE e == <<d + 1, q>>
<1>11. /\ e \in Entries
       /\ \A f \in Entries : f[1] \in Nat /\ (f[1] <= q + 1 <=> f[1] <= d \/ f = e)
  <2>1. n = Len(env) /\ n \in Nat /\ d \in Nat /\ q \in Nat /\ d <= q /\ q <= n
    BY <1>1, <1>a, <1>6, Zenon
  <2>2. q = n \/ env[q + 1] = ":"
    BY <1>7, Zenon
  <2> QED BY <1>9, <1>10, <2>1, <2>2, EntryAt, Zenon
<1>12. /\ path' \in Seq(Char) /\ Len(path') = Len(path) - p - 1
       /\ \A k \in 1..(Len(path) - p - 1) : path'[k] = path[p + 1 + k]
  BY <1>2, <1>5, EraseIs, ZenonT(60)
<1>13. Consumed' = q + 1
  <2>1. Consumed' = n + 1 - Len(path')
    BY <1>1, Zenon DEF Consumed
  <2>2. Len(path') = m - p - 1
    BY <1>a, <1>12, Zenon
  <2>3. n + 1 - (m - p - 1) = q + 1
    BY <1>a, <1>6
  <2> QED BY <2>1, <2>2, <2>3, Zenon
<1>14. PathInv'
  <2>1. \A k \in 1..Len(path') : path'[k] = full[Consumed' + k]
    <3> SUFFICES ASSUME NEW k \in 1..(Len(path) - p - 1)
                 PROVE  path'[k] = full[q + 1 + k]
      BY <1>12, <1>13, Zenon
    <3>1. p + 1 + k \in 1..Len(path) /\ d + (p + 1 + k) = q + 1 + k
      BY <1>a, <1>6, SMTT(30)
    <3> QED BY <1>4, <1>12, <3>1, Zenon
  <2>2. Len(path') <= n + 1
    BY <1>1, <1>2, <1>5, <1>12, SMTT(30)
  <2> QED BY <1>1, <1>7, <1>12, <1>13, <2>1, <2>2, ZenonT(60) DEF PathInv
<1>15. Listed[e] = SubSeq(path, 1, p)
  <2>1. Listed[e] = SubSeq(env, d + 1, q)
    BY <1>11, Zenon DEF Listed
  <2>2. /\ d + 1 \in Nat /\ 1 <= d + 1 /\ d + 1 <= q + 1 /\ q <= Len(env) /\ q + 1 - (d + 1) = p
        /\ d + 1 - 1 = d
    BY <1>a, <1>6, <1>1, SMTT(30)
  <2>a. /\ SubSeq(env, d + 1, q) \in Seq(Char) /\ Len(SubSeq(env, d + 1, q)) = q + 1 - (d + 1)
        /\ \A k \in 1..(q + 1 - (d + 1)) : SubSeq(env, d + 1, q)[k] = env[d + 1 - 1 + k]
    BY <1>1, <1>6, <2>2, Slice
  <2>3. /\ SubSeq(env, d + 1, q) \in Seq(Char) /\ Len(SubSeq(env, d + 1, q)) = p
        /\ \A k \in 1..p : SubSeq(env, d + 1, q)[k] = env[d + k]
    BY <2>2, <2>a, Zenon
  <2>4. 1 \in Nat /\ 1 <= p + 1 /\ p <= Len(path) /\ p + 1 - 1 = p /\ \A k \in 1..p : 1 - 1 + k = k
    BY <1>2, <1>5
  <2>b. /\ SubSeq(path, 1, p) \in Seq(Char) /\ Len(SubSeq(path, 1, p)) = p + 1 - 1
        /\ \A k \in 1..(p + 1 - 1) : SubSeq(path, 1, p)[k] = path[1 - 1 + k]
    BY <1>2, <1>5, <2>4, Slice, SMTT(30)
  <2>5. /\ SubSeq(path, 1, p) \in Seq(Char) /\ Len(SubSeq(path, 1, p)) = p
        /\ \A k \in 1..p : SubSeq(path, 1, p)[k] = path[k]
    BY <2>4, <2>b, Zenon
  <2> QED BY <1>8, <2>1, <2>3, <2>5, SeqEqual, SMTT(30)
<1>16. Scanned = {f \in Entries : f[1] <= d} /\ Scanned' = {f \in Entries : f[1] <= q + 1}
  BY <1>3, <1>13, Zenon DEF Scanned, Entries
<1>17. \A f \in Scanned : f[1] < e[1]
  BY <1>3, <1>11, <1>16
<1> QED BY <1>5, <1>11, <1>14, <1>15, <1>16, <1>17, ZenonT(60)

\* The loop ends when there is no entry left.
LEMMA LastEntry ==
    ASSUME env \in Env, env # Unset, PathInv, Delims(path) = {}
    PROVE  Scanned = Entries
<1>1. /\ Len(env) \in Nat /\ Append(env, ":")[Len(env) + 1] = ":"
  BY Delimited, Zenon
<1>2. /\ path \in Seq(Char) /\ Len(path) \in Nat
      /\ \A k \in 1..Len(path) : path[k] = Append(env, ":")[Consumed + k]
  BY LenProperties, Zenon DEF PathInv
<1>3. Len(path) = 0
  <2>1. SUFFICES ASSUME Len(path) # 0 PROVE FALSE
    BY Zenon
  <2>2. Consumed + Len(path) = Len(env) + 1
    BY <1>1, <1>2 DEF Consumed
  <2>3. path[Len(path)] = ":" /\ Len(path) - 1 \in 0..(Len(path) - 1) /\ (Len(path) - 1) + 1 = Len(path)
    BY <1>1, <1>2, <2>1, <2>2, SMTT(30)
  <2>4. Len(path) - 1 \in Delims(path)
    BY <2>3, Zenon DEF Delims
  <2> QED BY <2>4, Zenon
<1>4. Consumed = Len(env) + 1
  BY <1>1, <1>3 DEF Consumed
<1>5. \A e \in Entries : e[1] <= Len(env) + 1
  BY <1>1 DEF Entries
<1> QED BY <1>4, <1>5, Zenon DEF Scanned

-----------------------------------------------------------------------------
\* insert() adds the names that are not there yet, and changes no other.
LEMMA AddPlugin ==
    ASSUME NEW plugins, NEW names, NEW lib
    PROVE  /\ DOMAIN add_plugin(plugins, names, lib) = DOMAIN plugins \cup names
           /\ Range(add_plugin(plugins, names, lib)) \subseteq Range(plugins) \cup {lib}
BY Zenon DEF add_plugin, Range

\* A registered factory replaces the one with the same name.
LEMMA AddContainers ==
    ASSUME NEW table, NEW names, NEW lib
    PROVE  /\ DOMAIN registerContainers(table, names, lib) = DOMAIN table \cup names
           /\ Range(registerContainers(table, names, lib)) \subseteq Range(table) \cup {lib}
BY Zenon DEF registerContainers, Range

\* push_back() adds one element.
LEMMA AppendRange ==
    ASSUME NEW S, NEW s \in Seq(S), NEW x \in S
    PROVE  Append(s, x) \in Seq(S) /\ Range(Append(s, x)) = Range(s) \cup {x}
<1>1. /\ Append(s, x) \in Seq(S) /\ Len(Append(s, x)) = Len(s) + 1 /\ Len(s) \in Nat
      /\ \A i \in 1..Len(s) : Append(s, x)[i] = s[i]
      /\ Append(s, x)[Len(s) + 1] = x
  BY AppendProperties, LenProperties
<1>2. DOMAIN s = 1..Len(s) /\ DOMAIN Append(s, x) = 1..(Len(s) + 1)
  BY <1>1, LenProperties, Zenon
<1>3. 1..(Len(s) + 1) = (1..Len(s)) \cup {Len(s) + 1}
  BY <1>1
<1> QED BY <1>1, <1>2, <1>3, SMTT(30) DEF Range

\* The list L2 is the list L with the entry e after all others.
Extends(L2, L, e) ==
    /\ DOMAIN L2 = DOMAIN L \cup {e} /\ \A f \in DOMAIN L : L2[f] = L[f]
    /\ e[1] \in Nat /\ \A f \in DOMAIN L : f[1] \in Nat /\ f[1] < e[1]

\* A directory that is opened adds its libraries to those that are still to be loaded,
\* and comes after all those that offered a name before.
LEMMA OpenTables ==
    ASSUME NEW L, NEW L2, NEW e, Extends(L2, L, e), L2[e] \in DOMAIN Libraries,
           NEW plugins, NEW offered
    PROVE  /\ Covers(plugins, offered, L, {}) => Covers(plugins, offered, L2, Libraries[L2[e]])
           /\ FromFirst(plugins, offered, L) => FromFirst(plugins, offered, L2)
           /\ Defines(plugins, L, {}) => Defines(plugins, L2, Libraries[L2[e]])
<1>1. Last(e, L2)
  BY DEF Last, Extends
<1>2. \A l \in ValidIn(L2[e]) : l \in Libraries[L2[e]]
  BY Zenon DEF ValidIn
<1>3. \A f \in DOMAIN L2 : f = e \/ (f \in DOMAIN L /\ L2[f] = L[f])
  BY Zenon DEF Extends
<1>4. Covers(plugins, offered, L, {}) => Covers(plugins, offered, L2, Libraries[L2[e]])
  BY <1>1, <1>2, <1>3, Zenon DEF Covers
<1>5. Defines(plugins, L, {}) => Defines(plugins, L2, Libraries[L2[e]])
  <2> SUFFICES ASSUME Defines(plugins, L, {}) PROVE Defines(plugins, L2, Libraries[L2[e]])
    BY Zenon
  <2>1. \A l \in Range(plugins) : Library[l].defines /\ \E f \in DOMAIN L2 : l \in ValidIn(L2[f])
    BY Zenon DEF Defines, Extends
  <2>2. ASSUME NEW f \in DOMAIN L2, NEW l \in ValidIn(L2[f]), Library[l].defines
        PROVE  l \in Range(plugins) \/ (l \in Libraries[L2[e]] /\ Last(f, L2))
    BY <1>1, <1>2, <1>3, <2>2, Zenon DEF Defines
  <2> QED BY <2>1, <2>2, Zenon DEF Defines
<1>6. ASSUME FromFirst(plugins, offered, L), NEW n \in DOMAIN plugins
      PROVE  \E f \in DOMAIN L2 : /\ plugins[n] \in ValidIn(L2[f]) /\ n \in offered[plugins[n]]
                                  /\ FirstWith(n, offered, f, L2)
  <2>1. PICK f \in DOMAIN L : /\ plugins[n] \in ValidIn(L[f]) /\ n \in offered[plugins[n]]
                              /\ FirstWith(n, offered, f, L)
    BY <1>6, Zenon DEF FromFirst
  <2>2. f \in DOMAIN L2 /\ L2[f] = L[f] /\ ~(e[1] < f[1])
    BY <2>1 DEF Extends
  <2>3. FirstWith(n, offered, f, L2)
    BY <1>3, <2>1, <2>2, Zenon DEF FirstWith
  <2> QED BY <2>1, <2>2, <2>3, Zenon
<1> QED BY <1>4, <1>5, <1>6, Zenon DEF FromFirst

\* A library that is loaded, or skipped because it is not a plugin, is not to be loaded
\* anymore.
LEMMA LoadCovers ==
    ASSUME NEW plugins, NEW plugins2, NEW offered, NEW L, NEW T, NEW lib,
           Covers(plugins, offered, L, T), DOMAIN plugins \subseteq DOMAIN plugins2,
           Library[lib].opens /\ Library[lib].entry => offered[lib] \subseteq DOMAIN plugins2
    PROVE  Covers(plugins2, offered, L, T \ {lib})
<1> SUFFICES ASSUME NEW e \in DOMAIN L, NEW l \in ValidIn(L[e])
             PROVE  offered[l] \subseteq DOMAIN plugins2 \/ (l \in T \ {lib} /\ Last(e, L))
  BY Zenon DEF Covers
<1>1. Library[l].opens /\ Library[l].entry
  BY Zenon DEF ValidIn
<1>2. offered[l] \subseteq DOMAIN plugins \/ (l \in T /\ Last(e, L))
  BY Zenon DEF Covers
<1> QED BY <1>1, <1>2, Zenon

\* A name that a library of the last entry adds was not offered by an earlier one.
LEMMA LoadFirst ==
    ASSUME NEW plugins, NEW offered, NEW L, NEW T, NEW lib,
           Covers(plugins, offered, L, T), FromFirst(plugins, offered, L),
           \A f \in DOMAIN L : f[1] \in Nat,
           NEW e \in DOMAIN L, lib \in ValidIn(L[e]), Last(e, L)
    PROVE  FromFirst(add_plugin(plugins, offered[lib], lib), offered, L)
<1> DEFINE new == add_plugin(plugins, offered[lib], lib)
<1>1. /\ DOMAIN new = DOMAIN plugins \cup offered[lib]
      /\ \A n \in DOMAIN plugins : new[n] = plugins[n]
      /\ \A n \in offered[lib] \ DOMAIN plugins : new[n] = lib
  BY Zenon DEF add_plugin
<1> HIDE DEF new
<1> SUFFICES ASSUME NEW n \in DOMAIN new
             PROVE  \E f \in DOMAIN L : /\ new[n] \in ValidIn(L[f]) /\ n \in offered[new[n]]
                                        /\ FirstWith(n, offered, f, L)
  BY Zenon DEF FromFirst, new
<1>2. CASE n \in DOMAIN plugins
  BY <1>1, <1>2, Zenon DEF FromFirst
<1>3. CASE n \notin DOMAIN plugins
  <2>1. n \in offered[lib] /\ new[n] = lib
    BY <1>1, <1>3, Zenon
  <2>2. ASSUME NEW f \in DOMAIN L, f[1] < e[1], NEW l \in ValidIn(L[f])
        PROVE  n \notin offered[l]
    <3>1. ~Last(f, L)
      BY <2>2 DEF Last
    <3> QED BY <1>3, <3>1, Zenon DEF Covers
  <2> QED BY <2>1, <2>2, Zenon DEF FirstWith
<1> QED BY <1>2, <1>3, Zenon

\* The definition plugin of a loaded library is added, once more if need be.
LEMMA LoadDefines ==
    ASSUME NEW plugins, NEW plugins2, NEW L, NEW T, NEW lib, Defines(plugins, L, T),
           Range(plugins) \subseteq Range(plugins2),
           Range(plugins2) \subseteq Range(plugins) \cup
               {l \in {lib} : Library[l].defines /\ \E e \in DOMAIN L : l \in ValidIn(L[e])},
           Library[lib].opens /\ Library[lib].entry /\ Library[lib].defines => lib \in Range(plugins2)
    PROVE  Defines(plugins2, L, T \ {lib})
<1>1. \A l \in Range(plugins2) : Library[l].defines /\ \E e \in DOMAIN L : l \in ValidIn(L[e])
  BY Zenon DEF Defines
<1>2. ASSUME NEW e \in DOMAIN L, NEW l \in ValidIn(L[e]), Library[l].defines
      PROVE  l \in Range(plugins2) \/ (l \in T \ {lib} /\ Last(e, L))
  <2>1. Library[l].opens /\ Library[l].entry
    BY Zenon DEF ValidIn
  <2>2. l \in Range(plugins) \/ (l \in T /\ Last(e, L))
    BY <1>2, Zenon DEF Defines
  <2> QED BY <1>2, <2>1, <2>2, Zenon
<1> QED BY <1>1, <1>2, Zenon DEF Defines
=============================================================================
