----------------------------- MODULE Singleton -----------------------------
(***************************************************************************)
(* The reference-counted phoenix singletons of typelib/utilmm/singleton.   *)
(*                                                                         *)
(* A use<Ty> object attaches to the singleton Ty when it is constructed    *)
(* and detaches when it is destroyed; the first client creates the         *)
(* instance and the last one destroys it.  The table of the instances is   *)
(* the server, itself created by the first call and destroyed with its     *)
(* last entry.  Any thread may construct, use and destroy use<> objects;   *)
(* the recursive mutex sing_mtx serializes attach(), detach() and          *)
(* instance(), and is held while an instance is constructed or destroyed.  *)
(* Each use<> object is a process here: a thread that owns several does    *)
(* less than as many threads that own one each.  The constructors of the   *)
(* singletons are taken not to use singletons themselves.                  *)
(***************************************************************************)
EXTENDS Naturals, FiniteSets

CONSTANTS
    Use,        \* the use<> objects
    Single,     \* the types that are used as singletons
    Ty,         \* [Use -> Single]: the parameter of use<Ty>
    NoUse       \* the mutex is free

ASSUME UseAssumption == IsFiniteSet(Use) /\ NoUse \notin Use
ASSUME TyAssumption == Ty \in [Use -> Single]

VARIABLES
    the_instance,   \* whether the server exists
    singletons,     \* the names in the server's table
    ref_counter,    \* the reference count of each entry
    instances,      \* how many objects of each type exist
    sing_mtx,       \* on whose behalf the mutex is held
    phase           \* where each use<> object is in its life

sVars == <<the_instance, singletons, ref_counter, instances, sing_mtx, phase>>

\* "none": not constructed; "attach", "get", "detach": about to lock the mutex;
\* "create", "count", "delete": holds it; "live": constructed; "in": its caller
\* works on the instance, without the mutex.
Phases == {"none", "attach", "create", "count", "live", "get", "in", "detach", "delete"}
Locked == {"create", "count", "delete"}
\* The phases that the reference counts count.
Attached == {"live", "get", "in", "detach"}

\* The use<> objects of singleton s that its count must account for.
Counted(s) == {u \in Use : Ty[u] = s /\ phase[u] \in Attached}

SInit ==
    /\ the_instance = FALSE
    /\ singletons = {}
    /\ ref_counter = [s \in Single |-> 0]
    /\ instances = [s \in Single |-> 0]
    /\ sing_mtx = NoUse
    /\ phase = [u \in Use |-> "none"]

Goto(u, from, to) == phase[u] = from /\ phase' = [phase EXCEPT ![u] = to]

\* A thread starts the constructor, or the copy constructor, of u.
Construct(u) ==
    /\ Goto(u, "none", "attach")
    /\ UNCHANGED <<the_instance, singletons, ref_counter, instances, sing_mtx>>

\* dummy::attach() takes the mutex, makes sure that there is a server and looks
\* the singleton up.
Attach(u) ==
    /\ sing_mtx = NoUse
    /\ Goto(u, "attach", IF Ty[u] \in singletons THEN "count" ELSE "create")
    /\ sing_mtx' = u
    /\ the_instance' = TRUE
    /\ UNCHANGED <<singletons, ref_counter, instances>>

\* factory.create() has returned the new instance, which enters the table.
Create(u) ==
    /\ Goto(u, "create", "count")
    /\ singletons' = singletons \cup {Ty[u]}
    /\ ref_counter' = [ref_counter EXCEPT ![Ty[u]] = 0]
    /\ instances' = [instances EXCEPT ![Ty[u]] = @ + 1]
    /\ UNCHANGED <<the_instance, sing_mtx>>

\* The constructor of the singleton throws: so does the constructor of u.  The
\* mutex is released; the server stays, even when its table is empty.
CreateThrows(u) ==
    /\ Goto(u, "create", "none")
    /\ sing_mtx' = NoUse
    /\ UNCHANGED <<the_instance, singletons, ref_counter, instances>>

\* incr_ref(), and u is constructed.
Count(u) ==
    /\ Goto(u, "count", "live")
    /\ ref_counter' = [ref_counter EXCEPT ![Ty[u]] = @ + 1]
    /\ sing_mtx' = NoUse
    /\ UNCHANGED <<the_instance, singletons, instances>>

\* operator* or operator-> of u ...
Access(u) ==
    /\ Goto(u, "live", "get")
    /\ UNCHANGED <<the_instance, singletons, ref_counter, instances, sing_mtx>>

\* ... looks the singleton up with the mutex held, and returns a reference ...
Get(u) ==
    /\ sing_mtx = NoUse
    /\ Goto(u, "get", "in")
    /\ the_instance' = TRUE
    /\ UNCHANGED <<singletons, ref_counter, instances, sing_mtx>>

\* ... that the caller is done with.
Done(u) ==
    /\ Goto(u, "in", "live")
    /\ UNCHANGED <<the_instance, singletons, ref_counter, instances, sing_mtx>>

\* A thread starts the destructor of u.
Destroy(u) ==
    /\ Goto(u, "live", "detach")
    /\ UNCHANGED <<the_instance, singletons, ref_counter, instances, sing_mtx>>

\* (ref_counter--) <= 1
DecrRefIsLast(s) == ref_counter[s] <= 1

\* dummy::detach() on an instance that has other clients.
Release(u) ==
    /\ sing_mtx = NoUse
    /\ ~DecrRefIsLast(Ty[u])
    /\ Goto(u, "detach", "none")
    /\ the_instance' = TRUE
    /\ ref_counter' = [ref_counter EXCEPT ![Ty[u]] = @ - 1]
    /\ UNCHANGED <<singletons, instances, sing_mtx>>

\* Mutant: the entry is deleted as it is erased, and once more by Delete.
EraseDeletes(u) ==
    /\ sing_mtx = NoUse
    /\ DecrRefIsLast(Ty[u])
    /\ Goto(u, "detach", "delete")
    /\ the_instance' = TRUE
    /\ sing_mtx' = u
    /\ singletons' = singletons \ {Ty[u]}
    /\ instances' = [instances EXCEPT ![Ty[u]] = @ - 1]
    /\ UNCHANGED ref_counter

\* dummy::detach() by the last client: the entry leaves the table first ...
Erase(u) ==
    /\ sing_mtx = NoUse
    /\ DecrRefIsLast(Ty[u])
    /\ Goto(u, "detach", "delete")
    /\ the_instance' = TRUE
    /\ sing_mtx' = u
    /\ singletons' = singletons \ {Ty[u]}
    /\ UNCHANGED <<ref_counter, instances>>

\* ... then the instance is deleted, and the server after its last entry.
Delete(u) ==
    /\ Goto(u, "delete", "none")
    /\ instances' = [instances EXCEPT ![Ty[u]] = @ - 1]
    /\ the_instance' = (singletons # {})
    /\ sing_mtx' = NoUse
    /\ UNCHANGED <<singletons, ref_counter>>

\* What a thread does with the mutex held: only it decides when it goes on.
Step(u) == Create(u) \/ CreateThrows(u) \/ Count(u) \/ Delete(u)
SNext ==
    \E u \in Use : \/ Construct(u) \/ Attach(u) \/ Step(u) \/ Access(u) \/ Get(u) \/ Done(u)
                   \/ Destroy(u) \/ Release(u) \/ Erase(u)

SSpec == SInit /\ [][SNext]_sVars
-----------------------------------------------------------------------------
STypeOK ==
    /\ the_instance \in BOOLEAN
    /\ singletons \subseteq Single
    /\ ref_counter \in [Single -> Nat]
    /\ instances \in [Single -> Nat]
    /\ sing_mtx \in Use \cup {NoUse}
    /\ phase \in [Use -> Phases]

\* "At any time there's no more than one instance of the singleton" (use.hh:101).
AtMostOneInstance == \A s \in Single : instances[s] <= 1

\* A use<> object that is constructed has its singleton: get() and detach(), which
\* dereference the result of find() unchecked, find the entry, and the instance that
\* a caller works on without the mutex is not deleted under it.
ClientsFindInstance ==
    \A u \in Use : phase[u] \in Attached => Ty[u] \in singletons /\ instances[Ty[u]] = 1

\* Nothing outlives its clients: with the mutex free, an instance and its entry exist
\* exactly for the singletons that have clients, with a count that is their number
\* (use.hh:102), and the server exists whenever there is an entry.
ExistsIffNeeded ==
    sing_mtx = NoUse =>
        \A s \in Single : /\ s \in singletons <=> Counted(s) # {}
                          /\ instances[s] = IF Counted(s) # {} THEN 1 ELSE 0
                          /\ s \in singletons => the_instance /\ ref_counter[s] = Cardinality(Counted(s))

\* The server implements the phoenix singletons: a use<> object is a client from the
\* moment where its singleton is known to exist until it lets go of it.
ClientPhases == Attached \cup {"count", "delete"}
PhoenixClients == {u \in Use : phase[u] \in ClientPhases}
PhoenixExisting == {s \in Single : instances[s] # 0}
P == INSTANCE Phoenix WITH clients <- PhoenixClients, existing <- PhoenixExisting
PhoenixSpec == P!Spec
=============================================================================
