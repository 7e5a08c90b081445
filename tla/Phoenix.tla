------------------------------ MODULE Phoenix ------------------------------
(***************************************************************************)
(* What utilmm's singletons promise (typelib/utilmm/singleton/use.hh): a   *)
(* singleton exists if and only if it has a client, there is never more    *)
(* than one of it, and it is created again for the next client after its   *)
(* destruction.  Nothing is said here of how: Singleton implements this.   *)
(***************************************************************************)
CONSTANTS Use, Single, Ty

VARIABLES
    clients,    \* the use<> objects that are attached
    existing    \* the singletons that have an instance

Init == clients = {} /\ existing = {}

Attach(u) ==
    /\ u \in Use \ clients
    /\ clients' = clients \cup {u}
    /\ existing' = existing \cup {Ty[u]}

\* The last client of a singleton takes the instance with it.
Detach(u) ==
    /\ u \in clients
    /\ clients' = clients \ {u}
    /\ existing' = {s \in existing : \E v \in clients \ {u} : Ty[v] = s}

Next == \E u \in Use : Attach(u) \/ Detach(u)

Spec == Init /\ [][Next]_<<clients, existing>>
=============================================================================
