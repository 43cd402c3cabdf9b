-------------------------- MODULE OptimisticStore --------------------------
(***************************************************************************)
(* What the replicated database promises its clients, without replicas,    *)
(* locks or write-ahead logs: a transaction sees the newest version at its *)
(* start for as long as it lasts, and it is committed only if that version *)
(* is still the newest one; otherwise it is lost together with its client. *)
(***************************************************************************)
EXTENDS Naturals

CONSTANTS Client, None

VARIABLES
    version,  \* the number of committed transactions
    view      \* view[c]: the version the open transaction of c sees

vars == <<version, view>>

Init == version = 0 /\ view = [c \in Client |-> None]

Begin(c) ==
    /\ view[c] = None
    /\ view' = [view EXCEPT ![c] = version]
    /\ UNCHANGED version

Commit(c) ==
    /\ view[c] = version
    /\ version' = version + 1
    /\ view' = [view EXCEPT ![c] = None]

End(c) ==
    /\ view[c] # None
    /\ view' = [view EXCEPT ![c] = None]
    /\ UNCHANGED version

Next == \E c \in Client : Begin(c) \/ Commit(c) \/ End(c)

Spec == Init /\ [][Next]_vars
=============================================================================
