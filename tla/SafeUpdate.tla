----------------------------- MODULE SafeUpdate -----------------------------
(***************************************************************************)
(* What dockerloader promises about updates, without files, processes or   *)
(* crashes: at any time there is at most one stable version and at most    *)
(* one candidate on trial; a candidate was published and differs from the  *)
(* stable version; it is promoted or given up, and a trial always ends.    *)
(***************************************************************************)
CONSTANTS Version, None

VARIABLES
    published,   \* versions the registry has offered
    stable,      \* the version that runs after a restart
    candidate    \* the version on trial

vars == <<published, stable, candidate>>

Init ==
    /\ \E v \in Version : published = {v}
    /\ stable = None /\ candidate = None

Publish(v) == published' = published \cup {v} /\ UNCHANGED <<stable, candidate>>

Install(v) ==
    /\ stable = None /\ v \in published
    /\ stable' = v /\ UNCHANGED <<published, candidate>>

BeginTrial(v) ==
    /\ stable # None /\ candidate = None /\ v \in published \ {stable}
    /\ candidate' = v /\ UNCHANGED <<published, stable>>

Commit ==
    /\ candidate # None
    /\ stable' = candidate /\ candidate' = None /\ UNCHANGED published

Rollback ==
    /\ candidate # None
    /\ candidate' = None /\ UNCHANGED <<published, stable>>

Next ==
    \/ \E v \in Version : Publish(v) \/ Install(v) \/ BeginTrial(v)
    \/ Commit \/ Rollback

Spec == Init /\ [][Next]_vars /\ WF_vars(Commit \/ Rollback)
=============================================================================
