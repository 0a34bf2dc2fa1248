---------------------------- MODULE LotsenClaims ----------------------------
(***************************************************************************)
(* What the repository's documents and comments say of the control plane   *)
(* and the code does not do.  Each property is checked by a run of its own *)
(* and TLC finds the behaviour that violates it.                           *)
(***************************************************************************)
EXTENDS Lotsen

\* A save that arrives during a redeploy is queued or rejected (prds/
\* 03-zero-downtime-deployments.md): when everything is quiet, a healthy
\* deployment runs what the store says.  The pass that was under way writes
\* "healthy" over the "deploying" of the save.
ConcurrentSavesApplied ==
    (/\ pc = "idle"
     /\ notif.op = "none"
     /\ \A c \in Clients : req[c].op = "none") =>
        \A d \in Stored(store) : store[d].status = "healthy" =>
            \A c \in ContainersOf(d) : containers[c].image = store[d].image

\* When a redeploy fails the old container keeps running (prds/03, user
\* story 5).  With overlapping host ports it is removed before the new one
\* is started.
OldSurvivesFailedRedeploy ==
    (pc = "patch" /\ report.status = "failed" /\ snap[cur].status = "deploying"
        /\ prim # "none") =>
            containers[prim] # NoContainer

=============================================================================
