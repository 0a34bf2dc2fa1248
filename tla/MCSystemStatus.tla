-------------------------- MODULE MCSystemStatus ---------------------------
(* A small instance of the status signals: the store fails, or Docker does,  *)
(* or neither.                                                             *)
EXTENDS SystemStatus

MCOrder == <<"orchestrator", "docker">>
MCReads == <<"orchestrator", "docker", "docker">>

MCReports ==
    {r \in [{"orchestrator", "docker"} -> {"ok", "bad"}] : \E s \in DOMAIN r : r[s] = "ok"}

=============================================================================
