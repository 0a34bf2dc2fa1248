------------------------------- MODULE Lotsen -------------------------------
(***************************************************************************)
(* The control plane: users' requests to the API, the orchestrator's       *)
(* passes and the status notifications between them, over the shared       *)
(* deployments file and Docker's containers, with containers that exit and *)
(* processes that are killed at any point.                                 *)
(***************************************************************************)
EXTENDS Orchestrator, FiniteSets

vars == <<storeVars, apiVars, containers, orchestratorVars>>

TypeOK ==
    /\ StoreTypeOK
    /\ APITypeOK
    /\ ContainersTypeOK
    /\ OrchestratorTypeOK

Init ==
    /\ StoreInit
    /\ APIInit
    /\ ContainersInit
    /\ OrchestratorInit

-----------------------------------------------------------------------------
(* The environment.                                                        *)

ContainerExits(c) ==
    /\ Running(containers, c)
    /\ Fault
    /\ containers' = Stopped(containers, c)
    /\ UNCHANGED <<storeVars, apiVars, pc, passVars, memoryVars>>

\* What the orchestrator keeps in memory is lost; systemd starts it again.
OrchestratorRestarts ==
    /\ EndPass
    /\ lastReachable' = "unknown"
    /\ retry' = [d \in IDs |-> NoRetry]

KillOrchestrator ==
    /\ Fault
    /\ OrchestratorRestarts
    /\ UNCHANGED <<storeVars, apiVars, containers>>

\* The requests being served are lost with the process.
KillAPI ==
    /\ Fault
    /\ req' = [c \in Clients |-> NoRequest]
    /\ notif' = NoStatusRequest
    /\ UNCHANGED <<storeVars, dashboard, ops, containers, pc, passVars, memoryVars>>

\* The operator sets the dashboard's domain and restarts the services.
ConfigureDashboard(domain) ==
    /\ domain # dashboard
    /\ Fault
    /\ dashboard' = domain
    /\ req' = [c \in Clients |-> NoRequest]
    /\ notif' = NoStatusRequest
    /\ OrchestratorRestarts
    /\ UNCHANGED <<storeVars, ops, containers>>

EnvironmentStep ==
    \/ \E c \in CIDs : ContainerExits(c)
    \/ KillOrchestrator
    \/ KillAPI
    \/ \E domain \in Domains : ConfigureDashboard(domain)

-----------------------------------------------------------------------------
APIStep == (UserStep \/ StatusStep) /\ UNCHANGED <<containers, orchestratorVars>>

Next == APIStep \/ OrchestratorStep \/ EnvironmentStep

Spec == Init /\ [][Next]_vars

\* The orchestrator's loop is one goroutine that the scheduler keeps
\* running and systemd restarts; time passes between its ticks; the API
\* serves a notification that reached it.  Nothing makes users act, and a
\* fault never has to happen.
Fairness ==
    /\ WF_vars(OrchestratorStep)
    /\ SF_vars(BeginPass(1))
    /\ WF_vars(StatusStep /\ UNCHANGED <<containers, orchestratorVars>>)

LiveSpec == Spec /\ Fairness

-----------------------------------------------------------------------------
(* Safety.                                                                 *)

ContainersOf(d) == {c \in Existing(containers) : containers[c].dep = d}

\* Every container that a pass is about to remove as an orphan belongs to a
\* deployment that is not in the store at that moment, however old the
\* pass's snapshot and listing are: deployments created meanwhile and
\* containers started for them are never taken for orphans.
OrphansAreDeleted ==
    pc = "orphans" =>
        \A c \in rm : containers[c] # NoContainer => store[containers[c].dep] = NoDeployment

\* A deployment that was deleted never comes back, although handlers and
\* passes that read it before the delete still write it afterwards.
NoResurrection ==
    [][\A d \in used : store[d] = NoDeployment => store'[d] = NoDeployment]_vars

\* When a redeploy without a host-port conflict fails, the container it was
\* to replace is still there: StartAndReplace tears the old one down only
\* after the new one was seen running and the route was swapped.
OldKeptOnFailedReplace ==
    (pc = "patch" /\ report.status = "failed" /\ mode = "replace") =>
        containers[prim] # NoContainer

\* A start is reported healthy only when a container made from the
\* snapshot's configuration exists for the deployment.
HealthyIsBacked ==
    (pc = "patch" /\ report.status = "healthy" /\ report.setPorts) =>
        \E c \in ContainersOf(cur) : containers[c].image = snap[cur].image

\* Between passes a deployment has at most one container as long as no call
\* failed and nothing was killed, whatever users asked for meanwhile.
NoStaleContainers ==
    (faults = 0 /\ pc = "idle") => \A d \in IDs : Cardinality(ContainersOf(d)) <= 1

\* The pass has an outcome for deployment d and is about to write it.
Reports(d, status) ==
    pc # "patch" /\ pc' = "patch" /\ cur' = d /\ report'.status = status

\* A retry that fails puts the next one off by the delay that was due and
\* doubles that delay up to MaxDelay.  A deployment that is reported healthy
\* has no back-off left, whichever way it got there: the next failure starts
\* again at BaseDelay.  Apart from these two the delay stays and only time
\* shortens the wait, or the whole entry is dropped.  A retry begins when
\* the wait is over, and at once when Docker came back.
RetryBackoff ==
    [][\A d \in IDs :
        LET retried == Reports(d, "failed") /\ snap[d].status = "failed"
        IN  /\ retried =>
                  /\ retry'[d].wait = retry[d].delay
                  /\ retry'[d].delay = IF 2 * retry[d].delay < MaxDelay
                                       THEN 2 * retry[d].delay ELSE MaxDelay
            /\ Reports(d, "healthy") => retry'[d] = NoRetry
            /\ ~retried =>
                  \/ retry'[d] = NoRetry
                  \/ /\ retry'[d].delay = retry[d].delay
                     /\ retry[d].wait - retry'[d].wait \in {0, 1}
            /\ (pc = "visit" /\ pc' = "start" /\ cur = d /\ snap[d].status = "failed") =>
                  retry[d].wait = 0 \/ reconnected]_vars

-----------------------------------------------------------------------------
(* Liveness, once the faults and the users' requests have come to an end.  *)

HasStatus(d, status) == store[d] # NoDeployment /\ store[d].status = status

\* Every deploy ends: the deployment leaves the status deploying or goes.
DeployEnds ==
    \A d \in IDs : HasStatus(d, "deploying") ~> ~HasStatus(d, "deploying")

\* A deleted deployment loses its containers for good, also the one that a
\* pass with an older snapshot starts for it after the delete.
DeletedCleanedUp ==
    \A d \in IDs :
        [](d \in used /\ store[d] = NoDeployment => <>[](ContainersOf(d) = {}))

\* A deployment does not stay healthy without a running container.
ExitNoticed ==
    \A d \in IDs :
        (HasStatus(d, "healthy") /\ \A c \in ContainersOf(d) : ~containers[c].running)
            ~> (~HasStatus(d, "healthy") \/ \E c \in ContainersOf(d) : containers[c].running)

\* A failure that is recorded as transient is retried or found recovered:
\* it does not stay recorded as it is.
TransientRetried ==
    \A d \in IDs :
        (HasStatus(d, "failed") /\ IsTransientFailure(store[d].err))
            ~> ~(HasStatus(d, "failed") /\ IsTransientFailure(store[d].err))

\* In the end every pass leaves at most one container per deployment, also
\* after calls failed and the orchestrator was killed half-way through.
StaleContainersGo ==
    <>[](pc = "idle" => \A d \in IDs : Cardinality(ContainersOf(d)) <= 1)

=============================================================================
