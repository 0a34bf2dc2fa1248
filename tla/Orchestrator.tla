---------------------------- MODULE Orchestrator ----------------------------
(***************************************************************************)
(* The orchestrator: one goroutine that runs Reconcile on every tick       *)
(* (orchestrator/internal/reconciler) over Docker's containers             *)
(* (orchestrator/internal/docker).  A pass reads the store once and then   *)
(* works from that snapshot, so every later step is separate here: the API *)
(* may change the store, a container may exit and the process may be       *)
(* killed between any two of them.                                         *)
(*                                                                         *)
(* Start and StartAndReplace share their steps.  mode tells them apart:    *)
(* "fresh" is Start (it creates the container under the deployment's       *)
(* name), "replace" is StartAndReplace (it creates it under the "-next"    *)
(* name beside the old one).  StartAndReplace with overlapping host ports  *)
(* removes the old container and goes on as "fresh".                       *)
(***************************************************************************)
EXTENDS DeploymentAPI, DockerEngine

CONSTANTS
    BaseDelay,      \* transientRetryBaseDelay, in tick intervals
    MaxDelay,       \* transientRetryMaxDelay, in tick intervals
    MaxFaults       \* bound: failed calls, lost messages, exits and kills

ASSUME DelayAssumption ==
    /\ BaseDelay \in Nat \ {0}
    /\ MaxDelay \in Nat
    /\ BaseDelay <= MaxDelay

\* prim and new are "none" when there is no container to name.
ASSUME NoneAssumption == "none" \notin CIDs

VARIABLES
    pc,             \* where the goroutine is
    snap,           \* the deployments that store.List returned
    seen,           \* the containers that ListManagedContainers returned
    inspected,      \* those of them whose exit details are known
    todo,           \* the deployments of the snapshot still to visit
    cur,            \* the deployment being visited
    prim,           \* its primary container
    new,            \* the container being started for it
    mode,           \* "fresh" or "replace"
    rm,             \* the containers still to stop and remove
    report,         \* the status to write and notify
    reconnected,    \* Docker answers again after a failed ping
    lastReachable,  \* lastDockerReachable, "unknown" before the first ping
    retry,          \* retryByDeployment
    faults          \* faults so far, at most MaxFaults

passVars == <<snap, seen, inspected, todo, cur, prim, new, mode, rm, report>>
memoryVars == <<reconnected, lastReachable, retry>>
orchestratorVars == <<pc, passVars, memoryVars, faults>>

PCs == {"idle", "ping", "down", "list", "each", "visit", "start", "create", "run",
        "verify", "resolve", "retire", "rename", "patch", "notify", "await", "orphans"}

\* attempts is kept as the delay that the next failure imposes: BaseDelay
\* doubled once for every failure so far, at most MaxDelay.  wait is what
\* is left until nextAllowedAt when a pass begins.
RetryState == [delay : Nat, wait : Nat]

NoRetry == [delay |-> BaseDelay, wait |-> 0]

Report == [status : Status, err : Errors, ports : SUBSET Ports, setPorts : BOOLEAN]

NoReport == [status |-> "idle", err |-> "none", ports |-> {}, setPorts |-> FALSE]

OrchestratorTypeOK ==
    /\ pc \in PCs
    /\ snap \in [IDs -> Deployment \cup {NoDeployment}]
    /\ seen \in [CIDs -> Container \cup {NoContainer}]
    /\ inspected \subseteq CIDs
    /\ todo \subseteq IDs
    /\ cur \in IDs \cup {"none"}
    /\ prim \in CIDs \cup {"none"}
    /\ new \in CIDs \cup {"none"}
    /\ mode \in {"fresh", "replace"}
    /\ rm \subseteq CIDs
    /\ report \in Report
    /\ reconnected \in BOOLEAN
    /\ lastReachable \in {"unknown", "yes", "no"}
    /\ retry \in [IDs -> RetryState]
    /\ faults \in Nat

NoSnap == [d \in IDs |-> NoDeployment]

NoneSeen == [c \in CIDs |-> NoContainer]

OrchestratorInit ==
    /\ pc = "idle"
    /\ snap = NoSnap
    /\ seen = NoneSeen
    /\ inspected = {}
    /\ todo = {}
    /\ cur = "none"
    /\ prim = "none"
    /\ new = "none"
    /\ mode = "fresh"
    /\ rm = {}
    /\ report = NoReport
    /\ reconnected = FALSE
    /\ lastReachable = "unknown"
    /\ retry = [d \in IDs |-> NoRetry]
    /\ faults = 0

Fault == faults < MaxFaults /\ faults' = faults + 1

NoFault == UNCHANGED faults

\* A pass is over: its local variables are gone.
EndPass ==
    /\ pc' = "idle"
    /\ snap' = NoSnap
    /\ seen' = NoneSeen
    /\ inspected' = {}
    /\ todo' = {}
    /\ cur' = "none"
    /\ prim' = "none"
    /\ new' = "none"
    /\ mode' = "fresh"
    /\ rm' = {}
    /\ report' = NoReport
    /\ reconnected' = FALSE

-----------------------------------------------------------------------------
(* The start of a pass: List, Ping and ListManagedContainers.              *)

\* elapsed is the time since the last pass began, in whole intervals: a
\* pass that overran its interval is followed at once by the next one.
BeginPass(elapsed) ==
    /\ pc = "idle"
    /\ snap' = store
    /\ retry' = [d \in IDs |->
                    [delay |-> retry[d].delay,
                     wait |-> IF retry[d].wait > elapsed THEN retry[d].wait - elapsed ELSE 0]]
    /\ pc' = "ping"
    /\ UNCHANGED <<storeVars, apiVars, containers, seen, inspected, todo, cur, prim, new, mode, rm,
                   report, reconnected, lastReachable, faults>>

PingSucceeds ==
    /\ pc = "ping"
    /\ reconnected' = (lastReachable = "no")
    /\ lastReachable' = "yes"
    /\ pc' = "list"
    /\ UNCHANGED <<storeVars, apiVars, containers, passVars, retry, faults>>

\* Docker is unreachable: every deployment that is up or coming up is
\* reported failed, and the pass ends there.
PingFails ==
    /\ pc = "ping"
    /\ Fault
    /\ lastReachable' = "no"
    /\ todo' = {d \in Stored(snap) : snap[d].status \in {"healthy", "deploying"}}
    /\ pc' = "down"
    /\ UNCHANGED <<storeVars, apiVars, containers, snap, seen, inspected, cur, prim, new, mode, rm,
                   report, reconnected, retry>>

\* The listing inspects every stopped container; where that call fails the
\* exit details are missing.
ListContainers(blind) ==
    /\ pc = "list"
    /\ seen' = containers
    /\ inspected' = Existing(containers) \ blind
    /\ \/ blind = {} /\ NoFault
       \/ blind # {} /\ Fault
    /\ todo' = Stored(snap)
    /\ pc' = "each"
    /\ UNCHANGED <<storeVars, apiVars, containers, snap, cur, prim, new, mode, rm, report,
                   memoryVars>>

ListContainersFails ==
    /\ pc = "list"
    /\ Fault
    /\ EndPass
    /\ UNCHANGED <<storeVars, apiVars, containers, lastReachable, retry>>

-----------------------------------------------------------------------------
(* Visiting one deployment of the snapshot, in any order.                  *)

Candidates(d) == {c \in Existing(seen) : seen[c].dep = d}

ContainerSelectionScore(c, canonical) ==
    CASE seen[c].running /\ seen[c].name = canonical -> 4
      [] seen[c].running /\ seen[c].name # canonical -> 3
      [] ~seen[c].running /\ seen[c].name = canonical -> 2
      [] OTHER -> 1

\* The candidates of the best score.  The code breaks a tie by the
\* container id, which Docker draws at random: any of them may win.
ChoosePrimaryContainer(d) ==
    {c \in Candidates(d) :
        \A k \in Candidates(d) :
            ContainerSelectionScore(k, snap[d].name) <= ContainerSelectionScore(c, snap[d].name)}

ClearRetryState(d) == [retry EXCEPT ![d] = NoRetry]

\* Mutant: the containers beside the primary are not collected.
VisitKeepsExtras(d, p) ==
    /\ pc = "each"
    /\ d \in todo
    /\ p \in IF Candidates(d) = {} THEN {"none"} ELSE ChoosePrimaryContainer(d)
    /\ todo' = todo \ {d}
    /\ cur' = d
    /\ prim' = p
    /\ retry' = IF snap[d].status = "failed" THEN retry ELSE ClearRetryState(d)
    /\ pc' = "visit"
    /\ UNCHANGED <<storeVars, apiVars, containers, snap, seen, inspected, new, mode, rm, report,
                   reconnected, lastReachable, faults>>

VisitDeployment(d, p) ==
    /\ pc = "each"
    /\ d \in todo
    /\ p \in IF Candidates(d) = {} THEN {"none"} ELSE ChoosePrimaryContainer(d)
    /\ todo' = todo \ {d}
    /\ cur' = d
    /\ prim' = p
    /\ rm' = Candidates(d) \ {p}
    /\ retry' = IF snap[d].status = "failed" THEN retry ELSE ClearRetryState(d)
    /\ pc' = "visit"
    /\ UNCHANGED <<storeVars, apiVars, containers, snap, seen, inspected, new, mode, report,
                   reconnected, lastReachable, faults>>

\* A failed StopAndRemove is logged and the pass goes on.
RemoveStale(c) ==
    /\ pc = "visit"
    /\ c \in rm
    /\ rm' = rm \ {c}
    /\ \/ containers' = Removed(containers, c) /\ NoFault
       \/ containers' \in StopAndRemoveFailed(containers, c) /\ Fault
    /\ UNCHANGED <<storeVars, apiVars, pc, snap, seen, inspected, todo, cur, prim, new, mode,
                   report,
                   memoryVars>>

\* The stale containers are gone and the switch on the status is next.
Deciding == pc = "visit" /\ rm = {}

PrimaryRunning == prim # "none" /\ seen[prim].running

DomainReserved ==
    /\ dashboard # NoDomain
    /\ snap[cur].domain = dashboard
    /\ snap[cur].status = "deploying"

\* Mutant: only a reconnect allows a retry.
CanRetryOnReconnect(d) == reconnected

CanRetryTransientFailure(d) == reconnected \/ retry[d].wait = 0

Say(status, err) ==
    /\ report' = [status |-> status, err |-> err, ports |-> {}, setPorts |-> FALSE]
    /\ pc' = "patch"

RejectReservedDomain ==
    /\ Deciding
    /\ DomainReserved
    /\ Say("failed", "reserved")
    /\ UNCHANGED <<storeVars, apiVars, containers, snap, seen, inspected, todo, cur, prim, new,
                   mode, rm,
                   memoryVars, faults>>

\* Start or StartAndReplace is called.
BeginStart ==
    /\ Deciding
    /\ \/ snap[cur].status = "deploying" /\ ~DomainReserved
       \/ /\ snap[cur].status = "failed"
          /\ IsTransientFailure(snap[cur].err)
          /\ ~PrimaryRunning
          /\ CanRetryTransientFailure(cur)
    /\ mode' = IF prim = "none" THEN "fresh" ELSE "replace"
    /\ pc' = "start"
    /\ UNCHANGED <<storeVars, apiVars, containers, snap, seen, inspected, todo, cur, prim, new,
                   rm, report,
                   memoryVars, faults>>

\* A healthy deployment whose container is gone or not running has failed.
\* Without exit details the error is the one that is retried.
NoticeExit ==
    /\ Deciding
    /\ snap[cur].status = "healthy"
    /\ ~PrimaryRunning
    /\ Say("failed", IF prim \in inspected THEN "exited" ELSE "notRunning")
    /\ UNCHANGED <<storeVars, apiVars, containers, snap, seen, inspected, todo, cur, prim, new,
                   mode, rm,
                   memoryVars, faults>>

\* A transient failure whose container turns out to be running is over.
RecoverRunning ==
    /\ Deciding
    /\ snap[cur].status = "failed"
    /\ IsTransientFailure(snap[cur].err)
    /\ PrimaryRunning
    /\ retry' = ClearRetryState(cur)
    /\ Say("healthy", "none")
    /\ UNCHANGED <<storeVars, apiVars, containers, snap, seen, inspected, todo, cur, prim, new,
                   mode, rm,
                   reconnected, lastReachable, faults>>

\* Mutant: a deployment that has a running container is taken for deployed.
LeaveDeployingAlone ==
    /\ Deciding
    /\ \/ snap[cur].status \in {"idle", "deploying"}
       \/ snap[cur].status = "healthy" /\ PrimaryRunning
       \/ snap[cur].status = "failed" /\ ~IsTransientFailure(snap[cur].err)
       \/ snap[cur].status = "failed" /\ ~PrimaryRunning /\ ~CanRetryTransientFailure(cur)
    /\ pc' = "each"
    /\ UNCHANGED <<storeVars, apiVars, containers, passVars, memoryVars, faults>>

\* Mutant: a healthy deployment is left alone whatever its container does.
LeaveHealthyAlone ==
    /\ Deciding
    /\ \/ snap[cur].status \in {"idle", "healthy"}
       \/ snap[cur].status = "failed" /\ ~IsTransientFailure(snap[cur].err)
       \/ snap[cur].status = "failed" /\ ~PrimaryRunning /\ ~CanRetryTransientFailure(cur)
    /\ pc' = "each"
    /\ UNCHANGED <<storeVars, apiVars, containers, passVars, memoryVars, faults>>

LeaveAlone ==
    /\ Deciding
    /\ \/ snap[cur].status = "idle"
       \/ snap[cur].status = "healthy" /\ PrimaryRunning
       \/ snap[cur].status = "failed" /\ ~IsTransientFailure(snap[cur].err)
       \/ snap[cur].status = "failed" /\ ~PrimaryRunning /\ ~CanRetryTransientFailure(cur)
    /\ pc' = "each"
    /\ UNCHANGED <<storeVars, apiVars, containers, passVars, memoryVars, faults>>

-----------------------------------------------------------------------------
(* Docker.Start and Docker.StartAndReplace.                                *)

\* Mutant: the attempts are not counted, so that the delay stays the same.
RecordRetryFailureUncounted(d) == [retry EXCEPT ![d].wait = retry[d].delay]

\* A retry that fails is put off longer each time.
RecordRetryFailure(d) ==
    [retry EXCEPT ![d] =
        [delay |-> IF 2 * retry[d].delay < MaxDelay THEN 2 * retry[d].delay ELSE MaxDelay,
         wait  |-> retry[d].delay]]

\* The call returned an error and the containers are left as cs.
StartReturnsError(err, cs) ==
    /\ containers' = cs
    /\ Say("failed", err)
    /\ retry' = IF snap[cur].status = "failed" THEN RecordRetryFailure(cur) ELSE retry
    /\ UNCHANGED <<storeVars, apiVars, snap, seen, inspected, todo, cur, prim, new, mode, rm,
                   reconnected, lastReachable>>

\* The call returned the runtime ports, which are written to the record.
StartReturnsPorts(ports) ==
    /\ report' = [status |-> "healthy", err |-> "none", ports |-> ports, setPorts |-> TRUE]
    /\ pc' = "patch"
    /\ retry' = IF snap[cur].status = "failed" THEN ClearRetryState(cur) ELSE retry

\* Some call to the daemon failed: unreachable, or any other error.
DockerErrors == {"unavailable", "startFailed"}

ShouldStopBeforeStart ==
    mode = "replace" /\ PortsBound(containers, prim) \cap snap[cur].ports # {}

StopBeforeStart ==
    /\ pc = "start"
    /\ ShouldStopBeforeStart
    /\ containers' = Removed(containers, prim)
    /\ mode' = "fresh"
    /\ pc' = "create"
    /\ UNCHANGED <<storeVars, apiVars, snap, seen, inspected, todo, cur, prim, new, rm, report,
                   memoryVars,
                   faults>>

StopBeforeStartFails ==
    /\ pc = "start"
    /\ ShouldStopBeforeStart
    /\ Fault
    /\ \E err \in DockerErrors, cs \in StopAndRemoveFailed(containers, prim) :
            StartReturnsError(err, cs)

StartDirectly ==
    /\ pc = "start"
    /\ ~ShouldStopBeforeStart
    /\ pc' = "create"
    /\ UNCHANGED <<storeVars, apiVars, containers, passVars, memoryVars, faults>>

\* The ping, the pull or the create fails.
CreateFails ==
    /\ pc = "create"
    /\ Fault
    /\ \E err \in DockerErrors : StartReturnsError(err, containers)

ContainerName == IF mode = "fresh" THEN snap[cur].name ELSE NextName[snap[cur].name]

NameConflict ==
    /\ pc = "create"
    /\ NameTaken(containers, ContainerName)
    /\ NoFault
    /\ StartReturnsError("startFailed", containers)

\* Ids are never reused; the guard keeps c apart from the ids this pass holds.
CreateContainer(c) ==
    /\ pc = "create"
    /\ ~NameTaken(containers, ContainerName)
    /\ containers[c] = NoContainer
    /\ seen[c] = NoContainer
    /\ containers' = Created(containers, c, cur, snap[cur], ContainerName)
    /\ new' = c
    /\ pc' = "run"
    /\ UNCHANGED <<storeVars, apiVars, snap, seen, inspected, todo, cur, prim, mode, rm, report,
                   memoryVars,
                   faults>>

StartContainer ==
    /\ pc = "run"
    /\ PortsFree(containers, snap[cur].ports)
    /\ containers' = Started(containers, new)
    /\ pc' = IF mode = "fresh" THEN "resolve" ELSE "verify"
    /\ UNCHANGED <<storeVars, apiVars, passVars, memoryVars, faults>>

\* Mutant: the clean-up removes the old container.
CleanedUpOld == {Removed(containers, prim)}

\* The containers after new is stopped and force-removed; the errors of the
\* clean-up are ignored.
CleanedUp == {containers, Stopped(containers, new), Removed(containers, new)}

\* Start leaves the container it created behind, StartAndReplace removes it.
StartContainerFails ==
    /\ pc = "run"
    /\ \/ /\ ~PortsFree(containers, snap[cur].ports)
          /\ NoFault
          /\ StartReturnsError("startFailed",
                IF mode = "fresh" THEN containers ELSE Removed(containers, new))
       \/ /\ Fault
          /\ \E err \in DockerErrors :
                \E cs \in IF mode = "fresh" THEN {containers} ELSE CleanedUp :
                    StartReturnsError(err, cs)

VerifyRunning ==
    /\ pc = "verify"
    /\ Running(containers, new)
    /\ pc' = "resolve"
    /\ UNCHANGED <<storeVars, apiVars, containers, passVars, memoryVars, faults>>

VerifyRunningFails ==
    /\ pc = "verify"
    /\ \/ /\ ~Running(containers, new)
          /\ NoFault
          /\ StartReturnsError("startFailed", Removed(containers, new))
       \/ /\ Fault
          /\ \E cs \in CleanedUp : StartReturnsError("startFailed", cs)

\* A stopped container has no bindings, and without a binding there is no
\* upstream to give to the proxy.
RuntimePorts == PortsBound(containers, new)

RouteUnavailable ==
    mode = "replace" /\ snap[cur].domain # NoDomain /\ RuntimePorts = {}

\* resolvedPorts and, when replacing, swapProxyRoute.
ResolvePorts ==
    /\ pc = "resolve"
    /\ ~RouteUnavailable
    /\ \/ /\ mode = "fresh"
          /\ StartReturnsPorts(RuntimePorts)
       \/ /\ mode = "replace"
          /\ report' = [NoReport EXCEPT !.ports = RuntimePorts]
          /\ pc' = "retire"
          /\ UNCHANGED retry
    /\ UNCHANGED <<storeVars, apiVars, containers, snap, seen, inspected, todo, cur, prim, new,
                   mode, rm,
                   reconnected, lastReachable, faults>>

ResolvePortsFails ==
    /\ pc = "resolve"
    /\ \/ /\ RouteUnavailable
          /\ NoFault
          /\ StartReturnsError("startFailed", Removed(containers, new))
       \/ /\ Fault
          /\ \E err \in DockerErrors, cs \in CleanedUp : StartReturnsError(err, cs)

\* Mutant: the ids of the two containers are swapped.
RetireNew ==
    /\ pc = "retire"
    /\ \/ containers' = Removed(containers, new) /\ NoFault
       \/ containers' \in StopAndRemoveFailed(containers, new) /\ Fault
    /\ pc' = "rename"
    /\ UNCHANGED <<storeVars, apiVars, passVars, memoryVars>>

\* Mutant: the old container is stopped and not removed.
RetireStopsOnly ==
    /\ pc = "retire"
    /\ containers' = Stopped(containers, prim)
    /\ pc' = "rename"
    /\ UNCHANGED <<storeVars, apiVars, passVars, memoryVars, faults>>

\* A failure here is logged; the replacement goes on.
RetireOld ==
    /\ pc = "retire"
    /\ \/ containers' = Removed(containers, prim) /\ NoFault
       \/ containers' \in StopAndRemoveFailed(containers, prim) /\ Fault
    /\ pc' = "rename"
    /\ UNCHANGED <<storeVars, apiVars, passVars, memoryVars>>

RenameNew ==
    /\ pc = "rename"
    /\ \/ containers' = Renamed(containers, new, snap[cur].name) /\ NoFault
       \/ UNCHANGED containers /\ Fault
    /\ StartReturnsPorts(report.ports)
    /\ UNCHANGED <<storeVars, apiVars, snap, seen, inspected, todo, cur, prim, new, mode, rm,
                   reconnected, lastReachable>>

-----------------------------------------------------------------------------
(* updateStatus and updatePortsAndStatus: patch the store, then notify the *)
(* API.  A failure of either is logged.                                    *)

\* The visit is over; its local variables are gone.
NextVisit ==
    /\ pc' = IF lastReachable = "no" THEN "down" ELSE "each"
    /\ cur' = "none"
    /\ prim' = "none"
    /\ new' = "none"
    /\ mode' = "fresh"
    /\ rm' = {}
    /\ report' = NoReport

PatchStatus ==
    /\ pc = "patch"
    /\ \/ /\ store' = StorePatch(store, cur,
                        Record([name |-> snap[cur].name, image |-> snap[cur].image,
                                ports |-> report.ports, domain |-> snap[cur].domain],
                               report.status, report.err),
                        {"status"} \cup (IF report.setPorts THEN {"ports"} ELSE {}))
          /\ NoFault
       \/ UNCHANGED store /\ Fault
    /\ pc' = "notify"
    /\ UNCHANGED <<used, apiVars, containers, passVars, memoryVars>>

\* The notification reaches the API, which serves it on its own.
NotifyStatus ==
    /\ pc = "notify"
    /\ notif.op = "none"
    /\ notif' = [op |-> "get", id |-> cur, status |-> report.status, err |-> report.err,
                 copy |-> NoDeployment]
    /\ pc' = "await"
    /\ UNCHANGED <<storeVars, req, dashboard, ops, containers, passVars, memoryVars, faults>>

\* The API cannot be reached, or an earlier notification is still being
\* served (bound: one at a time).
NotifyLost ==
    /\ pc = "notify"
    /\ \/ notif.op # "none" /\ NoFault
       \/ Fault
    /\ NextVisit
    /\ UNCHANGED <<storeVars, apiVars, containers, snap, seen, inspected, todo, memoryVars>>

NotifyAnswered ==
    /\ pc = "await"
    /\ notif.op = "none"
    /\ NextVisit
    /\ UNCHANGED <<storeVars, apiVars, containers, snap, seen, inspected, todo, memoryVars,
                   faults>>

\* The client gives up after its timeout while the handler goes on.
NotifyTimesOut ==
    /\ pc = "await"
    /\ notif.op # "none"
    /\ Fault
    /\ NextVisit
    /\ UNCHANGED <<storeVars, apiVars, containers, snap, seen, inspected, todo, memoryVars>>

-----------------------------------------------------------------------------
(* The pass in which the ping failed.                                      *)

ReportUnavailable(d) ==
    /\ pc = "down"
    /\ d \in todo
    /\ todo' = todo \ {d}
    /\ cur' = d
    /\ Say("failed", "unavailable")
    /\ UNCHANGED <<storeVars, apiVars, containers, snap, seen, inspected, prim, new, mode, rm,
                   memoryVars, faults>>

EndDownPass ==
    /\ pc = "down"
    /\ todo = {}
    /\ EndPass
    /\ UNCHANGED <<storeVars, apiVars, containers, lastReachable, retry, faults>>

-----------------------------------------------------------------------------
(* The end of a pass: containers whose deployment the snapshot lacks.      *)

\* Mutant: failed deployments are left out of the set of wanted ids.
OrphansOfFailed ==
    {c \in Existing(seen) :
        seen[c].dep \notin {d \in Stored(snap) : snap[d].status # "failed"}}

\* Mutant: containers without a deployment are not looked for.
NoOrphans == {}

Orphans == {c \in Existing(seen) : seen[c].dep \notin Stored(snap)}

BeginOrphans ==
    /\ pc = "each"
    /\ todo = {}
    /\ rm' = Orphans
    /\ pc' = "orphans"
    /\ UNCHANGED <<storeVars, apiVars, containers, snap, seen, inspected, todo, cur, prim, new,
                   mode, report, memoryVars, faults>>

RemoveOrphan(c) ==
    /\ pc = "orphans"
    /\ c \in rm
    /\ rm' = rm \ {c}
    /\ \/ containers' = Removed(containers, c) /\ NoFault
       \/ containers' \in StopAndRemoveFailed(containers, c) /\ Fault
    /\ UNCHANGED <<storeVars, apiVars, pc, snap, seen, inspected, todo, cur, prim, new, mode,
                   report, memoryVars>>

EndFullPass ==
    /\ pc = "orphans"
    /\ rm = {}
    /\ EndPass
    /\ UNCHANGED <<storeVars, apiVars, containers, lastReachable, retry, faults>>

-----------------------------------------------------------------------------
ReconcileStep ==
    \/ \E elapsed \in {0, 1} : BeginPass(elapsed)
    \/ PingSucceeds
    \/ PingFails
    \/ \E blind \in SUBSET {c \in Existing(containers) : ~containers[c].running} :
            ListContainers(blind)
    \/ ListContainersFails
    \/ \E d \in IDs, p \in CIDs \cup {"none"} : VisitDeployment(d, p)
    \/ \E c \in CIDs : RemoveStale(c)
    \/ RejectReservedDomain
    \/ BeginStart
    \/ NoticeExit
    \/ RecoverRunning
    \/ LeaveAlone
    \/ \E d \in IDs : ReportUnavailable(d)
    \/ EndDownPass
    \/ BeginOrphans
    \/ \E c \in CIDs : RemoveOrphan(c)
    \/ EndFullPass

StartStep ==
    \/ StopBeforeStart
    \/ StopBeforeStartFails
    \/ StartDirectly
    \/ CreateFails
    \/ NameConflict
    \/ \E c \in CIDs : CreateContainer(c)
    \/ StartContainer
    \/ StartContainerFails
    \/ VerifyRunning
    \/ VerifyRunningFails
    \/ ResolvePorts
    \/ ResolvePortsFails
    \/ RetireOld
    \/ RenameNew

ReportStep ==
    \/ PatchStatus
    \/ NotifyStatus
    \/ NotifyLost
    \/ NotifyAnswered
    \/ NotifyTimesOut

OrchestratorStep == ReconcileStep \/ StartStep \/ ReportStep

=============================================================================
