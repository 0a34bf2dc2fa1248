---------------------------- MODULE LotsenProofs ----------------------------
(***************************************************************************)
(* Proofs of the safety properties of module Lotsen, for every value of    *)
(* its constants.  The order: types (with what the local variables of a    *)
(* pass hold, which the types of the containers depend on); deployment     *)
(* ids; the containers and the snapshot of a pass; the containers of the   *)
(* deployment being visited.                                               *)
(***************************************************************************)
EXTENDS LotsenInvariants, FiniteSetTheorems, TLAPS

-----------------------------------------------------------------------------
(* Types.                                                                  *)

(* A record built from a configuration is a deployment.                    *)
LEMMA RecordType ==
    ASSUME NEW c \in Config \cup Deployment, NEW status \in Status, NEW err \in Errors
    PROVE  Record(c, status, err) \in Deployment
  BY DEF Record, Config, Deployment

(* JSONStore.Update keeps the type of the map.                             *)
LEMMA StoreUpdateType ==
    ASSUME NEW s \in [IDs -> Deployment \cup {NoDeployment}], NEW id \in IDs, NEW d \in Deployment
    PROVE  StoreUpdate(s, id, d) \in [IDs -> Deployment \cup {NoDeployment}]
  BY DEF StoreUpdate

(* JSONStore.Patch keeps the type of the map, whatever fields it merges.   *)
LEMMA StorePatchType ==
    ASSUME NEW s \in [IDs -> Deployment \cup {NoDeployment}], NEW id \in IDs, NEW p \in Deployment,
           NEW fields
    PROVE  StorePatch(s, id, p, fields) \in [IDs -> Deployment \cup {NoDeployment}]
  BY DEF StorePatch, Deployment

(* The initial state is typed.                                             *)
LEMMA InitType == Init => TypeOK
<1> SUFFICES ASSUME Init PROVE TypeOK
  OBVIOUS
<1>1. StoreTypeOK
  BY DEF Init, StoreInit, StoreTypeOK
<1>2. APITypeOK
  BY DEF Init, APIInit, APITypeOK, Request, StatusRequest
<1>3. ContainersTypeOK
  BY DEF Init, ContainersInit, ContainersTypeOK
<1>4. OrchestratorTypeOK
  BY DelayAssumption DEF Init, OrchestratorInit, OrchestratorTypeOK, PCs, NoSnap, NoneSeen,
     NoReport, Report, NoRetry, RetryState, Status, Errors
<1> QED
  BY <1>1, <1>2, <1>3, <1>4 DEF TypeOK

(* A request that enters its handler keeps the types.                      *)
LEMMA AcceptType ==
    ASSUME APITypeOK, StoreTypeOK, NEW c \in Clients, NEW r \in Request, Accept(c, r)
    PROVE  APITypeOK' /\ StoreTypeOK'
  BY DEF APITypeOK, StoreTypeOK, Accept, storeVars

(* A handler that answers with a typed store keeps the types.              *)
LEMMA AnswerType ==
    ASSUME APITypeOK, NEW c \in Clients, NEW s \in [IDs -> Deployment \cup {NoDeployment}],
           Answer(c, s), used' \subseteq IDs
    PROVE  APITypeOK' /\ StoreTypeOK'
  BY DEF APITypeOK, StoreTypeOK, Answer, Request

(* A handler that listed the deployments and goes on or refuses keeps the  *)
(* types.                                                                  *)
LEMMA CheckHostPortsType ==
    ASSUME APITypeOK, StoreTypeOK, NEW c \in Clients, UpdateList(c) \/ PatchList(c)
    PROVE  /\ APITypeOK' /\ StoreTypeOK'
           /\ \E r \in Request : r.op # "create" /\ req' = [req EXCEPT ![c] = r]
           /\ UNCHANGED <<store, used>>
<1>1. req[c] \in Request /\ UNCHANGED <<store, used, notif, dashboard, ops>>
  BY DEF APITypeOK, UpdateList, PatchList, CheckHostPorts, storeVars
<1>2. NoRequest \in Request /\ NoRequest.op # "create"
  BY DEF Request, NoRequest
<1>3. \E r \in Request : r.op # "create" /\ req' = [req EXCEPT ![c] = r]
  <2>1. CASE UpdateList(c)
    <3>1. [req[c] EXCEPT !.op = "update"] \in Request
      BY <1>1, <2>1 DEF UpdateList, Request, NoRequest
    <3> QED
      BY <1>1, <1>2, <2>1, <3>1 DEF UpdateList, CheckHostPorts, Request
  <2>2. CASE PatchList(c)
    <3>1. [req[c] EXCEPT !.op = "patch"] \in Request
      BY <1>1, <2>2 DEF PatchList, Request, NoRequest
    <3> QED
      BY <1>1, <1>2, <2>2, <3>1 DEF PatchList, CheckHostPorts, Request
  <2> QED
    BY <2>1, <2>2
<1> QED
  BY <1>1, <1>3 DEF APITypeOK, StoreTypeOK

(* The handlers of the users' requests keep the types.                     *)
LEMMA UserStepType ==
    ASSUME TypeOK, UserStep
    PROVE  APITypeOK' /\ StoreTypeOK'
<1> USE DEF TypeOK
<1>1. ASSUME NEW c \in Clients, NEW id \in IDs, NEW body \in Requested, CreateRead(c, id, body)
      PROVE  APITypeOK' /\ StoreTypeOK'
  BY <1>1, AcceptType, RequestedAssumption DEF CreateRead, Request
<1>2. ASSUME NEW c \in Clients, NEW id \in IDs, NEW body \in Requested, UpdateGet(c, id, body)
      PROVE  APITypeOK' /\ StoreTypeOK'
  BY <1>2, AcceptType, RequestedAssumption DEF UpdateGet, Request, StoreTypeOK
<1>3. ASSUME NEW c \in Clients, NEW id \in IDs, NEW body \in Requested,
             NEW fields \in SUBSET {"image", "ports", "domain"}, PatchGet(c, id, body, fields)
      PROVE  APITypeOK' /\ StoreTypeOK'
  BY <1>3, AcceptType, RequestedAssumption DEF PatchGet, Request, StoreTypeOK
<1>4. ASSUME NEW c \in Clients, NEW id \in IDs, RestartRead(c, id)
      PROVE  APITypeOK' /\ StoreTypeOK'
  BY <1>4, AcceptType DEF RestartRead, Request, StoreTypeOK
<1>5. ASSUME NEW c \in Clients, CreateWrite(c)
      PROVE  APITypeOK' /\ StoreTypeOK'
  <2>1. req[c].id \in IDs /\ req[c].body \in Config
    BY <1>5 DEF CreateWrite, APITypeOK, Request, NoRequest
  <2>2. Record(req[c].body, "deploying", "none") \in Deployment
    BY <2>1, RecordType DEF Status, Errors
  <2>3. StoreCreate(store, req[c].id, Record(req[c].body, "deploying", "none"))
            \in [IDs -> Deployment \cup {NoDeployment}]
    BY <2>1, <2>2 DEF StoreCreate, StoreTypeOK
  <2> QED
    BY <1>5, <2>1, <2>3, AnswerType DEF CreateWrite, StoreTypeOK
<1>6. ASSUME NEW c \in Clients, UpdateWrite(c)
      PROVE  APITypeOK' /\ StoreTypeOK'
  <2>1. req[c].id \in IDs /\ req[c].body \in Config /\ req[c].copy \in Deployment
    BY <1>6 DEF UpdateWrite, APITypeOK, Request, NoRequest
  <2> DEFINE status == IF UpdateRequiresRedeploy(req[c].copy, req[c].body)
                       THEN "deploying" ELSE req[c].copy.status
  <2>2. Record(req[c].body, status, "none") \in Deployment
    BY <2>1, RecordType DEF Status, Errors, Deployment
  <2>3. StoreUpdate(store, req[c].id, Record(req[c].body, status, "none"))
            \in [IDs -> Deployment \cup {NoDeployment}]
    BY <2>1, <2>2, StoreUpdateType DEF StoreTypeOK
  <2> QED
    BY <1>6, <2>3, AnswerType DEF UpdateWrite, StoreTypeOK
<1>7. ASSUME NEW c \in Clients, PatchWrite(c)
      PROVE  APITypeOK' /\ StoreTypeOK'
  <2>1. req[c].id \in IDs /\ req[c].body \in Config
    BY <1>7 DEF PatchWrite, APITypeOK, Request, NoRequest
  <2>2. Record(req[c].body, "deploying", "none") \in Deployment
    BY <2>1, RecordType DEF Status, Errors
  <2>3. \A fields : StorePatch(store, req[c].id, Record(req[c].body, "deploying", "none"), fields)
            \in [IDs -> Deployment \cup {NoDeployment}]
    BY <2>1, <2>2, StorePatchType DEF StoreTypeOK
  <2> QED
    BY <1>7, <2>3, AnswerType DEF PatchWrite, StoreTypeOK
<1>8. ASSUME NEW c \in Clients, RestartWrite(c)
      PROVE  APITypeOK' /\ StoreTypeOK'
  <2>1. req[c].id \in IDs /\ req[c].copy \in Deployment
    BY <1>8 DEF RestartWrite, APITypeOK, Request, NoRequest
  <2>2. Record(req[c].copy, "deploying", "none") \in Deployment
    BY <2>1, RecordType DEF Status, Errors
  <2>3. StorePatch(store, req[c].id, Record(req[c].copy, "deploying", "none"), {"status"})
            \in [IDs -> Deployment \cup {NoDeployment}]
    BY <2>1, <2>2, StorePatchType DEF StoreTypeOK
  <2> QED
    BY <1>8, <2>3, AnswerType DEF RestartWrite, StoreTypeOK
<1>9. ASSUME NEW id \in IDs, DeleteDeployment(id)
      PROVE  APITypeOK' /\ StoreTypeOK'
  BY <1>9 DEF DeleteDeployment, StoreDelete, APITypeOK, StoreTypeOK
<1>10. ASSUME NEW c \in Clients, UpdateList(c) \/ PatchList(c)
       PROVE  APITypeOK' /\ StoreTypeOK'
  BY <1>10, CheckHostPortsType
<1> QED
  BY <1>1, <1>2, <1>3, <1>4, <1>5, <1>6, <1>7, <1>8, <1>9, <1>10 DEF UserStep

(* The handler of the status notification keeps the types.                 *)
LEMMA StatusStepType ==
    ASSUME TypeOK, StatusStep
    PROVE  APITypeOK' /\ StoreTypeOK'
<1>1. CASE UpdateDeploymentStatusGet
  <2>1. notif \in [op : {"get"}, id : IDs, status : Status, err : Errors, copy : {NoDeployment}]
    BY <1>1 DEF UpdateDeploymentStatusGet, TypeOK, APITypeOK, StatusRequest, NoStatusRequest
  <2>2. store[notif.id] \in Deployment \cup {NoDeployment}
    BY <2>1 DEF TypeOK, StoreTypeOK
  <2>3. notif' \in StatusRequest
    BY <1>1, <2>1, <2>2 DEF UpdateDeploymentStatusGet, StatusRequest
  <2> QED
    BY <1>1, <2>3 DEF UpdateDeploymentStatusGet, TypeOK, APITypeOK, StoreTypeOK, storeVars
<1>2. CASE UpdateDeploymentStatusPut
  <2>1. /\ notif.id \in IDs
        /\ Record(notif.copy, notif.status, notif.err) \in Deployment
    BY <1>2, RecordType DEF UpdateDeploymentStatusPut, TypeOK, APITypeOK, StatusRequest,
       NoStatusRequest
  <2> QED
    BY <1>2, <2>1, StoreUpdateType DEF UpdateDeploymentStatusPut, TypeOK, APITypeOK, StoreTypeOK,
       StatusRequest
<1> QED
  BY <1>1, <1>2 DEF StatusStep

ContainerMaps == [CIDs -> Container \cup {NoContainer}]

(* Docker's operations keep the type of the containers.                    *)
LEMMA ContainerOpTypes ==
    ASSUME NEW cs \in ContainerMaps, NEW c \in CIDs
    PROVE  /\ Removed(cs, c) \in ContainerMaps
           /\ Stopped(cs, c) \in ContainerMaps
           /\ \A n \in CNames : Renamed(cs, c, n) \in ContainerMaps
           /\ cs[c] # NoContainer => Started(cs, c) \in ContainerMaps
           /\ \A id \in IDs, d \in Deployment, n \in CNames :
                    Created(cs, c, id, d, n) \in ContainerMaps
  BY DEF ContainerMaps, Container, Deployment, Removed, Stopped, Renamed, Started, Created

(* What ContainerCreate adds, and that it touches no other container.      *)
LEMMA CreatedContainer ==
    ASSUME NEW cs \in ContainerMaps, NEW c \in CIDs, NEW id \in IDs, NEW d \in Deployment,
           NEW n \in CNames
    PROVE  /\ Created(cs, c, id, d, n)[c] # NoContainer
           /\ Created(cs, c, id, d, n)[c].dep = id
           /\ Created(cs, c, id, d, n)[c].image = d.image
           /\ \A k \in CIDs : k # c => Created(cs, c, id, d, n)[k] = cs[k]
<1> DEFINE r == [dep |-> id, image |-> d.image, ports |-> d.ports, name |-> n, running |-> FALSE]
<1>1. r \in Container
  BY DEF Container, Deployment
<1>2. Created(cs, c, id, d, n) = [cs EXCEPT ![c] = r]
  BY DEF Created
<1>3. r.dep = id /\ r.image = d.image
  OBVIOUS
<1> HIDE DEF r
<1> QED
  BY <1>1, <1>2, <1>3, NoContainerAssumption DEF ContainerMaps

(* clearRetryState and recordRetryFailure keep the type of the retry       *)
(* states.                                                                 *)
LEMMA RetryTypes ==
    ASSUME retry \in [IDs -> RetryState], NEW d \in IDs
    PROVE  /\ ClearRetryState(d) \in [IDs -> RetryState]
           /\ RecordRetryFailure(d) \in [IDs -> RetryState]
  BY DelayAssumption DEF RetryState, NoRetry, ClearRetryState, RecordRetryFailure

(* A start that fails keeps the types.                                     *)
LEMMA StartReturnsErrorType ==
    ASSUME TypeOK, VisitOK, pc \in VisitPCs \ {"visit"}, NEW err \in Errors,
           NEW cs \in ContainerMaps, StartReturnsError(err, cs), faults' \in Nat
    PROVE  TypeOK' /\ VisitOK'
<1> USE DEF TypeOK, VisitOK
<1>1. cur \in IDs
  BY DEF Stored
<1>2. retry' \in [IDs -> RetryState]
  BY <1>1, RetryTypes DEF StartReturnsError, OrchestratorTypeOK
<1>3. report' \in Report /\ pc' = "patch"
  BY DEF StartReturnsError, Say, Report, Status
<1>4. containers' \in ContainerMaps
  BY DEF StartReturnsError
<1>5. TypeOK'
  BY <1>2, <1>3, <1>4 DEF StartReturnsError, StoreTypeOK, APITypeOK, ContainersTypeOK,
     ContainerMaps,
     OrchestratorTypeOK, storeVars, apiVars, PCs
<1>6. VisitOK'
  BY <1>3 DEF StartReturnsError, VisitPCs, StartingPCs, Stored
<1> QED
  BY <1>5, <1>6

(* A start that succeeds makes a typed report.                             *)
LEMMA StartReturnsPortsType ==
    ASSUME TypeOK, VisitOK, pc \in VisitPCs, NEW ports \in SUBSET Ports, StartReturnsPorts(ports)
    PROVE  report' \in Report /\ pc' = "patch" /\ retry' \in [IDs -> RetryState]
<1>1. cur \in IDs
  BY DEF Stored, VisitOK
<1> QED
  BY <1>1, RetryTypes DEF StartReturnsPorts, Report, Status, Errors, TypeOK, OrchestratorTypeOK


(* The end of a pass, or of the process, resets every local variable.      *)
LEMMA EndPassType ==
    ASSUME TypeOK, EndPass, storeVars' = storeVars, APITypeOK', containers' = containers,
           lastReachable' \in {"unknown", "yes", "no"}, retry' \in [IDs -> RetryState],
           faults' \in Nat
    PROVE  TypeOK' /\ VisitOK'
<1>1. StoreTypeOK' /\ ContainersTypeOK'
  BY DEF TypeOK, StoreTypeOK, ContainersTypeOK, storeVars
<1>2. OrchestratorTypeOK'
  BY DEF EndPass, OrchestratorTypeOK, NoSnap, NoneSeen, NoReport, Report, Status, Errors, PCs
<1>3. VisitOK'
  BY DEF EndPass, VisitOK, VisitPCs, StartingPCs
<1> QED
  BY <1>1, <1>2, <1>3 DEF TypeOK


(* The steps of Reconcile keep the types.                                  *)
LEMMA ReconcileStepType ==
    ASSUME TypeOK, VisitOK, ReconcileStep
    PROVE  TypeOK' /\ VisitOK'
<1> USE DEF TypeOK, StoreTypeOK, APITypeOK, ContainersTypeOK, OrchestratorTypeOK, VisitOK,
        VisitPCs, StartingPCs, PCs, Stored, Existing, storeVars, apiVars, passVars, memoryVars,
        Fault, NoFault
<1>1. ASSUME NEW elapsed \in {0, 1}, BeginPass(elapsed)
      PROVE  TypeOK' /\ VisitOK'
  BY <1>1 DEF BeginPass, RetryState
<1>2. CASE PingSucceeds
  BY <1>2 DEF PingSucceeds
<1>3. CASE PingFails
  BY <1>3 DEF PingFails
<1>4. ASSUME NEW blind, ListContainers(blind)
      PROVE  TypeOK' /\ VisitOK'
  BY <1>4 DEF ListContainers
<1>5. CASE ListContainersFails
  BY <1>5, EndPassType DEF ListContainersFails
<1>6. ASSUME NEW d \in IDs, NEW p \in CIDs \cup {"none"}, VisitDeployment(d, p)
      PROVE  TypeOK' /\ VisitOK'
  BY <1>6, RetryTypes DEF VisitDeployment, Candidates
<1>7. ASSUME NEW c \in CIDs, RemoveStale(c)
      PROVE  TypeOK' /\ VisitOK'
  BY <1>7, ContainerOpTypes DEF RemoveStale, StopAndRemoveFailed, ContainerMaps
<1>8. CASE RejectReservedDomain
  BY <1>8 DEF RejectReservedDomain, Say, Deciding, Report, Status, Errors
<1>9. CASE BeginStart
  BY <1>9 DEF BeginStart, Deciding
<1>10. CASE NoticeExit
  BY <1>10 DEF NoticeExit, Say, Deciding, Report, Status, Errors
<1>11. CASE RecoverRunning
  BY <1>11, RetryTypes DEF RecoverRunning, Say, Deciding, Report, Status, Errors
<1>12. CASE LeaveAlone
  BY <1>12 DEF LeaveAlone, Deciding
<1>13. ASSUME NEW d \in IDs, ReportUnavailable(d)
      PROVE  TypeOK' /\ VisitOK'
  BY <1>13 DEF ReportUnavailable, Say, Report, Status, Errors
<1>14. CASE EndDownPass
  BY <1>14, EndPassType DEF EndDownPass
<1>15. CASE BeginOrphans
  BY <1>15 DEF BeginOrphans, Orphans
<1>16. ASSUME NEW c \in CIDs, RemoveOrphan(c)
      PROVE  TypeOK' /\ VisitOK'
  BY <1>16, ContainerOpTypes DEF RemoveOrphan, StopAndRemoveFailed, ContainerMaps
<1>17. CASE EndFullPass
  BY <1>17, EndPassType DEF EndFullPass
<1> QED
  BY <1>1, <1>2, <1>3, <1>4, <1>5, <1>6, <1>7, <1>8, <1>9, <1>10, <1>11, <1>12, <1>13, <1>14,
     <1>15, <1>16, <1>17 DEF ReconcileStep

(* The steps of Start and StartAndReplace keep the types.                  *)
LEMMA StartStepType ==
    ASSUME TypeOK, VisitOK, StartStep
    PROVE  TypeOK' /\ VisitOK'
<1> USE DEF TypeOK, StoreTypeOK, APITypeOK, ContainersTypeOK, OrchestratorTypeOK, VisitOK,
        VisitPCs, StartingPCs, PCs, Stored, Existing, storeVars, apiVars, passVars, memoryVars,
        Fault, NoFault
<1>1. CASE StopBeforeStart
  BY <1>1 DEF StopBeforeStart, Removed
<1>2. CASE StopBeforeStartFails
  BY <1>2, StartReturnsErrorType, ContainerOpTypes DEF StopBeforeStartFails, DockerErrors,
     Errors, ContainerMaps, ShouldStopBeforeStart, StopAndRemoveFailed
<1>3. CASE StartDirectly
  BY <1>3 DEF StartDirectly
<1>4. CASE CreateFails
  BY <1>4, StartReturnsErrorType, ContainerOpTypes DEF CreateFails, DockerErrors, Errors,
     ContainerMaps
<1>5. CASE NameConflict
  BY <1>5, StartReturnsErrorType, ContainerOpTypes DEF NameConflict, DockerErrors, Errors,
     ContainerMaps
<1>6. ASSUME NEW c \in CIDs, CreateContainer(c)
      PROVE  TypeOK' /\ VisitOK'
  <2>1. cur \in IDs /\ snap[cur] \in Deployment /\ ContainerName \in CNames
    BY <1>6, NextNameAssumption DEF CreateContainer, ContainerName, Deployment
  <2>2. containers' \in ContainerMaps
    BY <1>6, <2>1, ContainerOpTypes DEF CreateContainer, ContainerMaps
  <2>3. containers'[c] # NoContainer
    BY <1>6, <2>1, CreatedContainer DEF CreateContainer, ContainerMaps
  <2> QED
    BY <1>6, <2>2, <2>3 DEF CreateContainer, ContainerMaps
<1>7. CASE StartContainer
  BY <1>7, ContainerOpTypes DEF StartContainer, ContainerMaps, Started
<1>8. CASE StartContainerFails
  BY <1>8, StartReturnsErrorType, ContainerOpTypes DEF StartContainerFails, DockerErrors, Errors,
     ContainerMaps, CleanedUp
<1>9. CASE VerifyRunning
  BY <1>9 DEF VerifyRunning
<1>10. CASE VerifyRunningFails
  BY <1>10, StartReturnsErrorType, ContainerOpTypes DEF VerifyRunningFails, DockerErrors, Errors,
     ContainerMaps, CleanedUp
<1>11. CASE ResolvePorts
  BY <1>11, StartReturnsPortsType DEF ResolvePorts, RuntimePorts, PortsBound, Running, Container,
     NoReport, Report, Status, Errors
<1>12. CASE ResolvePortsFails
  BY <1>12, StartReturnsErrorType, ContainerOpTypes DEF ResolvePortsFails, DockerErrors, Errors,
     ContainerMaps, CleanedUp
<1>13. CASE RetireOld
  BY <1>13, ContainerOpTypes DEF RetireOld, StopAndRemoveFailed, ContainerMaps
<1>14. CASE RenameNew
  <2>1. new \in CIDs /\ snap[cur].name \in CNames
    BY <1>14, NextNameAssumption DEF RenameNew, Deployment
  <2>2. Renamed(containers, new, snap[cur].name) \in ContainerMaps
    BY <2>1, ContainerOpTypes DEF ContainerMaps
  <2>3. report.ports \in SUBSET Ports
    BY DEF Report
  <2>4. report' \in Report /\ pc' = "patch" /\ retry' \in [IDs -> RetryState]
    BY <1>14, <2>3, StartReturnsPortsType DEF RenameNew
  <2> QED
    BY <1>14, <2>2, <2>4 DEF RenameNew, ContainerMaps
<1> QED
  BY <1>1, <1>2, <1>3, <1>4, <1>5, <1>6, <1>7, <1>8, <1>9, <1>10, <1>11, <1>12, <1>13, <1>14 DEF
     StartStep

(* The steps of updateStatus and updatePortsAndStatus keep the types.      *)
LEMMA ReportStepType ==
    ASSUME TypeOK, VisitOK, ReportStep
    PROVE  TypeOK' /\ VisitOK'
<1> USE DEF TypeOK, StoreTypeOK, APITypeOK, ContainersTypeOK, OrchestratorTypeOK, VisitOK,
        VisitPCs, StartingPCs, PCs, Stored, Existing, storeVars, apiVars, passVars, memoryVars,
        Fault, NoFault
<1>1. CASE PatchStatus
  <2> DEFINE config == [name |-> snap[cur].name, image |-> snap[cur].image, ports |-> report.ports,
                        domain |-> snap[cur].domain]
  <2>1. cur \in IDs /\ config \in Config /\ report.status \in Status /\ report.err \in Errors
    BY <1>1 DEF PatchStatus, Report, Deployment, Config
  <2>2. Record(config, report.status, report.err) \in Deployment
    BY <2>1, RecordType
  <2>3. store' \in [IDs -> Deployment \cup {NoDeployment}]
    BY <1>1, <2>1, <2>2, StorePatchType DEF PatchStatus
  <2> QED
    BY <1>1, <2>3 DEF PatchStatus
<1>2. CASE NotifyStatus
  BY <1>2 DEF NotifyStatus, StatusRequest, Report
<1>3. CASE NotifyLost
  BY <1>3 DEF NotifyLost, NextVisit, NoReport, Report, Status, Errors
<1>4. CASE NotifyAnswered
  BY <1>4 DEF NotifyAnswered, NextVisit, NoReport, Report, Status, Errors
<1>5. CASE NotifyTimesOut
  BY <1>5 DEF NotifyTimesOut, NextVisit, NoReport, Report, Status, Errors
<1> QED
  BY <1>1, <1>2, <1>3, <1>4, <1>5 DEF ReportStep

(* Stopping, starting and renaming a container change nothing that tells   *)
(* whose it is, and no other container.                                    *)
SameContainer(cs, ds, k) ==
    /\ ds[k] # NoContainer <=> cs[k] # NoContainer
    /\ cs[k] # NoContainer => ds[k].dep = cs[k].dep /\ ds[k].image = cs[k].image

(* Only a removal takes a container away, and only the one it names.       *)
LEMMA SameContainers ==
    ASSUME NEW cs \in ContainerMaps, NEW c \in CIDs, NEW k \in CIDs
    PROVE  /\ SameContainer(cs, Stopped(cs, c), k)
           /\ \A n \in CNames : SameContainer(cs, Renamed(cs, c, n), k)
           /\ cs[c] # NoContainer => SameContainer(cs, Started(cs, c), k)
           /\ k # c => SameContainer(cs, Removed(cs, c), k)
           /\ Removed(cs, c)[c] = NoContainer
<1> USE DEF ContainerMaps, SameContainer
<1>1. ASSUME cs[c] # NoContainer, NEW b \in BOOLEAN
      PROVE  [cs[c] EXCEPT !.running = b] \in Container
  BY <1>1 DEF Container
<1>2. ASSUME cs[c] # NoContainer, NEW n \in CNames
      PROVE  [cs[c] EXCEPT !.name = n] \in Container
  BY <1>2 DEF Container
<1>3. SameContainer(cs, Stopped(cs, c), k)
  BY <1>1, NoContainerAssumption DEF Stopped, Container
<1>4. \A n \in CNames : SameContainer(cs, Renamed(cs, c, n), k)
  BY <1>2, NoContainerAssumption DEF Renamed, Container
<1>5. cs[c] # NoContainer => SameContainer(cs, Started(cs, c), k)
  BY <1>1, NoContainerAssumption DEF Started, Container
<1> QED
  BY <1>3, <1>4, <1>5 DEF Removed

(* Exits, kills and restarts keep the types.                               *)
LEMMA EnvironmentStepType ==
    ASSUME TypeOK, VisitOK, EnvironmentStep
    PROVE  TypeOK' /\ VisitOK'
<1>1. ASSUME NEW c \in CIDs, ContainerExits(c)
      PROVE  TypeOK' /\ VisitOK'
  <2>1. containers' \in ContainerMaps /\ faults' \in Nat
    BY <1>1, ContainerOpTypes DEF ContainerExits, Fault, TypeOK, ContainersTypeOK, ContainerMaps,
       OrchestratorTypeOK
  <2>2. \A k \in CIDs : SameContainer(containers, containers', k)
    BY <1>1, SameContainers DEF ContainerExits, TypeOK, ContainersTypeOK, ContainerMaps
  <2>3. TypeOK'
    BY <1>1, <2>1 DEF ContainerExits, TypeOK, StoreTypeOK, APITypeOK, ContainersTypeOK,
       ContainerMaps, OrchestratorTypeOK, storeVars, apiVars, passVars, memoryVars
  <2>4. VisitOK'
    BY <1>1, <2>2 DEF ContainerExits, VisitOK, StartingPCs, SameContainer, passVars, Stored
  <2> QED
    BY <2>3, <2>4
<1>2. [d \in IDs |-> NoRetry] \in [IDs -> RetryState]
  BY DelayAssumption DEF NoRetry, RetryState
<1>3. CASE KillOrchestrator
  BY <1>2, <1>3, EndPassType DEF KillOrchestrator, OrchestratorRestarts, TypeOK, APITypeOK, apiVars,
     storeVars, Fault, OrchestratorTypeOK
<1>4. [c \in Clients |-> NoRequest] \in [Clients -> Request] /\ NoStatusRequest \in StatusRequest
  BY DEF Request, StatusRequest
<1>5. CASE KillAPI
  BY <1>4, <1>5 DEF KillAPI, Fault, TypeOK, StoreTypeOK, APITypeOK, ContainersTypeOK,
     OrchestratorTypeOK, VisitOK, VisitPCs, StartingPCs, Stored, storeVars, passVars, memoryVars
<1>6. ASSUME NEW domain \in Domains, ConfigureDashboard(domain)
      PROVE  TypeOK' /\ VisitOK'
  <2>1. APITypeOK'
    BY <1>4, <1>6 DEF ConfigureDashboard, TypeOK, APITypeOK
  <2> QED
    BY <1>2, <1>6, <2>1, EndPassType DEF ConfigureDashboard, OrchestratorRestarts, TypeOK, Fault,
       OrchestratorTypeOK
<1> QED
  BY <1>1, <1>3, <1>5, <1>6 DEF EnvironmentStep

(* Every step keeps the types and what the local variables of a pass hold. *)
LEMMA NextType ==
    ASSUME TypeOK, VisitOK, [Next]_vars
    PROVE  TypeOK' /\ VisitOK'
<1>1. CASE APIStep
  <2>1. APITypeOK' /\ StoreTypeOK'
    BY <1>1, UserStepType, StatusStepType DEF APIStep
  <2> QED
    BY <1>1, <2>1 DEF APIStep, TypeOK, ContainersTypeOK, OrchestratorTypeOK, VisitOK, VisitPCs,
       StartingPCs, Stored, orchestratorVars, passVars, memoryVars
<1>2. CASE OrchestratorStep
  BY <1>2, ReconcileStepType, StartStepType, ReportStepType DEF OrchestratorStep
<1>3. CASE EnvironmentStep
  BY <1>3, EnvironmentStepType
<1>4. CASE UNCHANGED vars
  BY <1>4 DEF vars, TypeOK, StoreTypeOK, APITypeOK, ContainersTypeOK, OrchestratorTypeOK, VisitOK,
     VisitPCs, StartingPCs, Stored, storeVars, apiVars, orchestratorVars, passVars, memoryVars
<1> QED
  BY <1>1, <1>2, <1>3, <1>4 DEF Next

(* Every variable keeps its type: in particular a start always has a       *)
(* deployment of the snapshot to work on and the container it created.     *)
THEOREM TypeCorrect == Spec => []TypeOK
<1>1. Init => TypeOK /\ VisitOK
  BY InitType DEF Init, OrchestratorInit, VisitOK, VisitPCs, StartingPCs
<1>2. TypeOK /\ VisitOK /\ [Next]_vars => (TypeOK /\ VisitOK)'
  BY NextType
<1> QED
  BY <1>1, <1>2, PTL DEF Spec

-----------------------------------------------------------------------------
(* Deployment ids.                                                         *)

(* The store operations that the code refuses for an absent id.            *)
LEMMA StoreOpsKeepAbsent ==
    ASSUME NEW s \in [IDs -> Deployment \cup {NoDeployment}], NEW id \in IDs, NEW p, NEW fields,
           NEW d \in IDs, s[d] = NoDeployment
    PROVE  /\ StoreUpdate(s, id, p)[d] = NoDeployment
           /\ StorePatch(s, id, p, fields)[d] = NoDeployment
           /\ StoreDelete(s, id)[d] = NoDeployment
  BY DEF StoreUpdate, StorePatch, StoreDelete

(* The orchestrator draws no ids, serves no requests and writes the store  *)
(* only when it patches a status.                                          *)
LEMMA OrchestratorFrame ==
    ASSUME OrchestratorStep
    PROVE  /\ UNCHANGED <<used, req>>
           /\ UNCHANGED store \/ PatchStatus
<1> USE DEF storeVars, apiVars
<1>1. CASE ReconcileStep
  BY <1>1 DEF ReconcileStep, BeginPass, PingSucceeds, PingFails, ListContainers,
     ListContainersFails, VisitDeployment, RemoveStale, RejectReservedDomain, BeginStart,
     NoticeExit, RecoverRunning, LeaveAlone, ReportUnavailable, EndDownPass, BeginOrphans,
     RemoveOrphan, EndFullPass
<1>2. CASE StartStep
  BY <1>2 DEF StartStep, StopBeforeStart, StopBeforeStartFails, StartDirectly, CreateFails,
     NameConflict, CreateContainer, StartContainer, StartContainerFails, VerifyRunning,
     VerifyRunningFails, ResolvePorts, ResolvePortsFails, RetireOld, RenameNew, StartReturnsError
<1>3. CASE ReportStep
  BY <1>3 DEF ReportStep, PatchStatus, NotifyStatus, NotifyLost, NotifyAnswered, NotifyTimesOut
<1> QED
  BY <1>1, <1>2, <1>3 DEF OrchestratorStep

(* What a step does to the ids: a create that completes stores one that no *)
(* request and no record has had, and nothing else stores an absent id.    *)
LEMMA IDsStep ==
    ASSUME TypeOK, VisitOK, FreshIDs, [Next]_vars
    PROVE  /\ FreshIDs'
           /\ used \subseteq used'
           /\ \A d \in IDs : store[d] = NoDeployment /\ store'[d] # NoDeployment
                                => d \in used' \ used
<1> DEFINE Goal == /\ FreshIDs'
                   /\ used \subseteq used'
                   /\ \A d \in IDs : store[d] = NoDeployment /\ store'[d] # NoDeployment
                                => d \in used' \ used
<1> USE DEF TypeOK
<1>0. ASSUME UNCHANGED <<used, req>>, store' = store PROVE Goal
  BY <1>0 DEF FreshIDs
<1>1. ASSUME NEW c \in Clients, NEW r \in Request, Accept(c, r), r.op # "create" PROVE Goal
  <2>1. req' = [req EXCEPT ![c] = r] /\ UNCHANGED <<used, store>>
    BY <1>1 DEF Accept, storeVars
  <2> QED
    BY <1>1, <2>1 DEF FreshIDs, APITypeOK
<1>2. ASSUME NEW c \in Clients, NEW s \in [IDs -> Deployment \cup {NoDeployment}], Answer(c, s),
             used' = used, \A d \in IDs : store[d] = NoDeployment => s[d] = NoDeployment
      PROVE Goal
  BY <1>2 DEF Answer, FreshIDs, APITypeOK, NoRequest
<1>3. CASE UserStep
  <2>1. ASSUME NEW c \in Clients, NEW id \in IDs, NEW body \in Requested, CreateRead(c, id, body)
        PROVE  Goal
    BY <2>1 DEF CreateRead, Accept, FreshIDs, APITypeOK, storeVars
  <2>2. ASSUME NEW c \in Clients, NEW id \in IDs, NEW body \in Requested, UpdateGet(c, id, body)
        PROVE  Goal
    BY <2>2, <1>1, RequestedAssumption DEF UpdateGet, Request, StoreTypeOK
  <2>3. ASSUME NEW c \in Clients, NEW id \in IDs, NEW body \in Requested,
               NEW fields \in SUBSET {"image", "ports", "domain"}, PatchGet(c, id, body, fields)
        PROVE  Goal
    BY <2>3, <1>1, RequestedAssumption DEF PatchGet, Request, StoreTypeOK
  <2>4. ASSUME NEW c \in Clients, NEW id \in IDs, RestartRead(c, id)
        PROVE  Goal
    BY <2>4, <1>1 DEF RestartRead, Request, StoreTypeOK
  <2>5. ASSUME NEW c \in Clients, CreateWrite(c)
        PROVE  Goal
    <3>1. req[c].id \in IDs \ used
      BY <2>5 DEF CreateWrite, FreshIDs, APITypeOK, Request, NoRequest
    <3>2. FreshIDs'
      BY <2>5 DEF CreateWrite, Answer, FreshIDs, APITypeOK, NoRequest
    <3>3. used' = used \cup {req[c].id}
      BY <2>5 DEF CreateWrite
    <3>4. \A d \in IDs : d # req[c].id => store'[d] = store[d]
      BY <2>5 DEF CreateWrite, Answer, StoreCreate, StoreTypeOK
    <3> QED
      BY <3>1, <3>2, <3>3, <3>4
  <2>6. ASSUME NEW c \in Clients, UpdateWrite(c)
        PROVE  Goal
    <3>1. /\ req[c].id \in IDs
          /\ req' = [req EXCEPT ![c] = NoRequest]
          /\ used' = used
          /\ \E p : store' = StoreUpdate(store, req[c].id, p)
      BY <2>6 DEF UpdateWrite, Answer, APITypeOK, Request, NoRequest
    <3> QED
      BY <3>1, StoreOpsKeepAbsent DEF FreshIDs, APITypeOK, NoRequest, StoreTypeOK
  <2>7. ASSUME NEW c \in Clients, PatchWrite(c) \/ RestartWrite(c)
        PROVE  Goal
    <3>1. /\ req[c].id \in IDs
          /\ req' = [req EXCEPT ![c] = NoRequest]
          /\ used' = used
          /\ \E p, fields : store' = StorePatch(store, req[c].id, p, fields)
      BY <2>7 DEF PatchWrite, RestartWrite, Answer, APITypeOK, Request, NoRequest
    <3> QED
      BY <3>1, StoreOpsKeepAbsent DEF FreshIDs, APITypeOK, NoRequest, StoreTypeOK
  <2>8. ASSUME NEW id \in IDs, DeleteDeployment(id)
        PROVE  Goal
    BY <2>8, StoreOpsKeepAbsent DEF DeleteDeployment, FreshIDs, StoreTypeOK
  <2>9. ASSUME NEW c \in Clients, UpdateList(c) \/ PatchList(c)
        PROVE  Goal
    BY <2>9, CheckHostPortsType DEF FreshIDs, APITypeOK
  <2> QED
    BY <1>3, <2>1, <2>2, <2>3, <2>4, <2>5, <2>6, <2>7, <2>8, <2>9 DEF UserStep
<1>4. CASE StatusStep
  <2>1. CASE UpdateDeploymentStatusGet
    BY <2>1, <1>0 DEF UpdateDeploymentStatusGet, storeVars
  <2>2. CASE UpdateDeploymentStatusPut
    <3>1. notif.id \in IDs
      BY <2>2 DEF UpdateDeploymentStatusPut, APITypeOK, StatusRequest, NoStatusRequest
    <3> QED
      BY <2>2, <3>1, StoreOpsKeepAbsent DEF UpdateDeploymentStatusPut, FreshIDs, StoreTypeOK
  <2> QED
    BY <1>4, <2>1, <2>2 DEF StatusStep
<1>5. CASE OrchestratorStep
  <2>1. CASE PatchStatus
    <3>1. cur \in IDs
      BY <2>1 DEF PatchStatus, VisitOK, VisitPCs, Stored
    <3> QED
      BY <1>5, <2>1, <3>1, OrchestratorFrame, StoreOpsKeepAbsent
         DEF PatchStatus, FreshIDs, StoreTypeOK
  <2> QED
    BY <1>0, <1>5, <2>1, OrchestratorFrame
<1>6. CASE EnvironmentStep
  BY <1>6 DEF EnvironmentStep, ContainerExits, KillOrchestrator, KillAPI, ConfigureDashboard,
     storeVars, apiVars, FreshIDs, NoRequest
<1>7. CASE UNCHANGED vars
  BY <1>0, <1>7 DEF vars, storeVars, apiVars
<1> QED
  BY <1>3, <1>4, <1>5, <1>6, <1>7 DEF Next, APIStep

(* Ids that are dead stay dead.                                            *)
LEMMA DeadStays ==
    ASSUME TypeOK, VisitOK, FreshIDs, [Next]_vars, NEW d \in IDs, Dead(d)
    PROVE  Dead(d)'
  BY IDsStep DEF Dead

(* A deleted deployment never comes back, whatever late writes of requests *)
(* and passes that still hold a copy of it do (NoResurrection).            *)
THEOREM NoResurrectionHolds == Spec => NoResurrection
<1>1. Init => TypeOK /\ VisitOK /\ FreshIDs
  BY InitType DEF Init, APIInit, NoRequest, FreshIDs, OrchestratorInit, VisitOK, VisitPCs,
     StartingPCs
<1>2. TypeOK /\ VisitOK /\ FreshIDs /\ [Next]_vars => (TypeOK /\ VisitOK /\ FreshIDs)'
  BY NextType, IDsStep
<1>3. TypeOK /\ VisitOK /\ FreshIDs /\ [Next]_vars
        => [\A d \in used : store[d] = NoDeployment => store'[d] = NoDeployment]_vars
  BY DeadStays DEF Dead, TypeOK, StoreTypeOK
<1> QED
  BY <1>1, <1>2, <1>3, PTL DEF Spec, NoResurrection

-----------------------------------------------------------------------------
(* Containers and the snapshot of a pass.                                  *)

(* How a step changes the container k: it is left as it is up to running   *)
(* and name, it goes, or the visit creates it for the deployment of the    *)
(* snapshot being visited.                                                 *)
KeptOrGone(k) == containers'[k] # NoContainer => SameContainer(containers, containers', k)

CreatedNow(k) ==
    /\ pc = "create"
    /\ pc' = "run"
    /\ UNCHANGED <<snap, seen, cur, prim, mode, storeVars>>
    /\ new' = k
    /\ seen[k] = NoContainer
    /\ containers'[k] # NoContainer
    /\ containers'[k].dep = cur
    /\ containers'[k].image = snap[cur].image

(* ContainerCreate during a visit is such a creation.                      *)
LEMMA CreateContainerStep ==
    ASSUME TypeOK, VisitOK, NEW c \in CIDs, CreateContainer(c)
    PROVE  CreatedNow(c) /\ \A k \in CIDs : k # c => KeptOrGone(k)
<1>1. cur \in IDs /\ snap[cur] \in Deployment /\ ContainerName \in CNames
  BY NextNameAssumption DEF CreateContainer, ContainerName, TypeOK, OrchestratorTypeOK, VisitOK,
     VisitPCs, Stored, Deployment
<1>2. containers \in ContainerMaps
  BY DEF TypeOK, ContainersTypeOK, ContainerMaps
<1>3. CreatedNow(c)
  BY <1>1, <1>2, CreatedContainer DEF CreateContainer, CreatedNow, storeVars
<1>4. ASSUME NEW k \in CIDs, k # c PROVE KeptOrGone(k)
  BY <1>1, <1>2, <1>4, CreatedContainer DEF CreateContainer, KeptOrGone, SameContainer
<1> QED
  BY <1>3, <1>4

(* Every step keeps, removes or creates containers as described above.     *)
LEMMA ContainersStep ==
    ASSUME TypeOK, VisitOK, [Next]_vars, NEW k \in CIDs
    PROVE  KeptOrGone(k) \/ CreatedNow(k)
<1>0. containers \in ContainerMaps
  BY DEF TypeOK, ContainersTypeOK, ContainerMaps
<1>1. ASSUME containers' = containers PROVE KeptOrGone(k)
  BY <1>1 DEF KeptOrGone, SameContainer
<1>2. ASSUME NEW c \in CIDs, containers' = Removed(containers, c) PROVE KeptOrGone(k)
  BY <1>0, <1>2, SameContainers DEF KeptOrGone
<1>3. ASSUME NEW c \in CIDs, containers' = Stopped(containers, c) PROVE KeptOrGone(k)
  BY <1>0, <1>3, SameContainers DEF KeptOrGone
<1>4. ASSUME NEW c \in CIDs, containers' \in StopAndRemoveFailed(containers, c) PROVE KeptOrGone(k)
  BY <1>1, <1>3, <1>4 DEF StopAndRemoveFailed
<1>5. ASSUME new \in CIDs, containers' \in CleanedUp PROVE KeptOrGone(k)
  BY <1>1, <1>2, <1>3, <1>5 DEF CleanedUp
<1>6. CASE ReconcileStep
  <2>1. ASSUME NEW c \in CIDs, RemoveStale(c) \/ RemoveOrphan(c) PROVE KeptOrGone(k)
    BY <2>1, <1>2, <1>4 DEF RemoveStale, RemoveOrphan
  <2> QED
    BY <1>1, <1>6, <2>1 DEF ReconcileStep, BeginPass, PingSucceeds, PingFails, ListContainers,
       ListContainersFails, VisitDeployment, RejectReservedDomain, BeginStart,
       NoticeExit, RecoverRunning, LeaveAlone, ReportUnavailable, EndDownPass, BeginOrphans,
       EndFullPass
<1>7. CASE StartStep
  <2>1. CASE StopBeforeStart \/ StopBeforeStartFails \/ RetireOld
    <3>1. prim \in CIDs
      BY <2>1 DEF StopBeforeStart, StopBeforeStartFails, RetireOld, ShouldStopBeforeStart, VisitOK
    <3> QED
      BY <2>1, <3>1, <1>2, <1>4 DEF StopBeforeStart, StopBeforeStartFails, RetireOld,
         StartReturnsError
  <2>2. CASE StartContainerFails \/ VerifyRunningFails \/ ResolvePortsFails
    <3>1. new \in CIDs
      BY <2>2 DEF StartContainerFails, VerifyRunningFails, ResolvePortsFails, VisitOK, StartingPCs
    <3> QED
      BY <2>2, <3>1, <1>1, <1>2, <1>5 DEF StartContainerFails, VerifyRunningFails,
         ResolvePortsFails, StartReturnsError
  <2>3. ASSUME NEW c \in CIDs, CreateContainer(c)
        PROVE  KeptOrGone(k) \/ CreatedNow(k)
    BY <2>3, CreateContainerStep
  <2>4. CASE StartContainer
    BY <2>4, <1>0, SameContainers DEF StartContainer, KeptOrGone, VisitOK, StartingPCs
  <2>5. CASE RenameNew
    <3>1. new \in CIDs /\ snap[cur].name \in CNames
      BY <2>5, NextNameAssumption DEF RenameNew, VisitOK, VisitPCs, StartingPCs, Stored, TypeOK,
         OrchestratorTypeOK, Deployment
    <3> QED
      BY <2>5, <3>1, <1>0, <1>1, SameContainers DEF RenameNew, KeptOrGone
  <2> QED
    BY <1>1, <1>7, <2>1, <2>2, <2>3, <2>4, <2>5 DEF StartStep, StartDirectly, CreateFails,
       NameConflict, VerifyRunning, ResolvePorts, StartReturnsError
<1>8. CASE ReportStep
  BY <1>1, <1>8 DEF ReportStep, PatchStatus, NotifyStatus, NotifyLost, NotifyAnswered,
     NotifyTimesOut
<1>9. CASE EnvironmentStep
  BY <1>1, <1>3, <1>9 DEF EnvironmentStep, ContainerExits, KillOrchestrator, KillAPI,
     ConfigureDashboard
<1>10. CASE APIStep
  BY <1>1, <1>10 DEF APIStep
<1>11. CASE UNCHANGED vars
  BY <1>1, <1>11 DEF vars
<1> QED
  BY <1>6, <1>7, <1>8, <1>9, <1>10, <1>11 DEF Next, OrchestratorStep

(* How a step changes the pass.                                            *)
PassGoesOn ==
    /\ UNCHANGED <<snap, seen>>
    /\ pc = "idle" <=> pc' = "idle"
    /\ pc' = "ping" => pc = "ping"
    /\ todo' \subseteq todo \/ pc = "ping"
    /\ (pc' = "orphans" /\ pc = "orphans") => rm' \subseteq rm
    /\ (pc' = "orphans" /\ pc # "orphans") => rm' = Orphans

PassBegins ==
    /\ pc = "idle" /\ pc' = "ping"
    /\ snap' = store
    /\ UNCHANGED <<seen, store, containers>>

PassLists ==
    /\ pc = "list" /\ pc' = "each"
    /\ seen' = containers
    /\ UNCHANGED <<snap, store, containers>>

PassEnds == pc' = "idle" /\ snap' = NoSnap /\ seen' = NoneSeen

(* Every step goes on with the pass, begins it, lists the containers or    *)
(* ends it.                                                                *)
LEMMA PassStep ==
    ASSUME VisitOK, [Next]_vars
    PROVE  PassGoesOn \/ PassBegins \/ PassLists \/ PassEnds
<1> USE DEF passVars, storeVars
<1>1. CASE ReconcileStep
  <2>1. CASE \E elapsed \in {0, 1} : BeginPass(elapsed)
    BY <2>1 DEF BeginPass, PassBegins
  <2>2. CASE \E blind \in SUBSET {c \in Existing(containers) : ~containers[c].running} :
                ListContainers(blind)
    BY <2>2 DEF ListContainers, PassLists
  <2>3. CASE ListContainersFails \/ EndDownPass \/ EndFullPass
    BY <2>3 DEF ListContainersFails, EndDownPass, EndFullPass, EndPass, PassEnds
  <2>4. CASE BeginOrphans
    BY <2>4 DEF BeginOrphans, PassGoesOn
  <2>5. CASE \E c \in CIDs : RemoveOrphan(c)
    BY <2>5 DEF RemoveOrphan, PassGoesOn
  <2>6. CASE PingSucceeds \/ PingFails \/ RejectReservedDomain \/ BeginStart \/ NoticeExit
                \/ RecoverRunning \/ LeaveAlone
    BY <2>6 DEF PingSucceeds, PingFails, RejectReservedDomain, BeginStart, NoticeExit,
       RecoverRunning, LeaveAlone, Deciding, Say, PassGoesOn
  <2>7. CASE \/ \E d \in IDs, p \in CIDs \cup {"none"} : VisitDeployment(d, p)
             \/ \E c \in CIDs : RemoveStale(c)
             \/ \E d \in IDs : ReportUnavailable(d)
    BY <2>7 DEF VisitDeployment, RemoveStale, ReportUnavailable, Say, PassGoesOn
  <2> QED
    BY <1>1, <2>1, <2>2, <2>3, <2>4, <2>5, <2>6, <2>7 DEF ReconcileStep
<1>2. CASE StartStep
  BY <1>2 DEF StartStep, StopBeforeStart, StopBeforeStartFails, StartDirectly, CreateFails,
     NameConflict, CreateContainer, StartContainer, StartContainerFails, VerifyRunning,
     VerifyRunningFails, ResolvePorts, ResolvePortsFails, RetireOld, RenameNew, StartReturnsError,
     StartReturnsPorts, Say, PassGoesOn
<1>3. CASE ReportStep
  BY <1>3 DEF ReportStep, PatchStatus, NotifyStatus, NotifyLost, NotifyAnswered, NotifyTimesOut,
     NextVisit, PassGoesOn
<1>4. CASE EnvironmentStep
  BY <1>4 DEF EnvironmentStep, ContainerExits, KillOrchestrator, KillAPI, ConfigureDashboard,
     OrchestratorRestarts, EndPass, PassGoesOn, PassEnds
<1>5. CASE APIStep \/ UNCHANGED vars
  BY <1>5 DEF APIStep, vars, orchestratorVars, PassGoesOn
<1> QED
  BY <1>1, <1>2, <1>3, <1>4, <1>5 DEF Next, OrchestratorStep

(* Every step preserves IDsKnown.                                          *)
LEMMA IDsKnownStep ==
    ASSUME TypeOK, VisitOK, FreshIDs, IDsKnown, [Next]_vars
    PROVE  IDsKnown'
<1> USE DEF IDsKnown
<1>1. TypeOK'
  BY NextType
<1>2. Stored(store)' \subseteq used'
  BY IDsStep DEF Stored
<1>3. Stored(snap)' \subseteq used'
  BY PassStep, IDsStep DEF PassGoesOn, PassBegins, PassLists, PassEnds, NoSnap, Stored
<1>4. ASSUME NEW c \in Existing(containers)'
      PROVE  containers'[c].dep \in used'
  <2>1. KeptOrGone(c) \/ CreatedNow(c)
    BY <1>4, ContainersStep DEF Existing
  <2>2. CASE KeptOrGone(c)
    BY <1>4, <2>2, IDsStep DEF KeptOrGone, SameContainer, Existing
  <2>3. CASE CreatedNow(c)
    BY <2>3, IDsStep DEF CreatedNow, VisitOK, VisitPCs
  <2> QED
    BY <2>1, <2>2, <2>3
<1> QED
  BY <1>2, <1>3, <1>4

(* Every step preserves SnapshotCovers.                                    *)
LEMMA SnapshotCoversStep ==
    ASSUME TypeOK, VisitOK, FreshIDs, IDsKnown, SnapshotCovers, [Next]_vars
    PROVE  SnapshotCovers'
<1> DEFINE DeadNow(d) == d \in used' /\ store'[d] = NoDeployment
<1>1. \A c \in Existing(containers) : containers[c].dep \in IDs
  BY DEF TypeOK, ContainersTypeOK, Container, Existing
<1>2. \A c \in Existing(seen) : seen[c].dep \in IDs
  BY DEF TypeOK, OrchestratorTypeOK, Container, Existing
<1>3. \A d \in IDs : Dead(d) => DeadNow(d)
  BY DeadStays DEF Dead
<1>4. CASE PassBegins
  BY <1>1, <1>3, <1>4 DEF PassBegins, SnapshotCovers, IDsKnown, Dead, Stored, NoneSeen, Existing
<1>5. CASE PassLists
  BY <1>1, <1>3, <1>5 DEF PassLists, SnapshotCovers, Existing, Stored, Dead
<1>6. CASE PassEnds
  BY <1>6 DEF PassEnds, SnapshotCovers, NoneSeen, Existing
<1>7. CASE PassGoesOn
  <2>1. ASSUME pc' # "idle", NEW c \in CIDs, containers'[c] # NoContainer
        PROVE  containers'[c].dep \in Stored(snap') \/ DeadNow(containers'[c].dep)
    <3>1. CASE KeptOrGone(c)
      <4>1. containers[c] # NoContainer /\ containers'[c].dep = containers[c].dep
        BY <2>1, <3>1 DEF KeptOrGone, SameContainer
      <4>2. containers[c].dep \in Stored(snap) \/ Dead(containers[c].dep)
        BY <2>1, <4>1, <1>7 DEF PassGoesOn, SnapshotCovers, Existing
      <4> QED
        BY <4>1, <4>2, <1>1, <1>3, <1>7 DEF PassGoesOn, Existing
    <3>2. CASE CreatedNow(c)
      BY <3>2, <1>7 DEF CreatedNow, PassGoesOn, VisitOK, VisitPCs
    <3> QED
      BY <3>1, <3>2, ContainersStep
  <2>2. pc' \in {"idle", "ping"} => seen' = NoneSeen
    BY <1>7 DEF PassGoesOn, SnapshotCovers
  <2>3. ASSUME NEW c \in CIDs, seen'[c] # NoContainer
        PROVE  seen'[c].dep \in Stored(snap') \/ DeadNow(seen'[c].dep)
    <3>1. seen[c].dep \in Stored(snap) \/ Dead(seen[c].dep)
      BY <1>7, <2>3 DEF PassGoesOn, SnapshotCovers, Existing
    <3> QED
      BY <1>2, <1>3, <1>7, <2>3, <3>1 DEF PassGoesOn, Existing
  <2>4. \A c \in Existing(seen') \cap Existing(containers') : seen'[c].dep = containers'[c].dep
    BY <1>7, ContainersStep DEF PassGoesOn, SnapshotCovers, Existing, KeptOrGone, SameContainer,
       CreatedNow
  <2>5. pc' = "orphans" => rm' \subseteq Orphans'
    BY <1>7 DEF PassGoesOn, SnapshotCovers, Orphans
  <2> QED
    BY <2>1, <2>2, <2>3, <2>4, <2>5 DEF SnapshotCovers, Existing, Dead
<1> QED
  BY <1>4, <1>5, <1>6, <1>7, PassStep

-----------------------------------------------------------------------------
(* The containers of the deployment being visited.                         *)

(* The only steps after which a container is gone.                         *)
RemovedBecause(k) ==
    \/ pc \in {"visit", "orphans"} /\ k \in rm
    \/ pc = "start" /\ mode = "replace" /\ mode' = "fresh" /\ k = prim
    \/ pc \in {"run", "verify", "resolve"} /\ pc' = "patch" /\ report'.status = "failed" /\ k = new
    \/ pc = "retire" /\ pc' = "rename" /\ k = prim

(* A container that is gone after a step is gone for one of those reasons. *)
LEMMA RemovalStep ==
    ASSUME TypeOK, VisitOK, [Next]_vars, NEW k \in CIDs, containers[k] # NoContainer,
           containers'[k] = NoContainer
    PROVE  RemovedBecause(k)
<1>0. containers \in ContainerMaps
  BY DEF TypeOK, ContainersTypeOK, ContainerMaps
<1>1. containers' # containers
  OBVIOUS
<1>2. \A c \in CIDs : containers' # Stopped(containers, c)
  BY <1>0, SameContainers DEF SameContainer
<1>3. \A c \in CIDs : containers' = Removed(containers, c) => k = c
  BY <1>0, SameContainers DEF SameContainer
<1>4. CASE ReconcileStep
  <2>1. ASSUME NEW c \in CIDs, RemoveStale(c) \/ RemoveOrphan(c) PROVE RemovedBecause(k)
    BY <2>1, <1>1, <1>2, <1>3 DEF RemoveStale, RemoveOrphan, StopAndRemoveFailed, RemovedBecause
  <2> QED
    BY <1>1, <1>4, <2>1 DEF ReconcileStep, BeginPass, PingSucceeds, PingFails, ListContainers,
       ListContainersFails, VisitDeployment, RejectReservedDomain, BeginStart,
       NoticeExit, RecoverRunning, LeaveAlone, ReportUnavailable, EndDownPass, BeginOrphans,
       EndFullPass
<1>5. CASE StartStep
  <2>1. CASE StopBeforeStart \/ StopBeforeStartFails \/ RetireOld
    <3>1. prim \in CIDs
      BY <2>1 DEF StopBeforeStart, StopBeforeStartFails, RetireOld, ShouldStopBeforeStart, VisitOK
    <3> QED
      BY <2>1, <3>1, <1>1, <1>2, <1>3 DEF StopBeforeStart, StopBeforeStartFails, RetireOld,
         ShouldStopBeforeStart, StartReturnsError, StopAndRemoveFailed, RemovedBecause
  <2>2. CASE StartContainerFails \/ VerifyRunningFails \/ ResolvePortsFails
    <3>1. new \in CIDs
      BY <2>2 DEF StartContainerFails, VerifyRunningFails, ResolvePortsFails, VisitOK, StartingPCs
    <3>2. containers' = Removed(containers, new) /\ pc' = "patch" /\ report'.status = "failed"
      BY <2>2, <3>1, <1>1, <1>2 DEF StartContainerFails, VerifyRunningFails, ResolvePortsFails,
         StartReturnsError, Say, CleanedUp
    <3> QED
      BY <2>2, <3>1, <3>2, <1>3 DEF StartContainerFails, VerifyRunningFails, ResolvePortsFails,
         RemovedBecause
  <2>3. ASSUME NEW c \in CIDs, CreateContainer(c) PROVE RemovedBecause(k)
    <3>1. cur \in IDs /\ snap[cur] \in Deployment /\ ContainerName \in CNames
      BY <2>3, NextNameAssumption DEF CreateContainer, ContainerName, TypeOK, OrchestratorTypeOK,
         VisitOK, VisitPCs, Stored, Deployment
    <3> QED
      BY <2>3, <3>1, <1>0, CreatedContainer DEF CreateContainer
  <2>4. CASE StartContainer
    BY <2>4, <1>0, SameContainers DEF StartContainer, SameContainer, VisitOK, StartingPCs
  <2>5. CASE RenameNew
    <3>1. new \in CIDs /\ snap[cur].name \in CNames
      BY <2>5, NextNameAssumption DEF RenameNew, VisitOK, VisitPCs, StartingPCs, Stored, TypeOK,
         OrchestratorTypeOK, Deployment
    <3> QED
      BY <2>5, <3>1, <1>0, <1>1, SameContainers DEF RenameNew, SameContainer
  <2> QED
    BY <1>1, <1>5, <2>1, <2>2, <2>3, <2>4, <2>5 DEF StartStep, StartDirectly, CreateFails,
       NameConflict, VerifyRunning, ResolvePorts, StartReturnsError
<1>6. CASE ReportStep
  BY <1>1, <1>6 DEF ReportStep, PatchStatus, NotifyStatus, NotifyLost, NotifyAnswered,
     NotifyTimesOut
<1>7. CASE EnvironmentStep
  BY <1>1, <1>2, <1>7 DEF EnvironmentStep, ContainerExits, KillOrchestrator, KillAPI,
     ConfigureDashboard
<1>8. CASE APIStep \/ UNCHANGED vars
  BY <1>1, <1>8 DEF APIStep, vars
<1> QED
  BY <1>4, <1>5, <1>6, <1>7, <1>8 DEF Next, OrchestratorStep


(* How the steps of a visit change its local variables.                    *)
VisitBegins ==
    /\ pc = "each" /\ pc' = "visit"
    /\ cur' \in todo
    /\ prim' = "none" \/ prim' \in Candidates(cur')
    /\ rm' = Candidates(cur') \ {prim'}
    /\ UNCHANGED <<snap, seen, mode, containers>>

OutageReported ==
    /\ pc = "down" /\ pc' = "patch"
    /\ prim' = prim
    /\ UNCHANGED mode
    /\ report'.status = "failed"

VisitGoesOn ==
    /\ pc \in VisitPCs /\ pc' \in VisitPCs
    /\ UNCHANGED <<cur, prim, snap, seen>>
    /\ pc' = "visit" => pc = "visit" /\ rm' \subseteq rm
    /\ (pc' \in BusyPCs /\ mode' = "replace") =>
            \/ pc = "visit" /\ prim # "none"
            \/ pc \in BusyPCs /\ mode = "replace"
    /\ pc' \in StartingPCs =>
            \/ new' \in CIDs /\ CreateContainer(new')
            \/ pc \in StartingPCs /\ new' = new
    /\ (pc' = "patch" /\ report'.status = "healthy" /\ report'.setPorts) =>
            /\ new' = new
            /\ pc \in {"resolve", "rename"} \/ (pc = "patch" /\ UNCHANGED report)
    /\ (pc' = "patch" /\ report'.status = "failed" /\ mode' = "replace") =>
            /\ mode = "replace"
            /\ pc \in BusyPCs \/ (pc = "patch" /\ UNCHANGED report)

(* Every step that leads into a visit is of one of those kinds.            *)
LEMMA VisitStep ==
    ASSUME VisitOK, [Next]_vars
    PROVE  pc' \notin VisitPCs \/ VisitBegins \/ OutageReported \/ VisitGoesOn
<1> USE DEF passVars, VisitPCs, BusyPCs, StartingPCs
<1>1. CASE ReconcileStep
  <2>1. ASSUME NEW d \in IDs, NEW p \in CIDs \cup {"none"}, VisitDeployment(d, p)
        PROVE  VisitBegins
    BY <2>1 DEF VisitDeployment, ChoosePrimaryContainer, VisitBegins
  <2>2. ASSUME NEW d \in IDs, ReportUnavailable(d)
        PROVE  OutageReported
    BY <2>2 DEF ReportUnavailable, Say, OutageReported
  <2>3. ASSUME NEW c \in CIDs, RemoveStale(c)
        PROVE  VisitGoesOn
    BY <2>3 DEF RemoveStale, VisitGoesOn
  <2>4. CASE RejectReservedDomain \/ BeginStart \/ NoticeExit \/ RecoverRunning
    BY <2>4 DEF RejectReservedDomain, BeginStart, NoticeExit, RecoverRunning, Deciding, Say,
       VisitGoesOn, VisitOK
  <2>5. CASE \/ \E elapsed \in {0, 1} : BeginPass(elapsed)
             \/ \E blind \in SUBSET {c \in Existing(containers) : ~containers[c].running} :
                    ListContainers(blind)
             \/ \E c \in CIDs : RemoveOrphan(c)
             \/ PingSucceeds \/ PingFails \/ ListContainersFails \/ LeaveAlone \/ EndDownPass
             \/ BeginOrphans \/ EndFullPass
    BY <2>5 DEF BeginPass, ListContainers, RemoveOrphan, PingSucceeds, PingFails,
       ListContainersFails, LeaveAlone, EndDownPass, BeginOrphans, EndFullPass, EndPass
  <2> QED
    BY <1>1, <2>1, <2>2, <2>3, <2>4, <2>5 DEF ReconcileStep
<1>2. CASE StartStep
  <2>1. CASE StopBeforeStart \/ StartDirectly \/ (\E c \in CIDs : CreateContainer(c))
                \/ StartContainer \/ VerifyRunning \/ RetireOld
    BY <2>1 DEF StopBeforeStart, StartDirectly, CreateContainer, StartContainer, VerifyRunning,
       RetireOld, VisitGoesOn, VisitOK
  <2>2. CASE StopBeforeStartFails \/ CreateFails \/ NameConflict \/ StartContainerFails
                \/ VerifyRunningFails \/ ResolvePortsFails
    BY <2>2 DEF StopBeforeStartFails, CreateFails, NameConflict, StartContainerFails,
       VerifyRunningFails, ResolvePortsFails, StartReturnsError, Say, VisitGoesOn
  <2>3. CASE ResolvePorts \/ RenameNew
    BY <2>3 DEF ResolvePorts, RenameNew, StartReturnsPorts, VisitGoesOn
  <2> QED
    BY <1>2, <2>1, <2>2, <2>3 DEF StartStep
<1>3. CASE ReportStep
  BY <1>3 DEF ReportStep, PatchStatus, NotifyStatus, NotifyLost, NotifyAnswered, NotifyTimesOut,
     NextVisit, VisitGoesOn
<1>4. CASE EnvironmentStep
  BY <1>4 DEF EnvironmentStep, ContainerExits, KillOrchestrator, KillAPI, ConfigureDashboard,
     OrchestratorRestarts, EndPass, VisitGoesOn, VisitOK
<1>5. CASE APIStep \/ UNCHANGED vars
  BY <1>5 DEF APIStep, vars, orchestratorVars, VisitGoesOn, VisitOK
<1> QED
  BY <1>1, <1>2, <1>3, <1>4, <1>5 DEF Next, OrchestratorStep

(* Every step preserves ListedKept.                                        *)
LEMMA ListedKeptStep ==
    ASSUME Inv, [Next]_vars
    PROVE  ListedKept'
<1> USE DEF Inv
<1>1. ASSUME NEW k \in CIDs, RemovedBecause(k), seen[k] # NoContainer
      PROVE  seen[k].dep \notin todo
  <2>1. CASE pc = "visit" /\ k \in rm
    BY <1>1, <2>1 DEF ListedKept, Candidates, VisitOK, VisitPCs
  <2>2. CASE pc = "orphans" /\ k \in rm
    BY <1>1, <2>2 DEF SnapshotCovers, Orphans, VisitOK
  <2>3. CASE \/ pc = "start" /\ mode = "replace" /\ k = prim
             \/ pc = "retire" /\ k = prim
    BY <1>1, <2>3 DEF ListedKept, Candidates, VisitOK, VisitPCs
  <2>4. CASE pc \in {"run", "verify", "resolve"} /\ k = new
    BY <1>1, <2>4 DEF NewOK, StartingPCs
  <2> QED
    BY <1>1, <2>1, <2>2, <2>3, <2>4 DEF RemovedBecause
<1>2. ASSUME NEW k \in CIDs, seen'[k] # NoContainer, seen'[k].dep \in todo'
      PROVE  containers'[k] # NoContainer
  <2>1. CASE PassBegins
    BY <1>2, <2>1 DEF PassBegins, SnapshotCovers, NoneSeen
  <2>2. CASE PassLists
    BY <1>2, <2>2 DEF PassLists
  <2>3. CASE PassEnds
    BY <1>2, <2>3 DEF PassEnds, NoneSeen
  <2>4. CASE PassGoesOn
    <3>1. todo' \subseteq todo
      BY <1>2, <2>4 DEF PassGoesOn, SnapshotCovers, NoneSeen
    <3>2. containers[k] # NoContainer
      BY <1>2, <2>4, <3>1 DEF PassGoesOn, ListedKept, Existing
    <3> QED
      BY <1>1, <1>2, <2>4, <3>1, <3>2, RemovalStep DEF PassGoesOn
  <2> QED
    BY <2>1, <2>2, <2>3, <2>4, PassStep
<1>3. ASSUME pc' = "visit" PROVE rm' \subseteq Candidates(cur)' \ {prim'}
  BY <1>3, VisitStep DEF VisitBegins, VisitGoesOn, OutageReported, ListedKept, Candidates, VisitPCs
<1>4. ASSUME pc' \in VisitPCs, prim' # "none" PROVE prim' \in Candidates(cur)'
  BY <1>4, VisitStep DEF VisitBegins, VisitGoesOn, OutageReported, ListedKept, Candidates, VisitOK
<1>5. ASSUME pc' = "visit", prim' # "none" PROVE containers'[prim'] # NoContainer
  <2>1. CASE VisitBegins
    BY <1>5, <2>1 DEF VisitBegins, ListedKept, Candidates, Existing
  <2>2. CASE VisitGoesOn
    <3>1. prim \in CIDs /\ prim \notin rm /\ containers[prim] # NoContainer
      BY <1>5, <2>2 DEF VisitGoesOn, ListedKept, Candidates, Existing, VisitPCs
    <3> QED
      BY <1>5, <2>2, <3>1, RemovalStep DEF VisitGoesOn, RemovedBecause
  <2> QED
    BY <1>5, <2>1, <2>2, VisitStep DEF OutageReported, VisitPCs
<1>6. ASSUME pc' \in BusyPCs, mode' = "replace" PROVE containers'[prim'] # NoContainer
  <2>1. VisitGoesOn
    BY <1>6, VisitStep DEF VisitBegins, OutageReported, VisitPCs, BusyPCs
  <2>2. prim \in CIDs /\ prim \in Candidates(cur) /\ containers[prim] # NoContainer
    BY <1>6, <2>1 DEF VisitGoesOn, ListedKept, Candidates, Existing, VisitPCs, BusyPCs, VisitOK
  <2>3. pc = "visit" => prim \notin rm
    BY DEF ListedKept
  <2> QED
    BY <1>6, <2>1, <2>2, <2>3, RemovalStep DEF VisitGoesOn, RemovedBecause, BusyPCs, VisitPCs
<1>7. QED
  BY <1>2, <1>3, <1>4, <1>5, <1>6 DEF ListedKept, Existing

(* Every step preserves NewOK.                                             *)
LEMMA NewOKStep ==
    ASSUME Inv, [Next]_vars
    PROVE  NewOK'
<1> USE DEF Inv
<1> SUFFICES ASSUME \/ pc' \in StartingPCs
                    \/ pc' = "patch" /\ report'.status = "healthy" /\ report'.setPorts
             PROVE  /\ new' \in CIDs
                    /\ containers'[new'] # NoContainer
                    /\ containers'[new'].dep = cur'
                    /\ containers'[new'].image = snap'[cur'].image
                    /\ seen'[new'] = NoContainer
  BY DEF NewOK, Existing
<1>1. VisitGoesOn
  BY VisitStep DEF VisitBegins, OutageReported, VisitPCs, StartingPCs
<1>2. new' \in CIDs
  BY <1>1, NextType DEF VisitOK, NewOK, VisitGoesOn, StartingPCs, Existing
<1>3. CASE CreateContainer(new')
  BY <1>2, <1>3, CreateContainerStep DEF CreatedNow
<1>4. CASE ~CreateContainer(new')
  <2>1. new' = new /\ pc # "create"
    BY <1>1, <1>4 DEF VisitGoesOn, StartingPCs
  <2>2. /\ containers[new] # NoContainer
        /\ containers[new].dep = cur
        /\ containers[new].image = snap[cur].image
        /\ seen[new] = NoContainer
    BY <1>1, <1>4 DEF VisitGoesOn, NewOK, Existing, StartingPCs
  <2>3. KeptOrGone(new)
    BY <1>2, <2>1, ContainersStep DEF CreatedNow
  <2>4. pc = "retire" => prim # new
    BY <2>2 DEF ListedKept, VisitOK, VisitPCs, Candidates, Existing
  <2>5. containers'[new] # NoContainer
    BY <1>1, <1>2, <2>1, <2>2, <2>4, RemovalStep, <1>4 DEF RemovedBecause, VisitGoesOn, StartingPCs
  <2> QED
    BY <1>1, <1>2, <2>1, <2>2, <2>3, <2>5 DEF KeptOrGone, SameContainer, VisitGoesOn
<1> QED
  BY <1>3, <1>4

(* Every step preserves OldKeptOnFailedReplace.                            *)
LEMMA OldKeptStep ==
    ASSUME Inv, [Next]_vars
    PROVE  OldKeptOnFailedReplace'
<1> USE DEF Inv
<1> SUFFICES ASSUME pc' = "patch", report'.status = "failed", mode' = "replace"
             PROVE  containers'[prim'] # NoContainer
  BY DEF OldKeptOnFailedReplace
<1>1. VisitGoesOn
  BY VisitStep DEF VisitBegins, OutageReported, VisitPCs, VisitOK
<1>2. prim \in CIDs /\ prim \in Candidates(cur) /\ containers[prim] # NoContainer
  BY <1>1 DEF VisitGoesOn, ListedKept, OldKeptOnFailedReplace, VisitOK
<1>3. pc \in {"run", "verify", "resolve"} => prim # new
  BY <1>2 DEF NewOK, StartingPCs, Candidates, Existing
<1> QED
  BY <1>1, <1>2, <1>3, RemovalStep DEF VisitGoesOn, RemovedBecause, BusyPCs

-----------------------------------------------------------------------------
(* One container for each deployment as long as nothing fails.             *)

(* What a step without a fault does: the visits stay within the pass that  *)
(* listed the containers, a replacement goes on or loses one of its two    *)
(* containers, and a fresh start is begun only without a primary or after  *)
(* the primary was removed.                                                *)
CalmStep ==
    /\ lastReachable' \in {lastReachable, "yes"}
    /\ pc' = "down" => pc = "down" \/ lastReachable = "no"
    /\ pc' \in VisitPCs \cup {"each"} =>
            \/ PassLists
            \/ /\ pc \in VisitPCs \cup {"each", "down"}
               /\ UNCHANGED seen
               /\ todo' \subseteq todo
    /\ Replacing =>
            \/ Replacing' /\ UNCHANGED <<prim, new>>
            \/ containers'[prim] = NoContainer \/ containers'[new] = NoContainer
    /\ (pc' = "visit" /\ prim' = "none") =>
            \/ pc = "visit" /\ UNCHANGED <<prim, cur>>
            \/ VisitBegins /\ Candidates(cur') = {}
    /\ (pc' \in {"start", "create"} /\ mode' = "fresh") =>
            /\ UNCHANGED cur
            /\ \/ pc = "visit" /\ prim = "none"
               \/ pc \in {"start", "create"} /\ mode = "fresh"
               \/ pc = "start" /\ mode = "replace" /\ containers'[prim] = NoContainer

(* Every step that adds no fault is such a step.                           *)
LEMMA CalmStepTaken ==
    ASSUME TypeOK, VisitOK, [Next]_vars, faults' = faults
    PROVE  CalmStep
<1> USE DEF passVars, memoryVars, VisitPCs, Replacing
<1>0. ~Fault
  BY DEF Fault, TypeOK, OrchestratorTypeOK
<1>1. \A c \in CIDs : Removed(containers, c)[c] = NoContainer
  BY SameContainers DEF TypeOK, ContainersTypeOK, ContainerMaps
<1>2. CASE ReconcileStep
  <2>1. ASSUME NEW d \in IDs, NEW p \in CIDs \cup {"none"}, VisitDeployment(d, p)
        PROVE  CalmStep
    <3>1. VisitBegins
      BY <2>1 DEF VisitDeployment, ChoosePrimaryContainer, VisitBegins
    <3>2. p = "none" => Candidates(d) = {}
      BY <2>1, NoneAssumption DEF VisitDeployment, ChoosePrimaryContainer, Candidates, Existing
    <3> QED
      BY <2>1, <3>1, <3>2 DEF VisitDeployment, CalmStep
  <2>2. CASE \/ \E elapsed \in {0, 1} : BeginPass(elapsed)
             \/ \E blind \in SUBSET {c \in Existing(containers) : ~containers[c].running} :
                    ListContainers(blind)
             \/ PingSucceeds \/ PingFails \/ ListContainersFails \/ EndDownPass
             \/ BeginOrphans \/ EndFullPass
    BY <1>0, <2>2 DEF BeginPass, ListContainers, PingSucceeds, PingFails, ListContainersFails,
       EndDownPass, BeginOrphans, EndFullPass, EndPass, PassLists, CalmStep, storeVars
  <2>3. CASE \/ \E c \in CIDs : RemoveOrphan(c) \/ RemoveStale(c)
             \/ \E d \in IDs : ReportUnavailable(d)
             \/ RejectReservedDomain \/ BeginStart \/ NoticeExit \/ RecoverRunning \/ LeaveAlone
    BY <2>3 DEF RemoveOrphan, RemoveStale, ReportUnavailable, RejectReservedDomain, BeginStart,
       NoticeExit, RecoverRunning, LeaveAlone, Deciding, Say, CalmStep
  <2> QED
    BY <1>2, <2>1, <2>2, <2>3 DEF ReconcileStep
<1>3. CASE StartStep
  <2>1. CASE StopBeforeStart \/ RetireOld
    <3>1. prim \in CIDs
      BY <2>1 DEF StopBeforeStart, RetireOld, ShouldStopBeforeStart, VisitOK
    <3> QED
      BY <1>0, <1>1, <2>1, <3>1 DEF StopBeforeStart, RetireOld, ShouldStopBeforeStart, CalmStep
  <2>2. CASE StartContainerFails \/ VerifyRunningFails \/ ResolvePortsFails
    <3>1. new \in CIDs
      BY <2>2 DEF StartContainerFails, VerifyRunningFails, ResolvePortsFails, VisitOK, StartingPCs
    <3> QED
      BY <1>0, <1>1, <2>2, <3>1 DEF StartContainerFails, VerifyRunningFails, ResolvePortsFails,
         StartReturnsError, Say, CalmStep
  <2>3. CASE \/ StopBeforeStartFails \/ StartDirectly \/ CreateFails \/ NameConflict
             \/ \E c \in CIDs : CreateContainer(c)
             \/ StartContainer \/ VerifyRunning
    BY <1>0, <2>3 DEF StopBeforeStartFails, StartDirectly, CreateFails, NameConflict,
       CreateContainer, StartContainer, VerifyRunning, StartReturnsError, Say, CalmStep
  <2>4. CASE ResolvePorts \/ RenameNew
    BY <2>4 DEF ResolvePorts, RenameNew, StartReturnsPorts, CalmStep
  <2> QED
    BY <1>3, <2>1, <2>2, <2>3, <2>4 DEF StartStep
<1>4. CASE ReportStep
  BY <1>4 DEF ReportStep, PatchStatus, NotifyStatus, NotifyLost, NotifyAnswered, NotifyTimesOut,
     NextVisit, CalmStep
<1>5. CASE EnvironmentStep
  BY <1>0, <1>5 DEF EnvironmentStep, ContainerExits, KillOrchestrator, KillAPI, ConfigureDashboard
<1>6. CASE APIStep \/ UNCHANGED vars
  BY <1>6 DEF APIStep, vars, orchestratorVars, CalmStep
<1> QED
  BY <1>2, <1>3, <1>4, <1>5, <1>6 DEF Next, OrchestratorStep

(* No step takes a fault back.                                             *)
LEMMA FaultsStep ==
    ASSUME TypeOK, [Next]_vars
    PROVE  faults' = faults \/ faults' = faults + 1
<1> USE DEF Fault, NoFault
<1>1. CASE ReconcileStep
  BY <1>1 DEF ReconcileStep, BeginPass, PingSucceeds, PingFails, ListContainers,
     ListContainersFails, VisitDeployment, RemoveStale, RejectReservedDomain, BeginStart,
     NoticeExit, RecoverRunning, LeaveAlone, ReportUnavailable, EndDownPass, BeginOrphans,
     RemoveOrphan, EndFullPass
<1>2. CASE StartStep
  BY <1>2 DEF StartStep, StopBeforeStart, StopBeforeStartFails, StartDirectly, CreateFails,
     NameConflict, CreateContainer, StartContainer, StartContainerFails, VerifyRunning,
     VerifyRunningFails, ResolvePorts, ResolvePortsFails, RetireOld, RenameNew
<1>3. CASE ReportStep
  BY <1>3 DEF ReportStep, PatchStatus, NotifyStatus, NotifyLost, NotifyAnswered, NotifyTimesOut
<1>4. CASE EnvironmentStep
  BY <1>4 DEF EnvironmentStep, ContainerExits, KillOrchestrator, KillAPI, ConfigureDashboard
<1>5. CASE APIStep \/ UNCHANGED vars
  BY <1>5 DEF APIStep, vars, orchestratorVars
<1> QED
  BY <1>1, <1>2, <1>3, <1>4, <1>5 DEF Next, OrchestratorStep

(* Every step preserves Single.                                            *)
LEMMA SingleStep ==
    ASSUME Inv, [Next]_vars
    PROVE  Single'
<1> USE DEF Inv
<1> SUFFICES ASSUME faults' = 0 PROVE Single'
  BY DEF Single
<1>1. faults = 0 /\ faults' = faults
  BY FaultsStep DEF TypeOK, OrchestratorTypeOK
<1>2. CalmStep
  BY <1>1, CalmStepTaken
<1>3. lastReachable' # "no" /\ pc' # "down"
  BY <1>1, <1>2 DEF CalmStep, Single
<1>4. ASSUME NEW k \in CIDs, containers'[k] # NoContainer, ~CreatedNow(k)
      PROVE  containers[k] # NoContainer /\ containers'[k].dep = containers[k].dep
  BY <1>4, ContainersStep DEF KeptOrGone, SameContainer
<1>5. ASSUME NEW k \in CIDs, CreatedNow(k), NEW b \in CIDs, b # k, containers'[b] # NoContainer,
             containers'[b].dep = containers'[k].dep
      PROVE  Replacing' /\ {k, b} = {prim', new'}
  <2>1. containers[b] # NoContainer /\ containers[b].dep = cur
    BY <1>4, <1>5 DEF CreatedNow
  <2>2. mode = "replace"
    BY <1>1, <1>5, <2>1 DEF Single, CreatedNow, Existing, TypeOK, OrchestratorTypeOK
  <2>3. prim \in CIDs /\ prim # "none"
    BY <2>2 DEF VisitOK
  <2>4. containers[prim] # NoContainer /\ containers[prim].dep = cur
    BY <1>5, <2>2, <2>3 DEF ListedKept, BusyPCs, VisitPCs, CreatedNow, SnapshotCovers, Candidates,
       Existing
  <2>5. b = prim
    BY <1>1, <1>5, <2>1, <2>3, <2>4 DEF Single, Existing, Replacing, CreatedNow
  <2>6. UNCHANGED <<prim, mode>>
    BY <1>5 DEF CreatedNow
  <2> QED
    BY <1>5, <2>2, <2>5, <2>6 DEF Replacing, CreatedNow
<1>6. ASSUME NEW a \in CIDs, NEW b \in CIDs, containers'[a] # NoContainer,
             containers'[b] # NoContainer, containers'[a].dep = containers'[b].dep, a # b
      PROVE  Replacing' /\ {a, b} = {prim', new'}
  <2>1. CASE CreatedNow(a) \/ CreatedNow(b)
    BY <1>5, <1>6, <2>1
  <2>2. CASE ~CreatedNow(a) /\ ~CreatedNow(b)
    <3>1. Replacing /\ {a, b} = {prim, new}
      BY <1>1, <1>4, <1>6, <2>2 DEF Single, Existing
    <3>2. Replacing' /\ UNCHANGED <<prim, new>>
      BY <1>2, <1>6, <3>1 DEF CalmStep
    <3> QED
      BY <3>1, <3>2
  <2> QED
    BY <2>1, <2>2
<1>7. ASSUME NEW c \in CIDs, containers'[c] # NoContainer,
             (pc' = "visit" /\ prim' = "none") \/ (pc' \in {"start", "create"} /\ mode' = "fresh")
      PROVE  containers'[c].dep # cur'
  <2>1. containers[c] # NoContainer /\ containers'[c].dep = containers[c].dep
    BY <1>4, <1>7 DEF CreatedNow
  <2>2. CASE UNCHANGED cur /\ \/ pc = "visit" /\ prim = "none"
                              \/ pc \in {"start", "create"} /\ mode = "fresh"
    BY <1>1, <2>1, <2>2 DEF Single, Existing
  <2>3. CASE VisitBegins /\ Candidates(cur') = {}
    <3>1. cur' \in todo /\ pc = "each"
      BY <2>3 DEF VisitBegins
    <3>2. containers[c].dep = cur' => seen[c] # NoContainer /\ seen[c].dep = containers[c].dep
      BY <1>1, <2>1, <3>1 DEF Single, SnapshotCovers, Existing
    <3> QED
      BY <2>1, <2>3, <3>2 DEF Candidates, Existing
  <2>4. CASE UNCHANGED cur /\ pc = "start" /\ mode = "replace" /\ containers'[prim] = NoContainer
    <3>1. prim \in CIDs /\ prim # "none" /\ c # prim
      BY <1>7, <2>4 DEF VisitOK
    <3>2. containers[prim] # NoContainer /\ containers[prim].dep = cur
      BY <2>4, <3>1 DEF ListedKept, BusyPCs, VisitPCs, SnapshotCovers, Candidates, Existing
    <3> QED
      BY <1>1, <2>1, <2>4, <3>1, <3>2 DEF Single, Existing, Replacing
  <2> QED
    BY <1>2, <1>7, <2>2, <2>3, <2>4 DEF CalmStep
<1>8. ASSUME pc' \in VisitPCs \cup {"each"}, NEW c \in CIDs, containers'[c] # NoContainer,
             containers'[c].dep \in todo'
      PROVE  seen'[c] # NoContainer
  <2>1. CASE PassLists
    BY <1>8, <2>1 DEF PassLists
  <2>2. CASE pc \in VisitPCs \cup {"each"} /\ UNCHANGED seen /\ todo' \subseteq todo
    <3>1. ~CreatedNow(c)
      BY <1>8, <2>2 DEF CreatedNow, VisitOK, VisitPCs
    <3> QED
      BY <1>1, <1>4, <1>8, <2>2, <3>1 DEF Single, Existing
  <2> QED
    BY <1>1, <1>2, <1>8, <2>1, <2>2 DEF CalmStep, Single
<1> QED
  BY <1>3, <1>6, <1>7, <1>8 DEF Single, Existing

(* The inductive invariant holds in every reachable state.                 *)
LEMMA InvHolds == Spec => []Inv
<1>1. Init => Inv
  BY InitType DEF Inv, Init, StoreInit, APIInit, NoRequest, ContainersInit, FreshIDs, IDsKnown,
     SnapshotCovers, OrchestratorInit, VisitOK, VisitPCs, StartingPCs, BusyPCs, ListedKept, NewOK,
     OldKeptOnFailedReplace, Single, Stored, Existing, NoSnap, NoneSeen
<1>2. Inv /\ [Next]_vars => Inv'
  BY NextType, IDsStep, IDsKnownStep, SnapshotCoversStep, ListedKeptStep, NewOKStep, OldKeptStep,
     SingleStep DEF Inv
<1> QED
  BY <1>1, <1>2, PTL DEF Spec

(* No container of a deployment that is in the store is ever removed as an *)
(* orphan, however old the snapshot that the pass works from               *)
(* (OrphansAreDeleted).                                                    *)
THEOREM OrphansAreDeletedHolds == Spec => []OrphansAreDeleted
<1>1. Inv => OrphansAreDeleted
  BY DEF Inv, SnapshotCovers, OrphansAreDeleted, Orphans, Existing, Dead
<1> QED
  BY <1>1, InvHolds, PTL

(* A failed StartAndReplace leaves the container it was to replace in      *)
(* place (OldKeptOnFailedReplace).                                         *)
THEOREM OldKeptOnFailedReplaceHolds == Spec => []OldKeptOnFailedReplace
  BY InvHolds, PTL DEF Inv

(* A start that is reported healthy left a container of the deployment,    *)
(* made from the snapshot's image (HealthyIsBacked).                       *)
THEOREM HealthyIsBackedHolds == Spec => []HealthyIsBacked
<1>1. Inv => HealthyIsBacked
  BY DEF Inv, NewOK, HealthyIsBacked, ContainersOf
<1> QED
  BY <1>1, InvHolds, PTL

(* Between passes a deployment has at most one container as long as no     *)
(* call failed and nothing was killed (NoStaleContainers).                 *)
THEOREM NoStaleContainersHolds == Spec => []NoStaleContainers
<1>1. Inv => NoStaleContainers
  <2> SUFFICES ASSUME Inv, faults = 0, pc = "idle", NEW d \in IDs
               PROVE  Cardinality(ContainersOf(d)) <= 1
    BY DEF NoStaleContainers
  <2>1. \A a, b \in ContainersOf(d) : a = b
    BY DEF Inv, Single, Replacing, ContainersOf
  <2>2. ASSUME ContainersOf(d) = {} PROVE Cardinality(ContainersOf(d)) <= 1
    <3>1. Cardinality(ContainersOf(d)) = 0
      BY <2>2, FS_EmptySet
    <3> QED
      BY <3>1
  <2>3. ASSUME NEW a \in ContainersOf(d) PROVE Cardinality(ContainersOf(d)) <= 1
    <3>1. ContainersOf(d) = {a}
      BY <2>1
    <3>2. Cardinality(ContainersOf(d)) = 1
      BY <3>1, FS_Singleton
    <3> QED
      BY <3>2
  <2> QED
    BY <2>2, <2>3
<1> QED
  BY <1>1, InvHolds, PTL

-----------------------------------------------------------------------------
(* The retry back-off.                                                     *)

(* What clearRetryState and recordRetryFailure do to one entry.            *)
LEMMA RetryUpdates ==
    ASSUME TypeOK, NEW d \in IDs
    PROVE  /\ \A e \in IDs : ClearRetryState(d)[e] = IF e = d THEN NoRetry ELSE retry[e]
           /\ \A e \in IDs : e # d => RecordRetryFailure(d)[e] = retry[e]
           /\ RecordRetryFailure(d)[d].wait = retry[d].delay
           /\ RecordRetryFailure(d)[d].delay =
                 IF 2 * retry[d].delay < MaxDelay THEN 2 * retry[d].delay ELSE MaxDelay
           /\ \A e \in IDs : retry[e].wait \in Nat /\ retry[e].delay \in Nat
BY DEF ClearRetryState, RecordRetryFailure, TypeOK, OrchestratorTypeOK, RetryState

(* The steps that report an outcome for a deployment, and those that leave *)
(* the retry states to time, to the start of a visit or to a kill.         *)
LEMMA RetryStep ==
    ASSUME TypeOK, VisitOK, RetryCleared, [Next]_vars
    PROVE  \/ /\ pc' # "patch" \/ pc = "patch"
              /\ UNCHANGED retry
           \/ /\ pc = "down" /\ pc' = "patch" /\ cur' \in todo /\ report'.status = "failed"
              /\ UNCHANGED <<retry, snap>>
           \/ /\ pc = "visit" /\ pc' = "patch" /\ UNCHANGED <<retry, snap, cur>>
              /\ report'.status = "failed" /\ snap[cur].status # "failed"
           \/ /\ pc \in VisitPCs \ {"patch", "notify", "await"} /\ pc' = "patch"
              /\ UNCHANGED <<snap, cur>> /\ report'.status = "failed"
              /\ retry' = IF snap[cur].status = "failed" THEN RecordRetryFailure(cur) ELSE retry
           \/ /\ pc \in VisitPCs \ {"patch", "notify", "await"} /\ pc' = "patch"
              /\ UNCHANGED <<snap, cur>> /\ report'.status = "healthy"
              /\ retry' = IF snap[cur].status = "failed" THEN ClearRetryState(cur) ELSE retry
           \/ pc' = "visit" /\ \E d \in IDs : VisitDeployment(d, prim')
           \/ \E elapsed \in {0, 1} : BeginPass(elapsed)
           \/ pc' = "idle" /\ retry' = [d \in IDs |-> NoRetry]
<1> USE DEF memoryVars, passVars
<1>1. CASE ReconcileStep
  BY <1>1 DEF ReconcileStep, PingSucceeds, PingFails, ListContainers, ListContainersFails,
     VisitDeployment, RemoveStale, RejectReservedDomain, BeginStart, NoticeExit, RecoverRunning,
     LeaveAlone, ReportUnavailable, EndDownPass, BeginOrphans, RemoveOrphan, EndFullPass, Deciding,
     DomainReserved, Say, EndPass, VisitPCs
<1>2. CASE StartStep
  BY <1>2 DEF StartStep, StopBeforeStart, StopBeforeStartFails, StartDirectly, CreateFails,
     NameConflict, CreateContainer, StartContainer, StartContainerFails, VerifyRunning,
     VerifyRunningFails, ResolvePorts, ResolvePortsFails, RetireOld, RenameNew, StartReturnsError,
     StartReturnsPorts, Say, VisitPCs
<1>3. CASE ReportStep
  BY <1>3 DEF ReportStep, PatchStatus, NotifyStatus, NotifyLost, NotifyAnswered, NotifyTimesOut,
     NextVisit
<1>4. CASE EnvironmentStep
  BY <1>4 DEF EnvironmentStep, ContainerExits, KillOrchestrator, KillAPI, ConfigureDashboard,
     OrchestratorRestarts, EndPass
<1>5. CASE APIStep \/ UNCHANGED vars
  BY <1>5 DEF APIStep, vars, orchestratorVars
<1> QED
  BY <1>1, <1>2, <1>3, <1>4, <1>5 DEF Next, OrchestratorStep

(* A step keeps the back-off cleared while a pass works on a deployment    *)
(* that had not failed (VisitDeployment clears it at the start).           *)
LEMMA RetryClearedStep ==
    ASSUME TypeOK, VisitOK, RetryCleared, [Next]_vars
    PROVE  RetryCleared'
<1> DEFINE Working == pc \in VisitPCs \ {"patch", "notify", "await"}
<1>1. \/ Working /\ UNCHANGED <<snap, cur, retry>>
      \/ ~Working'
      \/ pc' = "visit" /\ \E d \in IDs : VisitDeployment(d, prim')
  <2> USE DEF memoryVars, passVars
  <2>1. CASE ReconcileStep
    BY <2>1 DEF ReconcileStep, BeginPass, PingSucceeds, PingFails, ListContainers,
       ListContainersFails, VisitDeployment, RemoveStale, RejectReservedDomain, BeginStart,
       NoticeExit, RecoverRunning, LeaveAlone, ReportUnavailable, EndDownPass, BeginOrphans,
       RemoveOrphan, EndFullPass, Deciding, Say, EndPass, VisitPCs
  <2>2. CASE StartStep
    BY <2>2 DEF StartStep, StopBeforeStart, StopBeforeStartFails, StartDirectly, CreateFails,
       NameConflict, CreateContainer, StartContainer, StartContainerFails, VerifyRunning,
       VerifyRunningFails, ResolvePorts, ResolvePortsFails, RetireOld, RenameNew,
       StartReturnsError, StartReturnsPorts, Say, VisitPCs
  <2>3. CASE ReportStep
    BY <2>3 DEF ReportStep, PatchStatus, NotifyStatus, NotifyLost, NotifyAnswered,
       NotifyTimesOut, NextVisit, VisitPCs
  <2>4. CASE EnvironmentStep
    BY <2>4 DEF EnvironmentStep, ContainerExits, KillOrchestrator, KillAPI, ConfigureDashboard,
       OrchestratorRestarts, EndPass, VisitPCs
  <2>5. CASE APIStep \/ UNCHANGED vars
    BY <2>5 DEF APIStep, vars, orchestratorVars
  <2> QED
    BY <2>1, <2>2, <2>3, <2>4, <2>5 DEF Next, OrchestratorStep
<1>2. ASSUME NEW d \in IDs, VisitDeployment(d, prim') PROVE RetryCleared'
  BY <1>2, RetryUpdates DEF VisitDeployment, RetryCleared
<1> QED
  BY <1>1, <1>2 DEF RetryCleared

(* A step keeps what is known of a pass in which the ping failed.          *)
LEMMA DownPassStep ==
    ASSUME TypeOK, VisitOK, DownPass, [Next]_vars
    PROVE  DownPass'
<1> USE DEF DownPass, memoryVars, passVars, VisitPCs
<1>1. CASE ReconcileStep
  BY <1>1 DEF ReconcileStep, BeginPass, PingSucceeds, PingFails, ListContainers,
     ListContainersFails, VisitDeployment, RemoveStale, RejectReservedDomain, BeginStart,
     NoticeExit, RecoverRunning, LeaveAlone, ReportUnavailable, EndDownPass, BeginOrphans,
     RemoveOrphan, EndFullPass, Deciding, Say, EndPass
<1>2. CASE StartStep
  BY <1>2 DEF StartStep, StopBeforeStart, StopBeforeStartFails, StartDirectly, CreateFails,
     NameConflict, CreateContainer, StartContainer, StartContainerFails, VerifyRunning,
     VerifyRunningFails, ResolvePorts, ResolvePortsFails, RetireOld, RenameNew,
     StartReturnsError, StartReturnsPorts, Say
<1>3. CASE ReportStep
  BY <1>3 DEF ReportStep, PatchStatus, NotifyStatus, NotifyLost, NotifyAnswered,
     NotifyTimesOut, NextVisit, TypeOK, OrchestratorTypeOK
<1>4. CASE EnvironmentStep
  BY <1>4 DEF EnvironmentStep, ContainerExits, KillOrchestrator, KillAPI, ConfigureDashboard,
     OrchestratorRestarts, EndPass
<1>5. CASE APIStep \/ UNCHANGED vars
  BY <1>5 DEF APIStep, vars, orchestratorVars
<1> QED
  BY <1>1, <1>2, <1>3, <1>4, <1>5 DEF Next, OrchestratorStep

(* A failed retry is put off by the delay due and doubles the next one up  *)
(* to the cap, a deployment reported healthy has no back-off left, nothing *)
(* else but time changes the wait, and no retry begins before it is over   *)
(* unless Docker came back (RetryBackoff).                                 *)
THEOREM RetryBackoffHolds == Spec => RetryBackoff
<1> DEFINE Known == TypeOK /\ VisitOK /\ RetryCleared /\ DownPass
<1>1. Init => Known
  BY InitType DEF Init, OrchestratorInit, VisitOK, VisitPCs, StartingPCs, RetryCleared,
     DownPass
<1>2. Known /\ [Next]_vars => Known'
  BY NextType, RetryClearedStep, DownPassStep
<1>3. ASSUME Known, [Next]_vars, NEW d \in IDs
      PROVE  LET retried == Reports(d, "failed") /\ snap[d].status = "failed"
             IN  /\ retried =>
                       /\ retry'[d].wait = retry[d].delay
                       /\ retry'[d].delay = IF 2 * retry[d].delay < MaxDelay
                                            THEN 2 * retry[d].delay ELSE MaxDelay
                 /\ Reports(d, "healthy") => retry'[d] = NoRetry
                 /\ ~retried =>
                       \/ retry'[d] = NoRetry
                       \/ /\ retry'[d].delay = retry[d].delay
                          /\ retry[d].wait - retry'[d].wait \in {0, 1}
  <2> DEFINE retried == Reports(d, "failed") /\ snap[d].status = "failed"
             Kept == /\ retry'[d].delay = retry[d].delay
                     /\ retry[d].wait - retry'[d].wait \in {0, 1}
  <2>0. /\ TypeOK /\ VisitOK /\ RetryCleared
        /\ retry[d].wait \in Nat /\ retry[d].delay \in Nat
        /\ UNCHANGED retry => Kept
        /\ pc \in VisitPCs => cur \in IDs
    BY <1>3, RetryUpdates DEF VisitOK, Stored
  <2>1. CASE (pc' # "patch" \/ pc = "patch") /\ UNCHANGED retry
    BY <2>0, <2>1 DEF Reports
  <2>2. CASE /\ pc = "down" /\ pc' = "patch" /\ cur' \in todo /\ report'.status = "failed"
             /\ UNCHANGED <<retry, snap>>
    BY <1>3, <2>0, <2>2 DEF Reports, DownPass
  <2>3. CASE /\ pc = "visit" /\ pc' = "patch" /\ UNCHANGED <<retry, snap, cur>>
             /\ report'.status = "failed" /\ snap[cur].status # "failed"
    BY <2>0, <2>3 DEF Reports
  <2>4. CASE /\ pc \in VisitPCs \ {"patch", "notify", "await"} /\ pc' = "patch"
             /\ UNCHANGED <<snap, cur>> /\ report'.status = "failed"
             /\ retry' = IF snap[cur].status = "failed" THEN RecordRetryFailure(cur) ELSE retry
    BY <2>0, <2>4, RetryUpdates DEF Reports
  <2>5. CASE /\ pc \in VisitPCs \ {"patch", "notify", "await"} /\ pc' = "patch"
             /\ UNCHANGED <<snap, cur>> /\ report'.status = "healthy"
             /\ retry' = IF snap[cur].status = "failed" THEN ClearRetryState(cur) ELSE retry
    BY <2>0, <2>5, RetryUpdates DEF Reports, RetryCleared
  <2>6. CASE pc' = "visit" /\ \E e \in IDs : VisitDeployment(e, prim')
    BY <2>0, <2>6, RetryUpdates DEF Reports, VisitDeployment
  <2>7. ASSUME NEW elapsed \in {0, 1}, BeginPass(elapsed)
        PROVE  pc' # "patch" /\ Kept
    <3>1. /\ retry'[d].delay = retry[d].delay
          /\ retry'[d].wait = IF retry[d].wait > elapsed THEN retry[d].wait - elapsed ELSE 0
          /\ pc' = "ping"
      BY <2>7 DEF BeginPass
    <3> QED
      BY <2>0, <3>1
  <2>8. CASE pc' = "idle" /\ retry' = [e \in IDs |-> NoRetry]
    BY <2>8 DEF Reports
  <2> QED
    BY <1>3, <2>1, <2>2, <2>3, <2>4, <2>5, <2>6, <2>7, <2>8, RetryStep DEF Reports
<1>4. ASSUME Known, [Next]_vars, pc = "visit", pc' = "start", snap[cur].status = "failed"
      PROVE  retry[cur].wait = 0 \/ reconnected
  <2> USE DEF memoryVars, passVars
  <2>1. CASE ReconcileStep
    BY <1>4, <2>1 DEF ReconcileStep, BeginPass, PingSucceeds, PingFails, ListContainers,
       ListContainersFails, VisitDeployment, RemoveStale, RejectReservedDomain, BeginStart,
       NoticeExit, RecoverRunning, LeaveAlone, ReportUnavailable, EndDownPass, BeginOrphans,
       RemoveOrphan, EndFullPass, Deciding, Say, EndPass, CanRetryTransientFailure
  <2>2. CASE StartStep
    BY <1>4, <2>2 DEF StartStep, StopBeforeStart, StopBeforeStartFails, StartDirectly,
       CreateFails, NameConflict, CreateContainer, StartContainer, StartContainerFails,
       VerifyRunning, VerifyRunningFails, ResolvePorts, ResolvePortsFails, RetireOld, RenameNew
  <2>3. CASE ReportStep
    BY <1>4, <2>3 DEF ReportStep, PatchStatus, NotifyStatus, NotifyLost, NotifyAnswered,
       NotifyTimesOut
  <2>4. CASE EnvironmentStep
    BY <1>4, <2>4 DEF EnvironmentStep, ContainerExits, KillOrchestrator, KillAPI,
       ConfigureDashboard, OrchestratorRestarts, EndPass
  <2>5. CASE APIStep \/ UNCHANGED vars
    BY <1>4, <2>5 DEF APIStep, vars, orchestratorVars
  <2> QED
    BY <1>4, <2>1, <2>2, <2>3, <2>4, <2>5 DEF Next, OrchestratorStep
<1>5. Known /\ [Next]_vars =>
        [\A d \in IDs :
            LET retried == Reports(d, "failed") /\ snap[d].status = "failed"
            IN  /\ retried =>
                      /\ retry'[d].wait = retry[d].delay
                      /\ retry'[d].delay = IF 2 * retry[d].delay < MaxDelay
                                           THEN 2 * retry[d].delay ELSE MaxDelay
                /\ Reports(d, "healthy") => retry'[d] = NoRetry
                /\ ~retried =>
                      \/ retry'[d] = NoRetry
                      \/ /\ retry'[d].delay = retry[d].delay
                         /\ retry[d].wait - retry'[d].wait \in {0, 1}
                /\ (pc = "visit" /\ pc' = "start" /\ cur = d /\ snap[d].status = "failed") =>
                      retry[d].wait = 0 \/ reconnected]_vars
  BY <1>3, <1>4
<1> QED
  BY <1>1, <1>2, <1>5, PTL DEF Spec, RetryBackoff

=============================================================================
