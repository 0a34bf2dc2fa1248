--------------------------- MODULE DeploymentAPI ---------------------------
(***************************************************************************)
(* The API handlers that change deployments.  A handler is one HTTP        *)
(* request: each of its store operations takes the lock anew, with nothing *)
(* held in between, so each is a step here and other actors run between    *)
(* them.  The refusals (400, 404, 409) leave the store as it was; those    *)
(* that depend on the request and the first read only are guards of the    *)
(* step that reads.  Publishing the status event is left to the broker.    *)
(*                                                                         *)
(* clients are the users' requests; notif is the orchestrator's status     *)
(* notification, served by the same process.                               *)
(***************************************************************************)
EXTENDS Deployments

CONSTANTS
    Clients,        \* concurrent user requests
    Requested,      \* the configurations users ask for
    MaxOps          \* bound: user requests of a behaviour

ASSUME RequestedAssumption == Requested \subseteq Config

VARIABLES
    req,        \* [Clients -> Request], the user requests being served
    notif,      \* the status notification being served
    dashboard,  \* LOTSEN_DASHBOARD_DOMAIN, read by the API and the orchestrator
    ops         \* user requests so far, at most MaxOps

apiVars == <<req, notif, dashboard, ops>>

NoRequest == [op |-> "none", id |-> "none", body |-> NoDeployment,
              fields |-> {}, copy |-> NoDeployment]

\* op is the store operation that comes next, copy the record that the
\* handler's Get returned.
Request ==
    {NoRequest}
    \cup [op : {"create"}, id : IDs, body : Config, fields : {{}}, copy : {NoDeployment}]
    \cup [op : {"updateList", "update"}, id : IDs, body : Config, fields : {{}}, copy : Deployment]
    \cup [op : {"patchList", "patch"}, id : IDs, body : Config,
          fields : SUBSET {"image", "ports", "domain"}, copy : Deployment]
    \cup [op : {"restart"}, id : IDs, body : {NoDeployment}, fields : {{}}, copy : Deployment]

NoStatusRequest == [op |-> "none", id |-> "none", status |-> "idle",
                    err |-> "none", copy |-> NoDeployment]

StatusRequest ==
    {NoStatusRequest}
    \cup [op : {"get"}, id : IDs, status : Status, err : Errors, copy : {NoDeployment}]
    \cup [op : {"put"}, id : IDs, status : Status, err : Errors, copy : Deployment]

APITypeOK ==
    /\ req \in [Clients -> Request]
    /\ notif \in StatusRequest
    /\ dashboard \in Domains \cup {NoDomain}
    /\ ops \in Nat

APIInit ==
    /\ req = [c \in Clients |-> NoRequest]
    /\ notif = NoStatusRequest
    /\ dashboard = NoDomain
    /\ ops = 0

ConflictsWithDashboardDomain(domain) ==
    /\ domain # NoDomain
    /\ domain = dashboard

\* A user request enters its handler.
Accept(c, r) ==
    /\ req[c].op = "none"
    /\ ops < MaxOps
    /\ ops' = ops + 1
    /\ req' = [req EXCEPT ![c] = r]
    /\ UNCHANGED <<storeVars, notif, dashboard>>

\* The handler answers, with the store left as s.
Answer(c, s) ==
    /\ req' = [req EXCEPT ![c] = NoRequest]
    /\ store' = s
    /\ UNCHANGED <<notif, dashboard, ops>>

\* The handler listed the deployments: it goes on to op, or answers 409 when
\* another one has the host ports.
CheckHostPorts(c, op) ==
    /\ req' = [req EXCEPT ![c] =
                 IF HostPortsFree(store, {req[c].id}, req[c].body.ports)
                 THEN [req[c] EXCEPT !.op = op] ELSE NoRequest]
    /\ UNCHANGED <<storeVars, notif, dashboard, ops>>

-----------------------------------------------------------------------------
(* POST /api/deployments *)

CreateRead(c, id, body) ==
    /\ id \notin used
    /\ \A k \in Clients : req[k].op = "create" => req[k].id # id
    /\ ~ConflictsWithDashboardDomain(body.domain)
    /\ HostPortsFree(store, {}, body.ports)
    /\ ValidateProxyPortSelection(body.domain, body.ports)
    /\ Accept(c, [op |-> "create", id |-> id, body |-> body, fields |-> {}, copy |-> NoDeployment])

CreateWrite(c) ==
    /\ req[c].op = "create"
    /\ used' = used \cup {req[c].id}
    /\ Answer(c, StoreCreate(store, req[c].id, Record(req[c].body, "deploying", "none")))

(* PUT /api/deployments/{id}: replaces the record by the request, keeping   *)
(* the status that Get returned unless the change asks for a redeploy.      *)

UpdateGet(c, id, body) ==
    /\ store[id] # NoDeployment
    /\ ~ConflictsWithDashboardDomain(body.domain)
    /\ ValidateProxyPortSelection(body.domain, body.ports)
    /\ ~UpdateRequestMatchesExisting(store[id], body)
    /\ Accept(c, [op |-> "updateList", id |-> id, body |-> body, fields |-> {},
                  copy |-> store[id]])

UpdateList(c) == req[c].op = "updateList" /\ CheckHostPorts(c, "update")

UpdateWrite(c) ==
    LET r == req[c]
        status == IF UpdateRequiresRedeploy(r.copy, r.body) THEN "deploying" ELSE r.copy.status
    IN  /\ r.op = "update"
        /\ Answer(c, StoreUpdate(store, r.id, Record(r.body, status, "none")))
        /\ UNCHANGED used

(* PATCH /api/deployments/{id}: merges the fields given into the record     *)
(* that the store holds at the time of the write.                           *)

PatchGet(c, id, body, fields) ==
    /\ store[id] # NoDeployment
    /\ "domain" \in fields => /\ body.domain # NoDomain
                              /\ ~ConflictsWithDashboardDomain(body.domain)
    /\ ValidateProxyPortSelection(
            IF "domain" \in fields THEN body.domain ELSE store[id].domain,
            IF "ports" \in fields THEN body.ports ELSE store[id].ports)
    /\ Accept(c, [op |-> IF "ports" \in fields THEN "patchList" ELSE "patch", id |-> id,
                  body |-> body, fields |-> fields, copy |-> store[id]])

\* Only a patch that gives ports lists the other deployments.
PatchList(c) == req[c].op = "patchList" /\ CheckHostPorts(c, "patch")

PatchWrite(c) ==
    LET r == req[c]
        redeploy == PatchRequiresRedeploy(r.copy, r.body, r.fields)
    IN  /\ r.op = "patch"
        /\ Answer(c, StorePatch(store, r.id, Record(r.body, "deploying", "none"),
                                r.fields \cup (IF redeploy THEN {"status"} ELSE {})))
        /\ UNCHANGED used

(* POST /api/deployments/{id}/restart *)

RestartRead(c, id) ==
    /\ store[id] # NoDeployment
    /\ Accept(c, [op |-> "restart", id |-> id, body |-> NoDeployment, fields |-> {},
                  copy |-> store[id]])

RestartWrite(c) ==
    LET r == req[c]
    IN  /\ r.op = "restart"
        /\ Answer(c, StorePatch(store, r.id, Record(r.copy, "deploying", "none"), {"status"}))
        /\ UNCHANGED used

(* DELETE /api/deployments/{id}: one store operation. *)

DeleteDeployment(id) ==
    /\ ops < MaxOps
    /\ store[id] # NoDeployment
    /\ ops' = ops + 1
    /\ store' = StoreDelete(store, id)
    /\ UNCHANGED <<used, req, notif, dashboard>>

-----------------------------------------------------------------------------
(* PATCH /api/deployments/{id}/status, sent by the orchestrator: fetches    *)
(* the record, sets its status and error, and writes the whole record back. *)

UpdateDeploymentStatusGet ==
    /\ notif.op = "get"
    /\ notif' = IF store[notif.id] = NoDeployment
                THEN NoStatusRequest
                ELSE [notif EXCEPT !.op = "put", !.copy = store[notif.id]]
    /\ UNCHANGED <<storeVars, req, dashboard, ops>>

UpdateDeploymentStatusPut ==
    /\ notif.op = "put"
    /\ store' = StoreUpdate(store, notif.id, Record(notif.copy, notif.status, notif.err))
    /\ notif' = NoStatusRequest
    /\ UNCHANGED <<used, req, dashboard, ops>>

-----------------------------------------------------------------------------
UserStep ==
    \/ \E c \in Clients :
        \/ \E id \in IDs :
            \/ \E body \in Requested :
                \/ CreateRead(c, id, body)
                \/ UpdateGet(c, id, body)
                \/ \E fields \in SUBSET {"image", "ports", "domain"} :
                        PatchGet(c, id, body, fields)
            \/ RestartRead(c, id)
        \/ CreateWrite(c)
        \/ UpdateList(c)
        \/ UpdateWrite(c)
        \/ PatchList(c)
        \/ PatchWrite(c)
        \/ RestartWrite(c)
    \/ \E id \in IDs : DeleteDeployment(id)

StatusStep == UpdateDeploymentStatusGet \/ UpdateDeploymentStatusPut

=============================================================================
