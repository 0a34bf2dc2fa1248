------------------------------ MODULE StoreOps ------------------------------
(***************************************************************************)
(* The deployment record, the operations of the store that the API, the    *)
(* orchestrator and the proxy share (store/store.go), and the predicates   *)
(* on records that they use.  Every operation runs under the store's       *)
(* exclusive lock and replaces the whole file by a rename, so here each    *)
(* one is an operator on the map from deployment ids to records; module    *)
(* JSONStore shows that the file-backed code implements that.              *)
(*                                                                         *)
(* The configuration of a deployment is abstracted to what the rest of the *)
(* system tells apart.  "image" stands for every setting whose change asks *)
(* for a redeploy and that Docker only carries (image, environment,        *)
(* volumes, file mounts, proxy port, basic auth); "ports" is the set of    *)
(* host ports the deployment binds.                                        *)
(***************************************************************************)
EXTENDS Naturals

CONSTANTS
    IDs,            \* deployment ids, as newID draws them
    Names,          \* deployment names
    Images,
    Ports,          \* host ports
    Domains,
    NoDomain,       \* the empty domain
    NoDeployment    \* what the store holds for an id without a record

ASSUME NoDomainAssumption == NoDomain \notin Domains

Status == {"idle", "deploying", "healthy", "failed"}

\* The texts of Deployment.Error that isTransientFailure tells apart.
Errors == {"none", "unavailable", "notRunning", "exited", "startFailed", "reserved"}

Config == [name   : Names,
           image  : Images,
           ports  : SUBSET Ports,
           domain : Domains \cup {NoDomain}]

Deployment == [name   : Names,
               image  : Images,
               ports  : SUBSET Ports,
               domain : Domains \cup {NoDomain},
               status : Status,
               err    : Errors]

ASSUME NoDeploymentAssumption == NoDeployment \notin Deployment

Stored(s) == {d \in IDs : s[d] # NoDeployment}

\* A record with the given configuration, status and error text.
Record(c, status, err) ==
    [name |-> c.name, image |-> c.image, ports |-> c.ports, domain |-> c.domain,
     status |-> status, err |-> err]

ConfigOf(d) ==
    [name |-> d.name, image |-> d.image, ports |-> d.ports, domain |-> d.domain]

-----------------------------------------------------------------------------
(* The operations of the store.  Each one takes the map and returns it     *)
(* changed; an operation that the code refuses with an error returns it    *)
(* as it is.                                                               *)

\* Only Create looks at the names of the other deployments.
StoreCreate(s, id, d) ==
    IF \E e \in Stored(s) : s[e].name = d.name
    THEN s
    ELSE [s EXCEPT ![id] = d]

\* Mutant: a replace that inserts the record when the id is gone.
StoreUpdateUpserts(s, id, d) ==
    [s EXCEPT ![id] = d]

StoreUpdate(s, id, d) ==
    IF s[id] = NoDeployment THEN s ELSE [s EXCEPT ![id] = d]

\* The fields a patch carries; the status comes with its error, always both.
PatchFields == {"image", "ports", "domain", "status"}

\* p is a record of which only the named fields are merged; the name never is.
StorePatch(s, id, p, fields) ==
    IF s[id] = NoDeployment
    THEN s
    ELSE [s EXCEPT ![id] =
            [name   |-> s[id].name,
             image  |-> IF "image"  \in fields THEN p.image  ELSE s[id].image,
             ports  |-> IF "ports"  \in fields THEN p.ports  ELSE s[id].ports,
             domain |-> IF "domain" \in fields THEN p.domain ELSE s[id].domain,
             status |-> IF "status" \in fields THEN p.status ELSE s[id].status,
             err    |-> IF "status" \in fields THEN p.err    ELSE s[id].err]]

StoreDelete(s, id) == [s EXCEPT ![id] = NoDeployment]

-----------------------------------------------------------------------------
(* Predicates on records that the handlers and the reconciler use.         *)

\* The errors that contain one of the texts the orchestrator retries on.
IsTransientFailure(err) == err \in {"unavailable", "notRunning"}

\* The name and the domain may change without a redeploy.
UpdateRequiresRedeploy(existing, body) ==
    \/ existing.image # body.image
    \/ existing.ports # body.ports

PatchRequiresRedeploy(existing, body, fields) ==
    \/ "image" \in fields /\ existing.image # body.image
    \/ "ports" \in fields /\ existing.ports # body.ports

UpdateRequestMatchesExisting(existing, body) == ConfigOf(existing) = ConfigOf(body)

\* assignHostPorts refuses a host port that another deployment of the
\* listing binds; skip is the deployment being changed, if any.
HostPortsFree(s, skip, ports) ==
    \A d \in Stored(s) \ skip : s[d].ports \cap ports = {}

\* A domain needs a port of the container for the proxy to reach, which
\* assignHostPorts has bound to some host port.
ValidateProxyPortSelection(domain, ports) == domain = NoDomain \/ ports # {}

=============================================================================
