--------------------------- MODULE StoreRequests ---------------------------
(***************************************************************************)
(* What a caller may ask of the store and what each request does to the    *)
(* persisted state, deployments and registries together.  The specification*)
(* of the atomic store and the file-backed one are both written with these *)
(* operators.                                                              *)
(***************************************************************************)
EXTENDS StoreOps

CONSTANTS
    Prefixes,       \* registry prefixes, after normalizeRegistryPrefix
    NoRegistry      \* what the state holds for an id without a registry

\* persistedState.  A registry is its prefix: the user name and the
\* encrypted password come and go with it.
State == [deployments : [IDs -> Deployment \cup {NoDeployment}],
          registries  : [IDs -> Prefixes \cup {NoRegistry}]]

EmptyState == [deployments |-> [d \in IDs |-> NoDeployment],
               registries  |-> [r \in IDs |-> NoRegistry]]

\* A request names its operation; fields it has no use for are arbitrary.
Request == [op     : {"create", "update", "patch", "delete", "updateStatus",
                      "createRegistry", "updateRegistry", "deleteRegistry", "read"},
            id     : IDs,
            body   : Deployment,
            fields : SUBSET PatchFields,
            prefix : Prefixes]

DeploymentOps == {"create", "update", "patch", "delete", "updateStatus"}

Codes == {"ok", "notFound", "duplicate", "error"}

\* An answer: the error, if any, and what a reading request saw.
Answer == [code : Codes, seen : State]

Reply(code) == [code |-> code, seen |-> EmptyState]

-----------------------------------------------------------------------------
\* Mutant: the registry is compared with itself.
PrefixTakenByItself(rs, r, prefix) == rs[r] = prefix

\* Another registry has the prefix.
PrefixTaken(rs, r, prefix) ==
    \E other \in IDs \ {r} : rs[other] = prefix

\* The error a request is refused with.  UpdateRegistry meets a taken
\* prefix before it finds out that its own id is missing; UpdateStatus of
\* a deployment that is gone is no error.
Code(q, s) ==
    CASE q.op = "create" ->
            IF \E e \in Stored(s.deployments) : s.deployments[e].name = q.body.name
            THEN "duplicate" ELSE "ok"
      [] q.op \in {"update", "patch", "delete"} ->
            IF s.deployments[q.id] = NoDeployment THEN "notFound" ELSE "ok"
      [] q.op = "createRegistry" ->
            IF PrefixTaken(s.registries, q.id, q.prefix) THEN "duplicate" ELSE "ok"
      [] q.op = "updateRegistry" ->
            IF PrefixTaken(s.registries, q.id, q.prefix) THEN "duplicate"
            ELSE IF s.registries[q.id] = NoRegistry THEN "notFound" ELSE "ok"
      [] q.op = "deleteRegistry" ->
            IF s.registries[q.id] = NoRegistry THEN "notFound" ELSE "ok"
      [] q.op \in {"updateStatus", "read"} -> "ok"

\* The deployments after a request that is not refused.
DeploymentsAfter(q, ds) ==
    CASE q.op = "create" -> StoreCreate(ds, q.id, q.body)
      [] q.op = "update" -> StoreUpdate(ds, q.id, q.body)
      [] q.op = "patch"  -> StorePatch(ds, q.id, q.body, q.fields)
      [] q.op = "delete" -> StoreDelete(ds, q.id)
      [] q.op = "updateStatus" ->
            StorePatch(ds, q.id, [q.body EXCEPT !.err = "none"], {"status"})
      [] OTHER -> ds

\* The registries after a request that is not refused.
RegistriesAfter(q, rs) ==
    CASE q.op \in {"createRegistry", "updateRegistry"} -> [rs EXCEPT ![q.id] = q.prefix]
      [] q.op = "deleteRegistry" -> [rs EXCEPT ![q.id] = NoRegistry]
      [] OTHER -> rs

\* Whether the state is persisted: not for reads and refused requests, nor
\* for UpdateStatus of a deployment that is gone.
Persists(q, s) ==
    /\ q.op # "read"
    /\ Code(q, s) = "ok"
    /\ q.op = "updateStatus" => s.deployments[q.id] # NoDeployment

Effect(q, s) ==
    IF Persists(q, s)
    THEN [deployments |-> DeploymentsAfter(q, s.deployments),
          registries  |-> RegistriesAfter(q, s.registries)]
    ELSE s

\* What the caller is told when the request was served from state s.
AnswerTo(q, s) ==
    [code |-> Code(q, s), seen |-> IF q.op = "read" THEN s ELSE EmptyState]

=============================================================================
