---------------------------- MODULE MCJSONStore ----------------------------
(* A small instance of the file-backed store: two threads of the API and    *)
(* one of the orchestrator.                                                 *)
EXTENDS JSONStore

CONSTANT Reconciler       \* the orchestrator's thread

Owner == [t \in Threads |-> IF t = Reconciler THEN "orchestrator" ELSE "api"]

Body(status) ==
    [name |-> "web", image |-> "v1", ports |-> {}, domain |-> NoDomain,
     status |-> status, err |-> "none"]

Req(op, id, body, fields, prefix) ==
    [op |-> op, id |-> id, body |-> body, fields |-> fields, prefix |-> prefix]

\* One deployment and two registries that compete for two prefixes, side by
\* side in the file.
FileRequests ==
    {Req("create", 2, Body("idle"), {}, "docker.io"),
     Req("update", 1, Body("idle"), {}, "docker.io"),
     Req("patch", 1, Body("healthy"), {"status"}, "docker.io"),
     Req("delete", 1, Body("idle"), {}, "docker.io"),
     Req("createRegistry", 2, Body("idle"), {}, "docker.io"),
     Req("createRegistry", 1, Body("idle"), {}, "ghcr.io"),
     Req("updateRegistry", 1, Body("idle"), {}, "docker.io"),
     Req("deleteRegistry", 2, Body("idle"), {}, "docker.io"),
     Req("read", 1, Body("idle"), {}, "docker.io")}

\* The orchestrator lists the deployments and patches statuses; the handlers
\* of the API do the rest.  Its Patch takes the same steps as its Update, and
\* UpdateStatus has no caller.
RequestsBy ==
    [api          |-> {q \in FileRequests : q.op # "patch"},
     orchestrator |-> {q \in FileRequests : q.op \in {"read", "patch"}}]

=============================================================================
