---------------------------- MODULE Deployments ----------------------------
(***************************************************************************)
(* The deployments file as the control plane sees it: one map that every   *)
(* operation of StoreOps replaces atomically.                              *)
(***************************************************************************)
EXTENDS StoreOps

VARIABLES
    store,      \* [IDs -> Deployment \cup {NoDeployment}], the deployments file
    used        \* the ids drawn so far; newID never draws one twice

storeVars == <<store, used>>

StoreTypeOK ==
    /\ store \in [IDs -> Deployment \cup {NoDeployment}]
    /\ used \subseteq IDs

StoreInit ==
    /\ store = [d \in IDs |-> NoDeployment]
    /\ used = {}

=============================================================================
