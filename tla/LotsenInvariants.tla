-------------------------- MODULE LotsenInvariants --------------------------
(***************************************************************************)
(* The inductive invariant behind the safety properties of module Lotsen,  *)
(* as a conjunction of named parts.  LotsenProofs proves that every step   *)
(* preserves it.                                                           *)
(***************************************************************************)
EXTENDS Lotsen

\* The goroutine is visiting a deployment of its snapshot.
VisitPCs == {"visit", "start", "create", "run", "verify", "resolve", "retire", "rename",
             "patch", "notify", "await"}

\* A container was created for the visit and is being brought up.
StartingPCs == {"run", "verify", "resolve", "retire", "rename"}

\* Start or StartAndReplace is running and the old container is not retired.
BusyPCs == {"start", "create", "run", "verify", "resolve", "retire"}

\* What the local variables of a pass hold at each point of it.
VisitOK ==
    /\ todo \subseteq Stored(snap)
    /\ pc = "idle" => todo = {}
    /\ pc \in VisitPCs => cur \in Stored(snap) /\ cur \notin todo
    /\ mode = "replace" => prim \in CIDs \ {"none"} /\ pc \in VisitPCs \ {"visit"}
    /\ pc \in {"idle", "ping", "down"} => prim = "none"
    /\ pc \in {"verify", "retire", "rename"} => mode = "replace"
    /\ pc \in StartingPCs => new \in CIDs
    /\ pc = "run" => containers[new] # NoContainer

-----------------------------------------------------------------------------
(* Deployment ids.                                                         *)

Dead(d) == d \in used /\ store[d] = NoDeployment

\* newID never draws an id twice, so an id that a create is about to write
\* was never stored.
FreshIDs ==
    \A c \in Clients : req[c].op = "create" =>
        /\ req[c].id \notin used
        /\ \A k \in Clients : (req[k].op = "create" /\ req[k].id = req[c].id) => k = c

IDsKnown ==
    /\ Stored(store) \subseteq used
    /\ Stored(snap) \subseteq used
    /\ \A c \in Existing(containers) : containers[c].dep \in used

\* During a pass a container belongs to a deployment of the snapshot or to
\* one that was deleted, and so does every container of the listing.
SnapshotCovers ==
    /\ pc # "idle" => \A c \in Existing(containers) :
                        containers[c].dep \in Stored(snap) \/ Dead(containers[c].dep)
    /\ pc \in {"idle", "ping"} => seen = NoneSeen
    /\ \A c \in Existing(seen) : seen[c].dep \in Stored(snap) \/ Dead(seen[c].dep)
    /\ \A c \in Existing(seen) \cap Existing(containers) : seen[c].dep = containers[c].dep
    /\ pc = "orphans" => rm \subseteq Orphans

-----------------------------------------------------------------------------
(* Containers of the deployment being visited.                             *)

\* The containers of a deployment that the pass has not reached are all
\* there; the primary is there until it is removed on purpose.
ListedKept ==
    /\ \A c \in Existing(seen) : seen[c].dep \in todo => containers[c] # NoContainer
    /\ pc = "visit" => rm \subseteq Candidates(cur) \ {prim}
    /\ (pc \in VisitPCs /\ prim # "none") => prim \in Candidates(cur)
    /\ (pc = "visit" /\ prim # "none") => containers[prim] # NoContainer
    /\ (pc \in BusyPCs /\ mode = "replace") => containers[prim] # NoContainer

\* The container being brought up is the deployment's, made from the
\* snapshot's image, and none that the pass listed.
NewOK ==
    (\/ pc \in StartingPCs
     \/ pc = "patch" /\ report.status = "healthy" /\ report.setPorts) =>
        /\ new \in Existing(containers)
        /\ containers[new].dep = cur
        /\ containers[new].image = snap[cur].image
        /\ seen[new] = NoContainer

-----------------------------------------------------------------------------
(* The retry back-off.                                                     *)

\* While a pass works on a deployment that had not failed, its back-off is
\* the one that VisitDeployment cleared.
RetryCleared ==
    (pc \in VisitPCs \ {"patch", "notify", "await"} /\ snap[cur].status # "failed") =>
        retry[cur] = NoRetry

\* The pass in which the ping failed visits no failed deployment; only the
\* last ping tells it from the others once a status is being written.
DownPass ==
    /\ pc = "down" => lastReachable = "no"
    /\ pc \in {"list", "each"} \cup (VisitPCs \ {"patch", "notify", "await"}) =>
          lastReachable = "yes"
    /\ pc \in VisitPCs => lastReachable \in {"yes", "no"}
    /\ (pc \in VisitPCs \cup {"down"} /\ lastReachable = "no") =>
          \A d \in todo : snap[d].status # "failed"

-----------------------------------------------------------------------------
(* Deployments have one container as long as nothing fails.                *)

\* StartAndReplace has created the new container beside the old one.
Replacing == pc \in {"run", "verify", "resolve", "retire"} /\ mode = "replace"

\* Without a fault no pass is cut short, the listing stays complete for
\* what is still to visit, and only a replacement has two containers.
Single ==
    faults = 0 =>
        /\ lastReachable # "no" /\ pc # "down"
        /\ \A a, b \in Existing(containers) : containers[a].dep = containers[b].dep =>
              a = b \/ (Replacing /\ {a, b} = {prim, new})
        /\ (pc = "visit" /\ prim = "none") \/ (pc \in {"start", "create"} /\ mode = "fresh") =>
              \A c \in Existing(containers) : containers[c].dep # cur
        /\ pc \in VisitPCs \cup {"each"} =>
              \A c \in Existing(containers) : containers[c].dep \in todo => seen[c] # NoContainer

Inv ==
    /\ TypeOK
    /\ VisitOK
    /\ FreshIDs
    /\ IDsKnown
    /\ SnapshotCovers
    /\ ListedKept
    /\ NewOK
    /\ OldKeptOnFailedReplace
    /\ Single

=============================================================================
