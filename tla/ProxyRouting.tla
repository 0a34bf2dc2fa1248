---------------------------- MODULE ProxyRouting ----------------------------
(***************************************************************************)
(* The routing table of the reverse proxy (proxy/internal/routing), the    *)
(* poller that keeps it in step with the store (proxy/internal/poller) and *)
(* the orchestrator's direct updates of it during a redeploy (POST         *)
(* /internal/routes).  The poller and the server's requests run            *)
(* concurrently; each call of the table is atomic.                         *)
(*                                                                         *)
(* A deployment is what the proxy reads of it: its domain as it was typed, *)
(* the upstream of its ports, and its settings, which stand for Public,    *)
(* BasicAuth and Security.                                                 *)
(***************************************************************************)
EXTENDS Naturals, FiniteSets

CONSTANTS
    IDs,
    RawDomains,     \* domains as they are stored
    Domains,        \* domains after normalizeDomain
    Normalize,      \* [RawDomains -> Domains \cup {NoDomain}]
    NoDomain,
    Upstreams,
    NoUpstream,     \* no binding of the deployment is usable
    Settings,
    DefaultSettings,    \* not public, no basic auth, no security config
    NoDeployment,
    NoRoute,
    MaxSaves,       \* bound: changes of the store
    MaxSwaps,       \* bound: redeploys that swap a route
    MaxRestarts     \* bound: restarts of the proxy

ASSUME NormalizeAssumption == Normalize \in [RawDomains -> Domains \cup {NoDomain}]
ASSUME NoDomainAssumption == NoDomain \notin Domains
ASSUME SettingsAssumption == DefaultSettings \in Settings
ASSUME BoundsAssumption == MaxSaves \in Nat /\ MaxSwaps \in Nat /\ MaxRestarts \in Nat

Deployment == [domain : RawDomains, upstream : Upstreams \cup {NoUpstream}, settings : Settings]

Route == [upstream : Upstreams, settings : Settings]

ASSUME NoRouteAssumption == NoRoute \notin Route

VARIABLES
    store,      \* [IDs -> Deployment \cup {NoDeployment}]
    table,      \* [Domains -> Route \cup {NoRoute}], Table.dynamicRoutes
    last,       \* [Domains -> Route \cup {NoRoute}], Poller.last
    current,    \* the routes of the sync under way
    pc,         \* the poller: "idle", "set" or "delete"
    pending,    \* the domains that the loop of the sync has still to visit
    swaps,      \* requests of the orchestrator on their way
    swapped,    \* history: domains whose route setRoute wrote last
    saves, begun, restarts

routeVars == <<table, last, current, pc, pending>>
boundVars == <<saves, begun, restarts>>
vars == <<store, routeVars, swaps, swapped, boundVars>>

Routes == [Domains -> Route \cup {NoRoute}]

TypeOK ==
    /\ store \in [IDs -> Deployment \cup {NoDeployment}]
    /\ table \in Routes /\ last \in Routes /\ current \in Routes
    /\ pc \in {"idle", "set", "delete"}
    /\ pending \subseteq Domains
    /\ swaps \subseteq [domain : Domains, upstream : Upstreams]
    /\ swapped \subseteq Domains
    /\ saves \in 0..MaxSaves /\ begun \in 0..MaxSwaps /\ restarts \in 0..MaxRestarts

NoRoutes == [d \in Domains |-> NoRoute]

Init ==
    /\ store = [i \in IDs |-> NoDeployment]
    /\ table = NoRoutes /\ last = NoRoutes /\ current = NoRoutes
    /\ pc = "idle"
    /\ pending = {}
    /\ swaps = {}
    /\ swapped = {}
    /\ saves = 0 /\ begun = 0 /\ restarts = 0

-----------------------------------------------------------------------------
\* The deployments that the poller considers for domain d.
Candidates(s, d) ==
    {i \in IDs : /\ s[i] # NoDeployment
                 /\ Normalize[s[i].domain] = d
                 /\ s[i].upstream # NoUpstream}

RouteOf(dep) == [upstream |-> dep.upstream, settings |-> dep.settings]

\* What a listing s makes of domain d.  The listing comes out of a Go map,
\* so which one of several deployments with the domain is last, and wins,
\* is anyone's guess.
Wanted(s, d) ==
    IF Candidates(s, d) = {} THEN {NoRoute} ELSE {RouteOf(s[i]) : i \in Candidates(s, d)}

-----------------------------------------------------------------------------
(* Poller.sync.                                                            *)

\* Mutant: domains whose upstream stayed the same are taken for unchanged.
SyncListUpstreams(c) ==
    /\ pc = "idle"
    /\ current' = c
    /\ pending' = {d \in Domains :
                     /\ c[d] # NoRoute
                     /\ last[d] = NoRoute \/ c[d].upstream # last[d].upstream}
    /\ pc' = "set"
    /\ UNCHANGED <<store, table, last, swaps, swapped, boundVars>>

\* Mutant: a listing without routes is taken for a failed one.
SyncListUnlessEmpty(c) ==
    /\ pc = "idle"
    /\ IF \A d \in Domains : c[d] = NoRoute
       THEN UNCHANGED <<current, pending, pc>>
       ELSE /\ current' = c
            /\ pending' = {d \in Domains : c[d] # NoRoute /\ c[d] # last[d]}
            /\ pc' = "set"
    /\ UNCHANGED <<store, table, last, swaps, swapped, boundVars>>

\* List and the building of current; a List that fails changes nothing.
SyncList(c) ==
    /\ pc = "idle"
    /\ current' = c
    /\ pending' = {d \in Domains : c[d] # NoRoute /\ c[d] # last[d]}
    /\ pc' = "set"
    /\ UNCHANGED <<store, table, last, swaps, swapped, boundVars>>

\* One round of the loop that sets new and changed routes, in any order.
SyncSet(d) ==
    /\ pc = "set"
    /\ d \in pending
    /\ table' = [table EXCEPT ![d] = current[d]]
    /\ swapped' = swapped \ {d}
    /\ pending' = pending \ {d}
    /\ UNCHANGED <<store, last, current, pc, swaps, boundVars>>

SyncSetDone ==
    /\ pc = "set"
    /\ pending = {}
    /\ pending' = {d \in Domains : last[d] # NoRoute /\ current[d] = NoRoute}
    /\ pc' = "delete"
    /\ UNCHANGED <<store, table, last, current, swaps, swapped, boundVars>>

SyncDelete(d) ==
    /\ pc = "delete"
    /\ d \in pending
    /\ table' = [table EXCEPT ![d] = NoRoute]
    /\ swapped' = swapped \ {d}
    /\ pending' = pending \ {d}
    /\ UNCHANGED <<store, last, current, pc, swaps, boundVars>>

SyncDone ==
    /\ pc = "delete"
    /\ pending = {}
    /\ last' = current
    /\ pc' = "idle"
    /\ UNCHANGED <<store, table, current, pending, swaps, swapped, boundVars>>

\* The choices of a listing, domain by domain.
Listings == {c \in [Domains -> Route \cup {NoRoute}] : \A d \in Domains : c[d] \in Wanted(store, d)}

Sync ==
    \/ \E c \in Listings : SyncList(c)
    \/ \E d \in Domains : SyncSet(d) \/ SyncDelete(d)
    \/ SyncSetDone
    \/ SyncDone

-----------------------------------------------------------------------------
(* setRoute, and the redeploys that call it.                               *)

\* A redeploy of deployment i comes to swapProxyRoute with the record of its
\* snapshot; the request may be served much later, or never.
SwapProxyRoute(i) ==
    /\ begun < MaxSwaps
    /\ store[i] # NoDeployment
    /\ Normalize[store[i].domain] # NoDomain
    /\ store[i].upstream # NoUpstream
    /\ swaps' = swaps \cup {[domain |-> Normalize[store[i].domain], upstream |-> store[i].upstream]}
    /\ begun' = begun + 1
    /\ UNCHANGED <<store, routeVars, swapped, saves, restarts>>

SetRoute(m) ==
    /\ m \in swaps
    /\ swaps' = swaps \ {m}
    /\ table' = [table EXCEPT ![m.domain] =
                   [upstream |-> m.upstream, settings |-> DefaultSettings]]
    /\ swapped' = swapped \cup {m.domain}
    /\ UNCHANGED <<store, last, current, pc, pending, boundVars>>

SwapLost(m) ==
    /\ m \in swaps
    /\ swaps' = swaps \ {m}
    /\ UNCHANGED <<store, routeVars, swapped, boundVars>>

-----------------------------------------------------------------------------
(* The rest of the system.                                                 *)

Save(i, dep) ==
    /\ saves < MaxSaves
    /\ store' = [store EXCEPT ![i] = dep]
    /\ store' # store
    /\ saves' = saves + 1
    /\ UNCHANGED <<routeVars, swaps, swapped, begun, restarts>>

\* The table and what the poller remembers live in memory.
Restart ==
    /\ restarts < MaxRestarts
    /\ restarts' = restarts + 1
    /\ table' = NoRoutes /\ last' = NoRoutes /\ current' = NoRoutes
    /\ pc' = "idle"
    /\ pending' = {}
    /\ swaps' = {}
    /\ swapped' = {}
    /\ UNCHANGED <<store, saves, begun>>

Next ==
    \/ Sync
    \/ \E i \in IDs : SwapProxyRoute(i)
    \/ \E m \in swaps : SetRoute(m) \/ SwapLost(m)
    \/ \E i \in IDs, dep \in Deployment \cup {NoDeployment} : Save(i, dep)
    \/ Restart

Spec == Init /\ [][Next]_vars

\* The ticker keeps the poller going, and a loop over a map visits every
\* key; requests that are on their way are served or lost.
Fairness ==
    /\ WF_vars(Sync)
    /\ WF_vars(\E m \in swaps : SetRoute(m) \/ SwapLost(m))

LiveSpec == Spec /\ Fairness

-----------------------------------------------------------------------------
(* Properties.                                                             *)

\* The poller writes only the differences to its last listing, so the table
\* must hold what it remembers: a route that setRoute did not write since is
\* the one of the last listing or, while a sync is under way, of the new
\* one, never neither and never another domain's.
RouteOldOrNew ==
    \A d \in Domains \ swapped : table[d] \in {last[d], current[d]}

\* Once the store is left alone, the table settles on what it says, for
\* every domain that setRoute did not touch.
RoutesFollowStore ==
    \A d \in Domains : <>[](d \in swapped \/ table[d] \in Wanted(store, d))

\* "I want the proxy to stop routing to a deployment when it is removed"
\* (prds/04-reverse-proxy.md): the route of a domain that the poller once
\* listed does not outlive the last deployment with that domain.  The
\* poller looks for removed domains in its last listing only, and a route
\* that setRoute adds after the poller dropped the domain is in none.
RemovedNotRouted ==
    \A d \in Domains :
        <>(last[d] # NoRoute) =>
            <>[]((\A i \in IDs : store[i] # NoDeployment => Normalize[store[i].domain] # d) =>
                    table[d] = NoRoute)

-----------------------------------------------------------------------------
(* The inductive invariant behind RouteOldOrNew.                           *)

\* Domains that differ are still to be visited by the sync's loops.
PendingCovers ==
    /\ pc = "idle" => last = current /\ pending = {}
    /\ pc = "set" => \A d \in Domains \ swapped :
          table[d] # current[d] => table[d] = last[d] /\ (d \in pending \/ current[d] = NoRoute)
    /\ pc = "delete" => \A d \in Domains \ swapped :
          table[d] # current[d] => table[d] = last[d] /\ d \in pending
    /\ pc = "set" => \A d \in pending : current[d] # NoRoute
    /\ pc = "delete" => \A d \in pending : current[d] = NoRoute

Inv == TypeOK /\ RouteOldOrNew /\ PendingCovers

=============================================================================
