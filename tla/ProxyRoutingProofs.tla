------------------------- MODULE ProxyRoutingProofs -------------------------
(***************************************************************************)
(* The poller's differences keep the routing table in step with what it    *)
(* remembers, for any number of deployments, domains, saves and swaps.     *)
(***************************************************************************)
EXTENDS ProxyRouting, TLAPS

\* The table, the memory of the poller and the store start out empty.
LEMMA InitInv == ASSUME Init PROVE Inv
<1>1. NoRoutes \in Routes
  BY DEF NoRoutes, Routes
<1>2. TypeOK
  BY <1>1, BoundsAssumption DEF Init, TypeOK
<1>3. RouteOldOrNew /\ PendingCovers
  BY DEF Init, RouteOldOrNew, PendingCovers
<1> QED BY <1>2, <1>3 DEF Inv

\* A listing: what differs from the last one is pending.
LEMMA SyncListInv ==
    ASSUME Inv, NEW c \in Listings, SyncList(c) PROVE Inv'
<1>1. c \in Routes
  BY DEF Listings, Routes
<1>2. TypeOK'
  BY <1>1 DEF Inv, TypeOK, SyncList, boundVars
<1>3. \A d \in Domains \ swapped : table[d] = last[d]
  BY DEF Inv, RouteOldOrNew, PendingCovers, SyncList
<1>4. RouteOldOrNew'
  BY <1>3 DEF RouteOldOrNew, SyncList
<1>5. PendingCovers'
  BY <1>3 DEF PendingCovers, SyncList
<1> QED BY <1>2, <1>4, <1>5 DEF Inv

\* One round of either loop brings one domain up to date.
LEMMA SyncLoopInv ==
    ASSUME Inv, NEW e \in Domains, SyncSet(e) \/ SyncDelete(e) PROVE Inv'
<1>1. table \in Routes /\ current \in Routes
  BY DEF Inv, TypeOK
<1>2. /\ e \in pending /\ pending' = pending \ {e} /\ swapped' = swapped \ {e}
      /\ UNCHANGED <<store, last, current, pc, swaps, boundVars>> /\ pc \in {"set", "delete"}
  BY DEF SyncSet, SyncDelete
<1>3. table' = [table EXCEPT ![e] = current[e]]
  BY DEF SyncSet, SyncDelete, Inv, PendingCovers
<1>4. table' \in Routes /\ table'[e] = current[e] /\ \A d \in Domains \ {e} : table'[d] = table[d]
  BY <1>1, <1>3 DEF Routes
<1>5. TypeOK'
  BY <1>2, <1>4 DEF Inv, TypeOK, boundVars
<1>6. RouteOldOrNew'
  BY <1>2, <1>4 DEF Inv, RouteOldOrNew
<1>7. PendingCovers'
  BY <1>2, <1>4 DEF Inv, PendingCovers
<1> QED BY <1>5, <1>6, <1>7 DEF Inv

\* Between the loops, and at the end of a sync, nothing is left pending.
LEMMA SyncPhaseInv ==
    ASSUME Inv, SyncSetDone \/ SyncDone PROVE Inv'
<1>1. CASE SyncSetDone
  <2>1. TypeOK'
    BY <1>1 DEF Inv, TypeOK, SyncSetDone, boundVars
  <2>2. RouteOldOrNew'
    BY <1>1 DEF Inv, RouteOldOrNew, SyncSetDone
  <2>3. PendingCovers'
    BY <1>1 DEF Inv, PendingCovers, SyncSetDone
  <2> QED BY <2>1, <2>2, <2>3 DEF Inv
<1>2. CASE SyncDone
  <2>1. TypeOK'
    BY <1>2 DEF Inv, TypeOK, SyncDone, boundVars
  <2>2. \A d \in Domains \ swapped : table[d] = current[d]
    BY <1>2 DEF Inv, PendingCovers, SyncDone
  <2>3. RouteOldOrNew'
    BY <1>2, <2>2 DEF RouteOldOrNew, SyncDone
  <2>4. PendingCovers'
    BY <1>2 DEF PendingCovers, SyncDone
  <2> QED BY <2>1, <2>3, <2>4 DEF Inv
<1> QED BY <1>1, <1>2

\* A swap writes one route and marks its domain.
LEMMA SetRouteInv ==
    ASSUME Inv, NEW m \in swaps, SetRoute(m) PROVE Inv'
<1>1. m.domain \in Domains /\ m.upstream \in Upstreams /\ table \in Routes
  BY DEF Inv, TypeOK
<1> DEFINE r == [upstream |-> m.upstream, settings |-> DefaultSettings]
<1>2. r \in Route
  BY <1>1, SettingsAssumption DEF Route
<1>3. table' = [table EXCEPT ![m.domain] = r] /\ swapped' = swapped \cup {m.domain}
  BY DEF SetRoute
<1> HIDE DEF r
<1>4. table' \in Routes /\ \A d \in Domains \ {m.domain} : table'[d] = table[d]
  BY <1>1, <1>2, <1>3 DEF Routes
<1>5. swaps' \subseteq swaps /\ UNCHANGED <<store, last, current, pc, pending, boundVars>>
  BY DEF SetRoute
<1>6. TypeOK'
  BY <1>1, <1>3, <1>4, <1>5 DEF Inv, TypeOK, boundVars
<1>7. RouteOldOrNew'
  BY <1>3, <1>4, <1>5 DEF Inv, RouteOldOrNew
<1>8. PendingCovers'
  BY <1>3, <1>4, <1>5 DEF Inv, PendingCovers
<1> QED BY <1>6, <1>7, <1>8 DEF Inv

\* The invariant is inductive.
LEMMA NextInv == ASSUME Inv, [Next]_vars PROVE Inv'
<1>1. ASSUME NEW i \in IDs, SwapProxyRoute(i) PROVE Inv'
  <2>1. /\ UNCHANGED <<store, routeVars, swapped, saves, restarts>>
        /\ swaps' \subseteq [domain : Domains, upstream : Upstreams]
        /\ begun' \in 0..MaxSwaps
    <3>1. store[i] \in Deployment
      BY <1>1 DEF SwapProxyRoute, Inv, TypeOK
    <3>2. Normalize[store[i].domain] \in Domains /\ store[i].upstream \in Upstreams
      BY <1>1, <3>1, NormalizeAssumption DEF SwapProxyRoute, Deployment
    <3>3. begun' \in 0..MaxSwaps
      BY <1>1, BoundsAssumption DEF SwapProxyRoute, Inv, TypeOK
    <3> QED BY <1>1, <3>2, <3>3 DEF SwapProxyRoute, Inv, TypeOK
  <2> QED BY <2>1 DEF Inv, TypeOK, RouteOldOrNew, PendingCovers, routeVars
<1>2. ASSUME NEW m \in swaps, SwapLost(m) PROVE Inv'
  BY <1>2 DEF SwapLost, Inv, TypeOK, RouteOldOrNew, PendingCovers, routeVars, boundVars
<1>3. ASSUME NEW i \in IDs, NEW dep \in Deployment \cup {NoDeployment}, Save(i, dep) PROVE Inv'
  <2>1. /\ store' \in [IDs -> Deployment \cup {NoDeployment}]
        /\ UNCHANGED <<routeVars, swaps, swapped, begun, restarts>>
    BY <1>3 DEF Save, Inv, TypeOK
  <2>2. saves' \in 0..MaxSaves
    BY <1>3, BoundsAssumption DEF Save, Inv, TypeOK
  <2> QED BY <2>1, <2>2 DEF Inv, TypeOK, RouteOldOrNew, PendingCovers, routeVars
<1>4. CASE Restart
  <2>1. NoRoutes \in Routes
    BY DEF NoRoutes, Routes
  <2>2. restarts' \in 0..MaxRestarts
    BY <1>4, BoundsAssumption DEF Restart, Inv, TypeOK
  <2> QED BY <1>4, <2>1, <2>2 DEF Restart, Inv, TypeOK, RouteOldOrNew, PendingCovers
<1>5. CASE UNCHANGED vars
  BY <1>5 DEF vars, routeVars, boundVars, Inv, TypeOK, RouteOldOrNew, PendingCovers
<1> QED BY <1>1, <1>2, <1>3, <1>4, <1>5, SyncListInv, SyncLoopInv, SyncPhaseInv, SetRouteInv
        DEF Next, Sync

\* The routing table, the poller's listings and the swaps under way never
\* leave their types (Table.Set, Delete and Swap, Poller.sync).
THEOREM TypeCorrect == Spec => []TypeOK
<1>1. Init => Inv
  BY InitInv
<1>2. Inv /\ [Next]_vars => Inv'
  BY NextInv
<1>3. Inv => TypeOK
  BY DEF Inv
<1> QED BY <1>1, <1>2, <1>3, PTL DEF Spec

\* Every route that setRoute did not write is the one the poller last
\* listed or, during a sync, lists now: writing only the differences loses
\* nothing, whatever is saved, swapped or restarted meanwhile.
THEOREM RouteOldOrNewHolds == Spec => []RouteOldOrNew
<1>1. Init => Inv
  BY InitInv
<1>2. Inv /\ [Next]_vars => Inv'
  BY NextInv
<1>3. Inv => RouteOldOrNew
  BY DEF Inv
<1> QED BY <1>1, <1>2, <1>3, PTL DEF Spec

=============================================================================
