--------------------------- MODULE ProxyRequests ----------------------------
(***************************************************************************)
(* The requests that the reverse proxy serves (Handler.proxy of            *)
(* proxy/internal/handler/handler.go): each runs in a goroutine of its own *)
(* through the scanner limiter, the IP filter, the blocked paths, the      *)
(* routing table, the user-agent filter, the WAF, basic auth and the       *)
(* session token, is forwarded or refused, and is logged (AccessLogs).     *)
(* The limiter takes its lock for every call and is told the time at which *)
(* the request arrived; the route is read once; the settings of the        *)
(* dashboard's domain are read from a file, three times per request.       *)
(*                                                                         *)
(* A request is where it comes from, where it goes, whether it asks for a  *)
(* path that scanners ask for, and the checks that it would fail if they   *)
(* were applied.  A WAF that cannot evaluate a request lets it through,    *)
(* so that such a request fails no check of the WAF.                       *)
(***************************************************************************)
EXTENDS AccessLogs

CONSTANTS
    Clients,       \* addresses of clients
    NoClient,      \* no address could be made out of the request
    Hosts,
    Dashboard,     \* the dashboard's domain
    Kinds,         \* the requests that may arrive
    Policies,      \* the checks that a deployment or the dashboard may ask for
    NoRoute,
    Threshold, Window, BlockFor,    \* the hardening profile
    MaxEvents      \* bound: changes of routes and settings, failed writes of the
                   \* log, restarts of the proxy, and readers of the log

\* "global" and "agent" are the proxy's own; "mode" is the access mode of
\* the dashboard that includes the WAF.
Checks == {"global", "agent", "ip", "mode", "waf", "basic", "token"}

ASSUME RequestAssumption ==
    /\ NoClient \notin Clients
    /\ Dashboard \in Hosts
    /\ Kinds \subseteq [client : Clients \cup {NoClient}, host : Hosts, scan : BOOLEAN,
                        fails : SUBSET Checks]
    /\ Policies \subseteq SUBSET (Checks \ {"global", "agent"}) /\ Policies # {}
    /\ NoRoute \notin Policies
    /\ Threshold \in Nat \ {0} /\ Window \in Nat /\ BlockFor \in Nat
    /\ MaxEvents \in Nat

VARIABLES
    request,    \* the goroutines
    entries,    \* [Clients -> Entry], scannerLimiter.entries
    policy,     \* the checks that the routes, and the dashboard's settings, ask for
    scans,      \* history: suspicious requests of a client that were recorded
    lastScan,   \* history: the latest arrival of those
    blocks,     \* history: how often a client was blocked
    events

vars == <<clock, logVars, reader, request, entries, policy, scans, lastScan, blocks, events>>

Entry == [windowStart : 0..MaxTime, count : Nat, blockedUntil : Nat]
NoEntry == [windowStart |-> 0, count |-> 0, blockedUntil |-> 0]

\* force is history: the checks that every route, or setting, of its host has
\* asked for since it arrived.
Request == [pc : {"arrived", "admitted", "routed", "filtered", "inspected", "forwarding",
                  "answered", "logging"},
            at : Times, kind : Kinds, force : SUBSET Checks]

New == [pc |-> "new"]
Done == [pc |-> "done"]

TypeOK ==
    /\ LogTypeOK
    /\ request \in [Requests -> Request \cup {New, Done}]
    /\ entries \in [Clients -> Entry]
    /\ policy \in [Hosts -> Policies \cup {NoRoute}] /\ policy[Dashboard] # NoRoute
    /\ scans \in [Clients -> Nat] /\ blocks \in [Clients -> Nat]
    /\ lastScan \in [Clients -> 0..MaxTime]
    /\ events \in 0..MaxEvents

Init ==
    /\ LogInit
    /\ reader = NotReading
    /\ request = [r \in Requests |-> New]
    /\ entries = [c \in Clients |-> NoEntry]
    /\ \E p \in Policies : policy = [h \in Hosts |-> IF h = Dashboard THEN p ELSE NoRoute]
    /\ scans = [c \in Clients |-> 0] /\ lastScan = [c \in Clients |-> 0]
    /\ blocks = [c \in Clients |-> 0]
    /\ events = 0

At(r, pc) == request[r].pc = pc
Active(r) == ~At(r, "new") /\ ~At(r, "done")

limiterVars == <<entries, scans, lastScan, blocks>>
elsewhere == <<clock, logVars, reader, policy, events>>

Another == events < MaxEvents /\ events' = events + 1

Moves(r, pc) == request' = [request EXCEPT ![r].pc = pc]

-----------------------------------------------------------------------------
(* The limiter.                                                            *)

Blocked(e, now) == now < e.blockedUntil

\* IsBlocked forgets a block that has expired.
Unblocked(e, now) ==
    IF e.blockedUntil # 0 THEN [windowStart |-> now, count |-> 0, blockedUntil |-> 0] ELSE e

\* The count of the window after one more, in a new window if it is over.
Counted(e, now) ==
    IF e.windowStart = 0 \/ now > e.windowStart + Window
    THEN [e EXCEPT !.windowStart = now, !.count = 1]
    ELSE [e EXCEPT !.count = @ + 1]

BlockEarned(e, now) == Counted(e, now).count >= Threshold

\* Mutant: a block begins when the request is recorded.
SuspiciousLate(e, now) ==
    IF BlockEarned(e, now)
    THEN [windowStart |-> now, count |-> 0, blockedUntil |-> clock + BlockFor]
    ELSE Counted(e, now)

\* Mutant: the count goes on after a block.
SuspiciousKeeping(e, now) ==
    IF BlockEarned(e, now) THEN [Counted(e, now) EXCEPT !.blockedUntil = now + BlockFor]
    ELSE Counted(e, now)

Suspicious(e, now) ==
    IF BlockEarned(e, now)
    THEN [windowStart |-> now, count |-> 0, blockedUntil |-> now + BlockFor]
    ELSE Counted(e, now)

RecordSuspicious(c, now) ==
    IF c = NoClient THEN UNCHANGED limiterVars
    ELSE /\ entries' = [entries EXCEPT ![c] = Suspicious(@, now)]
         /\ scans' = [scans EXCEPT ![c] = @ + 1]
         /\ lastScan' = [lastScan EXCEPT ![c] = IF now > @ THEN now ELSE @]
         /\ blocks' = [blocks EXCEPT ![c] = IF BlockEarned(entries[c], now) THEN @ + 1 ELSE @]

-----------------------------------------------------------------------------
(* The handler.                                                            *)

Arrive(r, kind) ==
    /\ At(r, "new")
    /\ request' = [request EXCEPT ![r] =
                     [pc |-> "arrived", at |-> clock, kind |-> kind,
                      force |-> IF policy[kind.host] = NoRoute THEN {} ELSE policy[kind.host]]]
    /\ UNCHANGED <<limiterVars, elsewhere>>

\* IsBlocked, if there is an address to ask for.
Admit(r) ==
    /\ At(r, "arrived")
    /\ LET c == request[r].kind.client
       IN  IF c = NoClient THEN Moves(r, "admitted") /\ UNCHANGED entries
           ELSE IF Blocked(entries[c], request[r].at)
           THEN Moves(r, "answered") /\ UNCHANGED entries
           ELSE /\ Moves(r, "admitted")
                /\ entries' = [entries EXCEPT ![c] = Unblocked(@, request[r].at)]
    /\ UNCHANGED <<scans, lastScan, blocks, elsewhere>>

(* The checks, applied by the proxy itself or as p, the route or the       *)
(* dashboard's settings, asks for.                                         *)

Fails(r, check) == check \in request[r].kind.fails

EvaluateGlobal(r) == Fails(r, "global")

ShouldBlockPath(r) == request[r].kind.scan

EvaluateDeployment(r, p) == "ip" \in p /\ Fails(r, "ip")

AgentBlocked(r) == Fails(r, "agent")

\* Under detection the WAF only remarks.
WAFBlocks(r, p) == "waf" \in p /\ Fails(r, "waf")

BasicAuthFails(r, p) == "basic" \in p /\ Fails(r, "basic")

\* Unless the route is public.
TokenMissing(r, p) == "token" \in p /\ Fails(r, "token")

\* All that a deployment asks for.
Refuses(r, p) ==
    \/ EvaluateDeployment(r, p) \/ AgentBlocked(r) \/ WAFBlocks(r, p)
    \/ BasicAuthFails(r, p) \/ TokenMissing(r, p)

\* The proxy's own lists, the paths that it blocks, the routing table, and
\* the checks of a deployment, which are all there in the route that was read.
Screen(r) ==
    /\ At(r, "admitted")
    /\ LET kind == request[r].kind
           p == policy[kind.host]
           scanned == ~EvaluateGlobal(r) /\ ShouldBlockPath(r)
       IN  /\ IF scanned THEN RecordSuspicious(kind.client, request[r].at) ELSE UNCHANGED limiterVars
           /\ IF EvaluateGlobal(r) \/ scanned \/ p = NoRoute THEN Moves(r, "answered")
              ELSE IF kind.host = Dashboard THEN Moves(r, "routed")
              ELSE Moves(r, IF Refuses(r, p) THEN "answered" ELSE "forwarding")
    /\ UNCHANGED elsewhere

\* What the resolvers read of the dashboard's settings.
DashboardWAFConfig == policy[Dashboard] \ {"mode"}

\* Mutant: the access mode with the WAF is taken for the one without.
DashboardModeExcludesWAF == "mode" \notin policy[Dashboard]

DashboardModeIncludesWAF == "mode" \in policy[Dashboard]

\* The dashboard's list of addresses is read from its settings.
EvaluateDashboard(r) ==
    /\ At(r, "routed")
    /\ Moves(r, IF EvaluateDeployment(r, DashboardWAFConfig) \/ AgentBlocked(r)
                THEN "answered" ELSE "filtered")
    /\ UNCHANGED <<limiterVars, elsewhere>>

\* They are read again for its access mode.  The dashboard has neither basic
\* auth nor a token: it has a login of its own.
ResolveMode(r) ==
    /\ At(r, "filtered")
    /\ Moves(r, IF DashboardModeIncludesWAF THEN "inspected" ELSE "forwarding")
    /\ UNCHANGED <<limiterVars, elsewhere>>

\* And once more for the mode of the WAF.
EvaluateWAF(r) ==
    /\ At(r, "inspected")
    /\ Moves(r, IF WAFBlocks(r, DashboardWAFConfig) THEN "answered" ELSE "forwarding")
    /\ UNCHANGED <<limiterVars, elsewhere>>

\* The deferred call of Log, after an answer of the proxy or of the upstream.
Log(r) ==
    /\ At(r, "answered") \/ At(r, "forwarding")
    /\ ReadClock(r)
    /\ Moves(r, "logging")
    /\ UNCHANGED <<clock, reader, policy, limiterVars, events>>

Return(r) ==
    /\ At(r, "logging")
    /\ WriteLine(r) \/ DropLine(r)
    /\ request' = [request EXCEPT ![r] = Done]
    /\ UNCHANGED <<clock, reader, policy, limiterVars, events>>

ReturnUnlogged(r) ==
    /\ At(r, "logging")
    /\ Another
    /\ LogFails(r)
    /\ request' = [request EXCEPT ![r] = Done]
    /\ UNCHANGED <<clock, reader, policy, limiterVars>>

Step(r) ==
    \/ Admit(r) \/ Screen(r) \/ EvaluateDashboard(r) \/ ResolveMode(r) \/ EvaluateWAF(r)
    \/ Log(r) \/ Return(r)

-----------------------------------------------------------------------------
(* Around the handler.                                                     *)

\* Mutant: the dashboard's route can be deleted as well.
ChangePolicyOfAny(h, p) ==
    /\ Another
    /\ p # policy[h]
    /\ policy' = [policy EXCEPT ![h] = p]
    /\ UNCHANGED <<clock, logVars, reader, request, limiterVars>>

\* The poller sets or deletes the route, or the API writes a new profile of
\* the host, which replaces the file.
ChangePolicy(h, p) ==
    /\ Another
    /\ p # policy[h] /\ (h = Dashboard => p # NoRoute)
    /\ policy' = [policy EXCEPT ![h] = p]
    /\ request' = [r \in Requests |->
                     IF Active(r) /\ request[r].kind.host = h /\ p # NoRoute
                     THEN [request[r] EXCEPT !.force = @ \cap p] ELSE request[r]]
    /\ UNCHANGED <<clock, logVars, reader, limiterVars>>

\* The limiter and the routes are in memory; the requests under way are cut
\* off.
RestartProxy ==
    /\ Another
    /\ OpenLog
    /\ request' = [r \in Requests |-> IF Active(r) THEN Done ELSE request[r]]
    /\ entries' = [c \in Clients |-> NoEntry]
    /\ policy' = [h \in Hosts |-> IF h = Dashboard THEN policy[h] ELSE NoRoute]
    /\ UNCHANGED <<clock, reader, scans, lastScan, blocks>>

Tick ==
    /\ clock < MaxTime /\ clock' = clock + 1
    /\ UNCHANGED <<logVars, reader, request, limiterVars, policy, events>>

Read ==
    /\ IF reader.pc = "idle" THEN Another ELSE UNCHANGED events
    /\ ReaderStep
    /\ UNCHANGED <<request, limiterVars, policy>>

Next ==
    \/ \E r \in Requests : Step(r) \/ ReturnUnlogged(r) \/ \E kind \in Kinds : Arrive(r, kind)
    \/ \E h \in Hosts : \E p \in Policies \cup {NoRoute} : ChangePolicy(h, p)
    \/ RestartProxy \/ Tick \/ Read

Spec == Init /\ [][Next]_vars

-----------------------------------------------------------------------------
(* What the proxy promises.                                                *)

\* A block takes Threshold suspicious requests of the client, none of which
\* has counted for a block before, although requests that arrived earlier
\* are recorded later and windows and blocks run out in between.
BlocksEarned ==
    \A c \in Clients :
        /\ Threshold * blocks[c] + entries[c].count <= scans[c]
        /\ entries[c].count < Threshold

\* A client is refused only within BlockFor of the arrival of a suspicious
\* request of its own: no order of recording prolongs a block.
BlocksEnd ==
    \A c \in Clients : entries[c].blockedUntil # 0 => entries[c].blockedUntil <= lastScan[c] + BlockFor

\* A request is forwarded only if it fails none of the checks that its host
\* has asked for ever since it arrived, although the route and the settings
\* of the dashboard change while it is being checked.
Screened ==
    \A r \in Requests : At(r, "forwarding") =>
        LET host == request[r].kind.host
            applied == IF host # Dashboard THEN {"ip", "waf", "basic", "token"}
                       ELSE IF "mode" \in request[r].force THEN {"ip", "waf"} ELSE {"ip"}
        IN  \A check \in {"global", "agent"} \cup (request[r].force \cap applied) : ~Fails(r, check)

=============================================================================
