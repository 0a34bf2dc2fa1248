---------------------------- MODULE PortBindings ----------------------------
(***************************************************************************)
(* The port bindings of deployments through their life: the API assigns    *)
(* host ports to what a user asks for, Docker binds them, the orchestrator *)
(* writes what Docker bound back to the store, and the proxy and the       *)
(* orchestrator each derive the upstream of the deployment's domain from   *)
(* them.  Here the deployments' requests come one after the other.         *)
(*                                                                         *)
(* A spec is a port mapping after parsing; host 0 is a mapping that leaves *)
(* the host port to Lotsen.  Mappings that do not parse are refused and    *)
(* change nothing.                                                         *)
(***************************************************************************)
EXTENDS Naturals, Sequences, SequencesExt, FiniteSetsExt

CONSTANTS
    IDs,
    HostPorts,      \* host ports that users name
    ContainerPorts,
    Protocols,
    RangeMin,       \* hostPortRangeMin
    RangeMax,       \* hostPortRangeMax
    WebPorts,       \* container ports that the proxy prefers
    MaxSpecs,       \* bound: specs in a request
    MaxOps          \* bound: operations

ASSUME ProtocolsAssumption == Protocols \subseteq {"tcp", "udp"}
ASSUME RangeAssumption == RangeMin \in Nat \ {0} /\ RangeMax \in Nat

\* A port is a number between 1 and 65535 (parsePort).
ASSUME PortsAssumption == HostPorts \subseteq Nat \ {0} /\ ContainerPorts \subseteq Nat \ {0}

PortSpec == [host : HostPorts \cup {0}, container : ContainerPorts, proto : Protocols]

Binding == [host : HostPorts \cup (RangeMin..RangeMax), container : ContainerPorts,
            proto : {"tcp", "udp"}]

Requests == UNION {[1..n -> PortSpec] : n \in 0..MaxSpecs}

VARIABLES
    ports,      \* [IDs -> Seq(Binding)], Deployment.Ports of the stored deployments
    saved,      \* history: the deployments just saved, one or none
    asked,      \* history: Seq(PortSpec), what was asked for it
    result,     \* what the last request was answered: "ok", "conflict", "exhausted"
    ops

vars == <<ports, saved, asked, result, ops>>

Init ==
    /\ ports = [i \in IDs |-> <<>>]
    /\ saved = {}
    /\ asked = <<>>
    /\ result = "ok"
    /\ ops = 0

-----------------------------------------------------------------------------
(* assignHostPorts.                                                        *)

HostKey(b) == <<b.host, b.proto>>
ContainerKey(p) == <<p.container, p.proto>>

WithHostPort(p, host) == [p EXCEPT !.host = host]

\* Mutant: specs for one container port are taken for repetitions.
ParseByContainer(specs) ==
    FoldLeft(LAMBDA acc, p : IF \E q \in ToSet(acc) : ContainerKey(q) = ContainerKey(p)
                             THEN acc ELSE Append(acc, p), <<>>, specs)

\* Repeated specs are dropped.
ParsePortSpecs(specs) ==
    FoldLeft(LAMBDA acc, p : IF Contains(acc, p) THEN acc ELSE Append(acc, p), <<>>, specs)

\* Mutant: only the first binding of a deployment counts.
UsedByFirst(others) ==
    {HostKey(others[i][1]) : i \in {j \in DOMAIN others : others[j] # <<>>}}

\* The host ports that the other deployments bind.
UsedHostPorts(others) ==
    UNION {{HostKey(b) : b \in ToSet(others[i])} : i \in DOMAIN others}

\* The host ports of the current binding of p's container port; the last
\* one of several is the one the code finds.
Existing(current, p) ==
    LET same == {k \in DOMAIN current : ContainerKey(current[k]) = ContainerKey(p)}
    IN  IF same = {} THEN {} ELSE {current[Max(same)].host}

FreeHostPorts(used, proto) == {h \in RangeMin..RangeMax : <<h, proto>> \notin used}

\* One round of the loop over the requested specs: an explicit host port,
\* the one the container port had, or the lowest free one of the range.
AssignOne(current, acc, p) ==
    LET kept == {h \in Existing(current, p) : <<h, p.proto>> \notin acc.used}
        free == FreeHostPorts(acc.used, p.proto)
        Take(h) == [used   |-> acc.used \cup {<<h, p.proto>>},
                    ports  |-> Append(acc.ports, WithHostPort(p, h)),
                    result |-> "ok"]
        Refuse(e) == [acc EXCEPT !.result = e]
    IN  IF acc.result # "ok" THEN acc
        ELSE IF p.host > 0
        THEN IF HostKey(p) \in acc.used THEN Refuse("conflict") ELSE Take(p.host)
        ELSE IF kept # {} THEN Take(Min(kept))
        ELSE IF free # {} THEN Take(Min(free)) ELSE Refuse("exhausted")

AssignHostPorts(others, current, requested) ==
    FoldLeft(LAMBDA acc, p : AssignOne(current, acc, p),
             [used |-> UsedHostPorts(others), ports |-> <<>>, result |-> "ok"],
             ParsePortSpecs(requested))

-----------------------------------------------------------------------------
(* Docker and the orchestrator.                                            *)

\* Mutant: the last binding of a container port is taken.
ResolvedLastPorts(bindings) ==
    LET Lasts == {k \in DOMAIN bindings :
                    \A j \in (k + 1)..Len(bindings) :
                        ContainerKey(bindings[j]) # ContainerKey(bindings[k])}
        order == SetToSortSeq(Lasts, <)
    IN  [n \in DOMAIN order |-> [bindings[order[n]] EXCEPT !.proto = "tcp"]]

\* A port's digits, filled up to five on the right.
Digits(p) == IF p < 10 THEN 10000 * p ELSE IF p < 100 THEN 1000 * p
             ELSE IF p < 1000 THEN 100 * p ELSE IF p < 10000 THEN 10 * p ELSE p

\* The order of the keys "port/protocol", which are sorted as strings: digit
\* by digit, and a port before the longer ones that begin with it.
KeyLess(a, b) ==
    \/ Digits(a.container) < Digits(b.container)
    \/ Digits(a.container) = Digits(b.container) /\ a.container < b.container
    \/ a.container = b.container /\ a.proto = "tcp" /\ b.proto = "udp"

\* Docker keeps one list of bindings per container port and protocol;
\* resolvedPorts takes the first of each, in the order of the keys, and
\* writes it down without the protocol, which reads as tcp.
ResolvedPorts(bindings) ==
    LET Firsts == {k \in DOMAIN bindings :
                     \A j \in 1..(k - 1) : ContainerKey(bindings[j]) # ContainerKey(bindings[k])}
        Before(j, k) == KeyLess(bindings[j], bindings[k])
        order == CHOOSE o \in SetToSeqs(Firsts) : IsSorted(o, Before)
    IN  [n \in DOMAIN order |-> [bindings[order[n]] EXCEPT !.proto = "tcp"]]

\* upstreamFromRuntimePorts: the host port that a redeploy swaps the route
\* to, 0 if there is none.
UpstreamFromRuntimePorts(runtime, proxyPort) ==
    LET usable == {k \in DOMAIN runtime : proxyPort = 0 \/ runtime[k].container = proxyPort}
    IN  IF usable = {} THEN 0 ELSE runtime[Min(usable)].host

\* Mutant: bindings of either protocol are taken for upstreams.
UpstreamFromAnyPort(bindings, proxyPort) ==
    LET usable == {k \in DOMAIN bindings : bindings[k].container = proxyPort}
    IN  IF usable = {} THEN 0 ELSE bindings[Min(usable)].host

\* upstreamFromPorts: the host port that the poller routes the domain to.
UpstreamFromPorts(bindings, proxyPort) ==
    LET tcp       == {k \in DOMAIN bindings : bindings[k].proto = "tcp"}
        chosen    == {k \in tcp : bindings[k].container = proxyPort}
        preferred == {k \in tcp : bindings[k].container \in WebPorts}
        usable    == IF proxyPort > 0 THEN chosen
                     ELSE IF preferred # {} THEN preferred ELSE tcp
    IN  IF usable = {} THEN 0 ELSE bindings[Min(usable)].host

-----------------------------------------------------------------------------
Op == ops < MaxOps /\ ops' = ops + 1

\* A create or a save of deployment i.
Save(i, specs) ==
    LET others == [j \in IDs \ {i} |-> ports[j]]
        a      == AssignHostPorts(others, ports[i], specs)
    IN  /\ Op
        /\ result' = a.result
        /\ IF a.result = "ok"
           THEN /\ ports' = [ports EXCEPT ![i] = a.ports]
                /\ saved' = {i}
                /\ asked' = specs
           ELSE UNCHANGED <<ports, saved, asked>>

\* The orchestrator has started the container and stores what it bound.
Start(i) ==
    /\ Op
    /\ ports' = [ports EXCEPT ![i] = ResolvedPorts(ports[i])]
    /\ saved' = {}
    /\ asked' = <<>>
    /\ UNCHANGED result

SaveSome == \E i \in IDs, specs \in Requests : Save(i, specs)

StartSome == \E i \in IDs : Start(i)

Spec == Init /\ [][SaveSome \/ StartSome]_vars

-----------------------------------------------------------------------------
(* Properties.                                                             *)

\* assignHostPorts gives conflict-free bindings: what a save stores shares no
\* host port of one protocol with another binding of its own or with what
\* any other deployment holds by then, also after the orchestrator rewrote
\* the bindings that the save started from.
BindingsDistinct ==
    \A i \in saved, j \in IDs : \A k \in DOMAIN ports[i], l \in DOMAIN ports[j] :
        HostKey(ports[i][k]) = HostKey(ports[j][l]) => i = j /\ k = l

\* assignHostPorts leaves no spec of a request out: each is bound, to its
\* explicit host port or to one of the range, or that a user named before.
RequestBound ==
    \A i \in saved : \A p \in ToSet(asked) :
        \E b \in ToSet(ports[i]) : /\ b \in Binding
                                   /\ ContainerKey(b) = ContainerKey(p)
                                   /\ p.host \in {0, b.host}

\* A redeploy swaps the route of a validated proxy port to the host port
\* that the poller derives from the stored bindings, before and after the
\* orchestrator wrote its own.
UpstreamsAgree ==
    \A i \in IDs, proxyPort \in ContainerPorts :
        (\E b \in ToSet(ports[i]) : ContainerKey(b) = <<proxyPort, "tcp">>) =>
            LET runtime == ResolvedPorts(ports[i])
                poller  == UpstreamFromPorts(ports[i], proxyPort)
            IN  /\ UpstreamFromRuntimePorts(runtime, proxyPort) = poller
                /\ UpstreamFromPorts(runtime, proxyPort) = poller

=============================================================================
