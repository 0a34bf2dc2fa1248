------------------------------ MODULE MCLotsen ------------------------------
(* Small instances of the control plane for TLC.                            *)
EXTENDS LotsenClaims, LotsenInvariants, Sequences, TLC

\* Two versions of one deployment without host ports, behind the proxy.
Cfg(n, i, p, d) == [name |-> n, image |-> i, ports |-> p, domain |-> d]

NextNames == [n \in Names |-> n \o "-next"]
ContainerNames == Names \cup {NextNames[n] : n \in Names}

\* One deployment, two images, no host ports: StartAndReplace proper.
PlainConfigs == {Cfg("web", i, {}, NoDomain) : i \in Images}

\* Two deployments that bind host ports, one of them behind the proxy; a
\* save can rename one to the name of the other or move it to its port.
PortConfigs == {Cfg("web", i, {p}, d) : i \in Images, p \in Ports, d \in Domains}
               \cup {Cfg("web-next", i, {}, NoDomain) : i \in Images}

\* Deployments that differ in name and image and bind the same host port.
OnePortConfigs == {Cfg(n, i, Ports, NoDomain) : n \in Names, i \in Images}

\* Nothing orders container ids or images.
Symmetry == Permutations(CIDs) \cup Permutations(Images) \cup Permutations(IDs)

=============================================================================
