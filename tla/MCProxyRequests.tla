-------------------------- MODULE MCProxyRequests ---------------------------
(* A small instance of the proxy's requests and their log.                  *)
EXTENDS ProxyRequests, TLC

Kind(client, host, scan, fails) ==
    [client |-> client, host |-> host, scan |-> scan, fails |-> fails]

CONSTANTS c1, app

\* A scanner, a visitor that a deployment's checks refuse, and one without an
\* address that the dashboard's settings refuse.
MCKinds == {Kind(c1, app, TRUE, {}),
            Kind(c1, app, FALSE, {"token"}),
            Kind(NoClient, Dashboard, FALSE, {"ip", "waf"})}

MCPolicies == {{"token"}, {"mode", "waf"}}

Symmetry == Permutations(Requests)

=============================================================================
