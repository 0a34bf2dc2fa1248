--------------------------- MODULE MCConfigApply ---------------------------
(* A small instance of ConfigApply: two names, two registry spellings of   *)
(* one prefix, files that keep, change, swap, add and drop resources.      *)
EXTENDS ConfigApply, TLC

CONSTANTS app, web, s0, s1, s2, s3, m1, m2, p, raw, u1, u2, h1, h2

MCNormalOf == raw :> p @@ p :> p

\* s3 is s2 with an owner for a managed directory.
MCKeptOf == s0 :> s0 @@ s1 :> s1 @@ s2 :> s2 @@ s3 :> s2

\* s0 leaves the choice of the host port to Docker, and s1 is s0 with it.
MCPortsOf == [x \in StoredSpecs \X StoredSpecs |-> IF x[1] = s0 THEN s1 ELSE x[1]]

Of(s, m) == [spec |-> s, domain |-> m]

Doc(deps, regs, h) == [deployments |-> deps, registries |-> regs, host |-> h]

\* The first file changes everything, gives a mount an owner and leaves the
\* host alone, the second moves the domain of app to web, the third spells
\* the prefix differently and names no host port, the fourth does not
\* validate.
MCDocuments ==
    {Doc(app :> Of(s3, m1) @@ web :> Of(s1, m2), p :> u2, None),
     Doc(web :> Of(s1, m1), <<>>, h2),
     Doc(app :> Of(s0, m2), raw :> u1, h1),
     Doc(app :> Of(s1, NoDomain), <<>>, None)}

Stored1(n, m) == [name |-> n, spec |-> s1, domain |-> m, status |-> "settled"]

Seed(deps, regs) ==
    [deployments |-> [i \in IDs |-> IF i \in DOMAIN deps THEN deps[i] ELSE None],
     registries  |-> [r \in RegIDs |-> IF r \in DOMAIN regs THEN regs[r] ELSE None],
     host        |-> h1]

Entry == [prefix |-> p, user |-> u1]

\* One deployment and one registry; the API may add to them.
MCSeeds == {Seed(i :> Stored1(app, m1), r :> Entry) : i \in IDs, r \in RegIDs}

\* Ids are random and only compared.
Symmetry == Permutations(IDs) \cup Permutations(RegIDs)

=============================================================================
