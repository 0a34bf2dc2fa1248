--------------------------- MODULE MCProxyRouting ---------------------------
(* Small instances of the proxy's routing.  Two spellings of one domain and *)
(* a name that normalizes to nothing are among the stored domains.          *)
EXTENDS ProxyRouting, TLC

Spelling == [r \in RawDomains |->
               CASE r = "A.example." -> "a.example"
                 [] r = " " -> NoDomain
                 [] OTHER -> r]

Symmetry == Permutations(IDs)

=============================================================================
