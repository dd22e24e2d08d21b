-------------------------- MODULE MCClientRegistry -------------------------
(***************************************************************************)
(* Instances of ClientRegistry for TLC.                                    *)
(***************************************************************************)
EXTENDS ClientRegistry, TLC

Symmetry ==
    Permutations(Conn) \union Permutations(Proxy)
        \union Permutations(Expiring) \union Permutations(Request \ Expiring)

=============================================================================
