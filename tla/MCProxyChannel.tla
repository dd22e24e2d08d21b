--------------------------- MODULE MCProxyChannel --------------------------
(***************************************************************************)
(* Instances of ProxyChannel for TLC.                                      *)
(***************************************************************************)
EXTENDS ProxyChannel, TLC

Symmetry == Permutations(Client) \union Permutations(Pending)

=============================================================================
