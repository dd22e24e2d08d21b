-------------------------- MODULE MCProxyLifecycle --------------------------
(***************************************************************************)
(* Instances of ProxyLifecycle for TLC.                                    *)
(***************************************************************************)
EXTENDS ProxyLifecycle, TLC

=============================================================================
