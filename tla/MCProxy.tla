------------------------------ MODULE MCProxy ------------------------------
(***************************************************************************)
(* Instances of Proxy for TLC.                                             *)
(***************************************************************************)
EXTENDS Proxy, TLC

CONSTANTS p1, p2

TwoProxies == {p1, p2}

\* The proxies of an agent are replicas of one another.
ProxySymmetry == Permutations(TwoProxies)
=============================================================================
