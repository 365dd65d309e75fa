----------------------------- MODULE MCNetwork -----------------------------
EXTENDS Network

CONSTANTS n1, n2, n3

(* A chain of names and two nodes that distrust the peer they hear of.      *)
MCListed == (n1 :> {n2}) @@ (n2 :> {}) @@ (n3 :> {n2})
MCDistrusted == (n1 :> {n2}) @@ (n2 :> {n3}) @@ (n3 :> {})
=============================================================================
