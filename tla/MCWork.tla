------------------------------- MODULE MCWork -------------------------------
EXTENDS Work, TLC

CONSTANTS n1, n2

(* Only one of two nodes synchronises. *)
MCSyncPeer == (n1 :> n2) @@ (n2 :> None)
MCVersions == 1..3
=============================================================================
