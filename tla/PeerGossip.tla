----------------------------- MODULE PeerGossip -----------------------------
(***************************************************************************)
(* Supplemental discovery of src/runtime/network/                          *)
(* nodeNetworkIntegrationV0_1.mjs: nodes tell each other, over the relay,  *)
(* the peers they know.  Each starts from its own cache file and from what *)
(* the bootstrap directory lists, and merges what it is told.  A message   *)
(* is sent and received in one step or lost: merging only adds peers, so a *)
(* late message does what an immediate one did.                            *)
(***************************************************************************)
EXTENDS Naturals

CONSTANTS GossipNodes,
          Listed,       \* what the directory tells each node when it starts
          Distrusted    \* the peers each node has as INVALID or QUARANTINED

VARIABLES
    known,      \* state.known_peers of each node
    peerCache,  \* peer-cache.json of each node
    online      \* the nodes registered with the relay

gossipVars == <<known, peerCache, online>>

Init ==
    /\ known = [n \in GossipNodes |-> {}]
    /\ peerCache = known
    /\ online = {}

-----------------------------------------------------------------------------
(* mergePeersByNodeId: nothing is ever removed, and a node is no peer of    *)
(* itself.                                                                  *)
Merged_WithSelf(n, incoming) == known[n] \cup incoming              \* mutant
Merged(n, incoming) == (known[n] \cup incoming) \ {n}

(* Start, with the directory's list or, when it does not answer, with the   *)
(* cache alone.  A list that arrived is saved before the node goes on.      *)
StartNode(n) ==
    /\ n \notin online
    /\ \/ /\ known' = [known EXCEPT ![n] = (peerCache[n] \cup Listed[n]) \ {n}]
          /\ peerCache' = [peerCache EXCEPT ![n] = known'[n]]
       \/ /\ known' = [known EXCEPT ![n] = peerCache[n]]
          /\ UNCHANGED peerCache
    /\ online' = online \cup {n}

(* The process ends, at any time.  A link that is only lost for a while is  *)
(* the same for the other nodes.                                            *)
StopNode(n) ==
    /\ n \in online
    /\ online' = online \ {n}
    /\ UNCHANGED <<known, peerCache>>

(* trustAwareOrder: distrusted peers only when there is nobody better. *)
Targets(n) ==
    LET better == known[n] \ Distrusted[n]
    IN IF better # {} THEN better ELSE known[n]

GossipPeers_NotSelf(n) == known[n]                                   \* mutant
GossipPeers(n) == known[n] \cup {n}

(* sendPeerGossipOnce to one target, and its onmessage handler. *)
Gossip(n, to) ==
    /\ {n, to} \subseteq online
    /\ to \in Targets(n)
    /\ known' = [known EXCEPT ![to] = Merged(to, GossipPeers(n))]
    /\ UNCHANGED <<peerCache, online>>

(* The background save of a merge. *)
SavePeers(n) ==
    /\ peerCache[n] # known[n] /\ n \in online
    /\ peerCache' = [peerCache EXCEPT ![n] = known[n]]
    /\ UNCHANGED <<known, online>>

Next ==
    \E n \in GossipNodes :
        \/ StartNode(n) \/ StopNode(n) \/ SavePeers(n)
        \/ \E to \in GossipNodes : Gossip(n, to)

-----------------------------------------------------------------------------
(* Every variable has its type, and no node is a peer of itself. *)
TypeOK ==
    /\ known \in [GossipNodes -> SUBSET GossipNodes]
    /\ peerCache \in [GossipNodes -> SUBSET GossipNodes]
    /\ online \subseteq GossipNodes
    /\ \A n \in GossipNodes : n \notin known[n] \cup peerCache[n]

(* Once all nodes stay online and know the peer the directory named to each *)
(* of them, all come to know all the others, although nobody was told more  *)
(* than one name and some distrust the first peer they hear of, provided    *)
(* that no target is lost to a gossip timer forever.                        *)
Introduced == online = GossipNodes /\ \A n \in GossipNodes : Listed[n] \subseteq known[n]
Everyone == \A n \in GossipNodes : known[n] = GossipNodes \ {n}
Discovered == <>[]Introduced => <>[]Everyone
=============================================================================
