------------------------------ MODULE Network ------------------------------
(* The parts of the network and how a node comes into it, one at a time:    *)
(* part chooses the component that runs, and the others stay as they are.   *)
(* The components share no state, so what is shown of each of them here is  *)
(* what it does on its own.                                                 *)
EXTENDS Naturals, FiniteSets, TLC

CONSTANTS
    DirectoryNodes, MaxRequests, Timeout,               \* Directory
    TrustPeers, Cooldown, MaxBad,                       \* PeerTrust
    GossipNodes, Listed, Distrusted,                    \* PeerGossip
    Sockets, RelayNodes, Sessions, MaxClock,            \* RelayServerV2
    V1Nodes, V1Session,                                 \* with one session per node
    Wires, Tries,                                       \* RelaySingleton
    JoinNodes, MaxPeers,                                \* NodeJoin
    MaxRuns,                                            \* Encounter
    TableNodes, Cap, Self, CardPublishers,              \* PeerTable
    None

VARIABLES
    part,
    registry, requests, heard,
    cache, saved, welcomed,
    known, peerCache, online,
    agents, onRelay, table, copy, past,
    wire, reg, entries, latest, clock, careless,
    ready, registered, conn, global, active, loop, awaited, tries, timer, stopping, relayUp,
    protocol, members, autoJoin, stage, using, fetched, refused, knownPeers,
    harness, plan, probes, held, runsOfA, candidates, friendships, opened

directory == <<registry, requests, heard>>
trust == <<cache, saved, welcomed>>
gossip == <<known, peerCache, online>>
peers == <<agents, onRelay, table, copy, past>>
relay == <<wire, reg, entries, latest, clock, careless>>
singleton == <<ready, registered, conn, global, active, loop, awaited, tries, timer,
               stopping, relayUp>>
join == <<protocol, members, autoJoin, stage, using, fetched, refused, knownPeers>>
encounter == <<harness, plan, probes, held, runsOfA, candidates, friendships, opened>>
network == <<directory, trust, gossip, relay, singleton>>
node == <<join, encounter, peers>>
vars == <<part, network, node>>

ASSUME BoundsAreNumbers ==
    {MaxRequests, Timeout, Cooldown, MaxBad, MaxClock, Tries, JoinNodes, MaxPeers, MaxRuns,
     TableNodes, Cap} \subseteq Nat
ASSUME NamesAreNodes ==
    /\ CardPublishers \subseteq 1..TableNodes
    /\ Listed \in [GossipNodes -> SUBSET GossipNodes]
(* null is nothing else. *)
ASSUME NoneIsNothing ==
    /\ None \notin Wires
    /\ None \notin Sessions /\ None \notin RelayNodes \X Sessions
    /\ None \notin [socket : Sockets, at : 0..MaxClock]
    /\ None \notin V1Nodes \cup Sockets /\ None # V1Session
    /\ None \notin V1Nodes \X {V1Session} /\ None \notin [socket : Sockets, at : 0..0]
    /\ None \notin [1..TableNodes -> {"on", "off", "no"}]

D == INSTANCE Directory WITH Publishers <- DirectoryNodes
P == INSTANCE PeerTrust WITH Peers <- TrustPeers
G == INSTANCE PeerGossip
R == INSTANCE RelayServerV2
S == INSTANCE RelaySingleton
J == INSTANCE NodeJoin WITH N <- JoinNodes
E == INSTANCE Encounter
T == INSTANCE PeerTable WITH N <- TableNodes, Publishers <- CardPublishers

(* The second relay with one session per node, seen as the first one; the   *)
(* times of registration play no part then.                                 *)
R1 == INSTANCE RelayServerV2 WITH
        RelayNodes <- V1Nodes, Sessions <- {V1Session}, MaxClock <- 0
V1 == INSTANCE RelayServerV1 WITH
        RelayNodes <- V1Nodes,
        socketOf <- [n \in V1Nodes |->
                      IF latest[n] = None THEN None ELSE entries[<<n, latest[n]>>].socket],
        nodeId <- [s \in Sockets |-> IF reg[s] = None THEN None ELSE reg[s][1]],
        state <- [s \in Sockets |->
                   IF wire[s] \in {"open", "ended"} THEN "up" ELSE wire[s]]

Parts == {"directory", "trust", "gossip", "relay", "relay v1", "singleton",
          "join", "encounter", "peers"}

(* A component that does not run needs one initial state only.              *)
Init ==
    /\ part \in Parts
    /\ D!Init /\ P!Init /\ G!Init /\ S!Init /\ E!Init /\ T!Init
    /\ IF part = "relay v1" THEN R1!Init ELSE R!Init
    /\ part # "encounter" => harness = "phase3"
    /\ J!Init
    /\ part # "join" => /\ \A n \in DOMAIN autoJoin : ~autoJoin[n]
                        /\ \A d \in DOMAIN protocol : protocol[d] = "current"

NetworkRuns(p) == part = p /\ UNCHANGED <<part, node>>
DirectoryRuns == NetworkRuns("directory") /\ UNCHANGED <<trust, gossip, relay, singleton>>
TrustRuns == NetworkRuns("trust") /\ UNCHANGED <<directory, gossip, relay, singleton>>
GossipRuns == NetworkRuns("gossip") /\ UNCHANGED <<directory, trust, relay, singleton>>
RelayRuns(p) == NetworkRuns(p) /\ UNCHANGED <<directory, trust, gossip, singleton>>
SingletonRuns == NetworkRuns("singleton") /\ UNCHANGED <<directory, trust, gossip, relay>>
NodeRuns(p) == part = p /\ UNCHANGED <<part, network>>
JoinRuns == NodeRuns("join") /\ UNCHANGED <<encounter, peers>>
EncounterRuns == NodeRuns("encounter") /\ UNCHANGED <<join, peers>>
PeersRun == NodeRuns("peers") /\ UNCHANGED <<join, encounter>>

Next ==
    \/ DirectoryRuns /\ D!Next
    \/ TrustRuns /\ P!Next
    \/ GossipRuns /\ G!Next
    \/ RelayRuns("relay") /\ R!Next
    \/ RelayRuns("relay v1") /\ R1!Next
    \/ SingletonRuns /\ S!Next
    \/ JoinRuns /\ J!Next
    \/ EncounterRuns /\ E!Next
    \/ PeersRun /\ T!Next

(* A gossip timer fires again and again and picks each target sooner or     *)
(* later; a sender keeps sending; sleeps end; the events of a socket come.  *)
Fairness ==
    /\ \A m, n \in GossipNodes : SF_vars(GossipRuns /\ G!Gossip(m, n))
    /\ WF_vars(SingletonRuns /\ S!Send)
    /\ WF_vars(SingletonRuns /\ S!Loop)
    /\ \A w \in Wires : WF_vars(SingletonRuns /\ S!SocketEvent(w))

Spec == Init /\ [][Next]_vars /\ Fairness

-----------------------------------------------------------------------------
(* Every variable of every component has its type. *)
TypesOK ==
    /\ D!TypeOK /\ P!TypeOK /\ G!TypeOK /\ S!TypeOK /\ J!TypeOK /\ E!TypeOK /\ T!TypeOK
    /\ IF part = "relay v1" THEN R1!TypeOK ELSE R!TypeOK

(* The directory lists a node only if it was itself heard of in time, and   *)
(* the peer table has on the relay who stayed there, nobody by hearsay.     *)
ListedAsSeen == D!NobodyKeptAlive /\ T!PeersAsSeen

(* A peer in quarantine failed three times since its last good sighting.    *)
QuarantineEarned == P!QuarantineEarned

(* The second relay routes to the session that registered last, and drops   *)
(* a message only while a close event is still to come.                     *)
RouteIsLive == IF part = "relay v1" THEN R1!RouteIsLive ELSE R!RouteIsLive

(* A relay of the second version whose nodes have one session each does     *)
(* what the first relay did.                                                *)
ImplementsV1 == [][(part = "relay v1") => [V1!Next]_(V1!v1Vars)]_vars

(* The process has one relay connection, whatever late events say.          *)
OnlyOneSocket == S!OnlyOneSocket

(* Nodes that stay online come to know one another by gossip, and a process *)
(* can send over the relay again for good once the relay stays up.          *)
Settles == (part = "gossip" => G!Discovered) /\ (part = "singleton" => S!Reconnects)

(* A node serves after an automatic join only as a member of the directory  *)
(* whose peers it keeps, and the fallback is not a way around a refusal.    *)
ServesJoined == J!ServesJoined

(* A candidate comes from a session this process saw opened, and a          *)
(* friendship record from a candidate that both sides confirmed.            *)
FriendsWereProbed == E!FriendsWereProbed
=============================================================================
