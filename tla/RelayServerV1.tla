--------------------------- MODULE RelayServerV1 ---------------------------
(***************************************************************************)
(* The first relay, src/relay/relayServer.mjs: one map from node to the    *)
(* socket that registered it last.  RelayServerV2 with a single session    *)
(* per node does the same.                                                 *)
(***************************************************************************)
CONSTANTS Sockets, RelayNodes, None

VARIABLES
    socketOf,   \* nodes: the socket each node is reached by, or None
    nodeId,     \* the closure variable nodeId of each socket, or None
    state       \* each socket: unused, up (it receives frames) or dead

v1Vars == <<socketOf, nodeId, state>>

Init ==
    /\ socketOf = [n \in RelayNodes |-> None]
    /\ nodeId = [s \in Sockets |-> None]
    /\ state = [s \in Sockets |-> "unused"]

Upgrade(s) ==
    /\ state[s] = "unused"
    /\ state' = [state EXCEPT ![s] = "up"]
    /\ UNCHANGED <<socketOf, nodeId>>

Register(s, n) ==
    /\ state[s] = "up"
    /\ nodeId' = [nodeId EXCEPT ![s] = n]
    /\ socketOf' = [socketOf EXCEPT ![n] = s]
    /\ UNCHANGED state

CleanedUp(s) ==
    /\ socketOf' = [n \in RelayNodes |->
                     IF n = nodeId[s] /\ socketOf[n] = s THEN None ELSE socketOf[n]]
    /\ nodeId' = [nodeId EXCEPT ![s] = None]

CloseFrame(s) ==
    /\ state[s] = "up"
    /\ CleanedUp(s)
    /\ UNCHANGED state

Breaks(s) ==
    /\ state[s] = "up"
    /\ state' = [state EXCEPT ![s] = "dead"]
    /\ UNCHANGED <<socketOf, nodeId>>

(* A socket that left no other node behind is gone after its close event. *)
CloseEvent(s) ==
    /\ state[s] = "dead"
    /\ CleanedUp(s)
    /\ state' \in {state, [state EXCEPT ![s] = "unused"]}

Next ==
    \E s \in Sockets :
        \/ Upgrade(s) \/ CloseFrame(s) \/ Breaks(s) \/ CloseEvent(s)
        \/ \E n \in RelayNodes : Register(s, n)
=============================================================================
