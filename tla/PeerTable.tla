----------------------------- MODULE PeerTable -----------------------------
(***************************************************************************)
(* The peer table of a node, peers.json (src/peers), and what recovery     *)
(* (src/tasks/taskRecovery.mjs) concludes from it.  The agent loop builds  *)
(* the table anew from the agent directory and the relay, and writes it    *)
(* over the old one; the relay listener of start-node, another process,    *)
(* merges the gossip it receives into the copy it read; the loop's         *)
(* statistics do the same.  Names are numbers, in the order of sorting.    *)
(* How the file is written is TaskStore's subject: here a save is one step,*)
(* and what becomes of a released task is TaskLifecycle's.                 *)
(***************************************************************************)
EXTENDS Naturals, FiniteSets

CONSTANTS N,            \* number of nodes that there are
          Cap,          \* 100: the most peers that gossip and statistics keep
          Self,         \* the holder name of the node's own loop
          Publishers,   \* the nodes that publish an agent card
          None

PeerIds == 1..N

VARIABLES
    agents,     \* byAgentId of the agent directory
    onRelay,    \* what /nodes of the relay returns
    table,      \* peers.json: "on" or "off" the relay, or "no" entry
    copy,       \* the table that each activity will save
    past        \* history: "unmet" before a node was on the relay; "steady"
                \* while it stays there and each refresh sees it

peerVars == <<agents, onRelay, table, copy, past>>

Activities == {"loop", "listener"}
Tables == [PeerIds -> {"on", "off", "no"}]

(* discoverPeers: what the directory lists and what the relay lists.        *)
Discovered(listed, nodes) ==
    [p \in PeerIds |-> IF p \in nodes THEN "on" ELSE IF p \in listed THEN "off" ELSE "no"]

(* The table a refresh has just written.                                    *)
Init ==
    /\ onRelay = PeerIds \ {N}
    /\ agents = Publishers
    /\ table = Discovered(agents, onRelay)
    /\ copy = [a \in Activities |-> None]
    /\ past = [p \in PeerIds |-> IF p \in onRelay THEN "steady" ELSE "unmet"]

-----------------------------------------------------------------------------
(* POST /agents/publish of the directory, which lives in memory only.       *)
PublishAgentCard(p) ==
    /\ agents' = agents \cup {p} /\ agents # agents'
    /\ UNCHANGED <<onRelay, table, copy, past>>

DirectoryRestarts ==
    /\ agents # {} /\ agents' = {}
    /\ UNCHANGED <<onRelay, table, copy, past>>

JoinRelay(p) ==
    /\ p \notin onRelay /\ onRelay' = onRelay \cup {p}
    /\ past' = [past EXCEPT ![p] = "shaky"]
    /\ UNCHANGED <<agents, table, copy>>

Shaken(p) == IF past[p] = "steady" THEN "shaky" ELSE past[p]

LeaveRelay(p) ==
    /\ p \in onRelay /\ onRelay' = onRelay \ {p}
    /\ past' = [past EXCEPT ![p] = Shaken(p)]
    /\ UNCHANGED <<agents, table, copy>>

-----------------------------------------------------------------------------
Builds(a, t) == copy[a] = None /\ copy' = [copy EXCEPT ![a] = t]

(* Step A of a tick.  A source that does not answer counts as empty, and    *)
(* the result is saved all the same.                                        *)
Refresh ==
    /\ \E listed \in {agents, {}}, answers \in BOOLEAN :
         /\ Builds("loop", Discovered(listed, IF answers THEN onRelay ELSE {}))
         /\ past' = IF answers THEN past ELSE [p \in PeerIds |-> Shaken(p)]
    /\ UNCHANGED <<agents, onRelay, table>>

(* sort().slice(0, 100) *)
Cut(t) ==
    [p \in PeerIds |->
        IF Cardinality({q \in 1..(p - 1) : t[q] # "no"}) < Cap THEN t[p] ELSE "no"]

(* A peer that only gossip told of is not taken to be on the relay.         *)
Merged_Afresh(t, told) ==                                            \* mutant
    Cut([p \in PeerIds |-> IF p \in told THEN "off" ELSE t[p]])
Merged_OnRelay(t, told) ==                                           \* mutant
    Cut([p \in PeerIds |-> IF t[p] = "no" /\ p \in told THEN "on" ELSE t[p]])
Merged(t, told) ==
    Cut([p \in PeerIds |-> IF t[p] = "no" /\ p \in told THEN "off" ELSE t[p]])

(* A message names whatever nodes its sender knows.                         *)
ReceivePeerGossip ==
    /\ \E told \in SUBSET PeerIds : Builds("listener", Merged(table, told))
    /\ UNCHANGED <<agents, onRelay, table, past>>

(* The node itself is added at the end, where there is room.                *)
RecordTaskExecuted ==
    /\ LET known == Cut(table)
           full == Cardinality({p \in PeerIds : known[p] # "no"}) >= Cap
       IN Builds("loop", IF table[Self] = "no" /\ ~full
                         THEN [known EXCEPT ![Self] = "off"] ELSE known)
    /\ UNCHANGED <<agents, onRelay, table, past>>

SavePeers(a) ==
    /\ copy[a] # None
    /\ table' = copy[a]
    /\ copy' = [copy EXCEPT ![a] = None]
    /\ UNCHANGED <<agents, onRelay, past>>

(* The process dies, or the write fails.                                    *)
NotSaved(a) ==
    /\ copy[a] # None
    /\ copy' = [copy EXCEPT ![a] = None]
    /\ UNCHANGED <<agents, onRelay, table, past>>

Next ==
    \/ DirectoryRestarts \/ Refresh \/ ReceivePeerGossip \/ RecordTaskExecuted
    \/ \E p \in Publishers : PublishAgentCard(p)
    \/ \E p \in PeerIds : JoinRelay(p) \/ LeaveRelay(p)
    \/ \E a \in Activities : SavePeers(a) \/ NotSaved(a)

-----------------------------------------------------------------------------
(* Every variable has its type. *)
TypeOK ==
    /\ agents \subseteq PeerIds /\ onRelay \subseteq PeerIds
    /\ table \in Tables
    /\ copy \in [Activities -> Tables \cup {None}]
    /\ past \in [PeerIds -> {"unmet", "steady", "shaky"}]

(* recoverStuckTasks takes a task back from a holder that the table does    *)
(* not have on the relay, and listPeers offers the others as targets.       *)
Orphan(p) == table[p] # "on"
Targetable(p) == table[p] = "on"

(* However gossip, statistics and refreshes overlap, no node that stayed on *)
(* the relay is taken for gone, unless its name is beyond the cap, and no   *)
(* node that others only talked about becomes a target.                     *)
PeersAsSeen ==
    \A p \in PeerIds :
        /\ Orphan(p) => past[p] # "steady" \/ p > Cap
        /\ Targetable(p) => past[p] # "unmet"
=============================================================================
