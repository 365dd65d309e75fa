------------------------------ MODULE NodeJoin ------------------------------
(***************************************************************************)
(* Starting the HTTP node, scripts/start-node.mjs: with auto-join on, it   *)
(* joins a bootstrap directory, fetches the peers and keeps a few of them  *)
(* in data/known-peers.json (src/runtime/bootstrap), and only then serves. *)
(* The fallback directory is tried only if the primary cannot be reached.  *)
(* A directory may be away, and a request may be carried out although its  *)
(* answer is lost.                                                         *)
(*                                                                         *)
(* The directories are asked for POST /join and for /peers as a list of    *)
(* URLs.  The repository's own bootstrapServer answers neither that way: a *)
(* directory whose protocol is "current" refuses the join.                 *)
(***************************************************************************)
EXTENDS Naturals, FiniteSets

CONSTANTS N,          \* the nodes are 1..N, in the order of their URLs
          MaxPeers    \* MAX_BOOTSTRAP_PEERS

Joiners == 1..N
Servers == {"primary", "fallback"}

VARIABLES
    protocol,     \* what each directory speaks, "legacy" or "current"
    members,      \* the nodes that joined each directory
    autoJoin,     \* ENABLE_AUTO_JOIN of each node
    stage,        \* where the start of each node is
    using,        \* the directory it uses
    fetched,      \* the peers it was told
    refused,      \* history: a directory refused this start of the node
    knownPeers    \* data/known-peers.json of each node

joinVars == <<protocol, members, autoJoin, stage, using, fetched, refused, knownPeers>>

NoFile == [source |-> "no file", peers |-> {}]

Init ==
    /\ protocol \in [Servers -> {"legacy", "current"}]
    /\ members = [d \in Servers |-> {}]
    /\ autoJoin \in [Joiners -> BOOLEAN]
    /\ stage = [n \in Joiners |-> "off"]
    /\ using = [n \in Joiners |-> "primary"]
    /\ fetched = [n \in Joiners |-> {}]
    /\ refused = [n \in Joiners |-> FALSE]
    /\ knownPeers = [n \in Joiners |-> NoFile]

Goto(n, s) == stage' = [stage EXCEPT ![n] = s]

-----------------------------------------------------------------------------
(* The script starts: straight to serving, or first to the join. *)
Start(n) ==
    /\ stage[n] \in {"off", "failed"}
    /\ Goto(n, IF autoJoin[n] THEN "join" ELSE "serving")
    /\ using' = [using EXCEPT ![n] = "primary"]
    /\ fetched' = [fetched EXCEPT ![n] = {}]
    /\ refused' = [refused EXCEPT ![n] = FALSE]
    /\ UNCHANGED <<protocol, members, autoJoin, knownPeers>>

(* isUnreachableError: no answer from the primary leads to the fallback;    *)
(* no answer from the fallback, and any refusal, ends the process.          *)
NoAnswer(n) ==
    /\ IF using[n] = "primary"
         THEN Goto(n, "join") /\ using' = [using EXCEPT ![n] = "fallback"]
         ELSE Goto(n, "failed") /\ UNCHANGED using
    /\ UNCHANGED refused
Reject_Fallback(n) ==                                                \* mutant
    /\ Goto(n, "join") /\ using' = [using EXCEPT ![n] = "fallback"]
    /\ refused' = [refused EXCEPT ![n] = TRUE]
Reject(n) ==
    /\ Goto(n, "failed") /\ UNCHANGED using
    /\ refused' = [refused EXCEPT ![n] = TRUE]
GoesOn(n, s) == Goto(n, s) /\ UNCHANGED <<using, refused>>

(* bootstrapJoin.  The directory may have taken the node in although the    *)
(* answer does not come in time (httpClient aborts after 5 s).              *)
Join(n) ==
    LET d == using[n]
    IN /\ stage[n] = "join"
       /\ \/ /\ protocol[d] = "legacy"
             /\ members' = [members EXCEPT ![d] = @ \cup {n}]
             /\ GoesOn(n, "peers") \/ NoAnswer(n)
          \/ UNCHANGED members /\ Reject(n)
          \/ UNCHANGED members /\ NoAnswer(n)
       /\ UNCHANGED <<protocol, autoJoin, fetched, knownPeers>>

(* bootstrapGetPeers *)
GetPeers(n) ==
    LET d == using[n]
    IN /\ stage[n] = "peers"
       /\ \/ fetched' = [fetched EXCEPT ![n] = members[d]] /\ GoesOn(n, "persist")
          \/ UNCHANGED fetched /\ Reject(n)
          \/ UNCHANGED fetched /\ NoAnswer(n)
       /\ UNCHANGED <<protocol, members, autoJoin, knownPeers>>

(* selectPeers: not the node itself, and the first MaxPeers in order. *)
SelectPeers_KeepSelf(n) ==                                           \* mutant
    {p \in fetched[n] : Cardinality({q \in fetched[n] : q < p}) < MaxPeers}
SelectPeers(n) ==
    LET others == fetched[n] \ {n}
    IN {p \in others : Cardinality({q \in others : q < p}) < MaxPeers}

(* persistKnownPeers; a failure ends the start, and the node stays a member *)
(* of the directory.  Otherwise the script goes on to listen.               *)
Persist(n) ==
    /\ stage[n] = "persist"
    /\ \/ /\ knownPeers' = [knownPeers EXCEPT ![n] =
                             [source |-> using[n], peers |-> SelectPeers(n)]]
          /\ Goto(n, "serving")
       \/ UNCHANGED knownPeers /\ Goto(n, "failed")
    /\ UNCHANGED <<protocol, members, autoJoin, using, fetched, refused>>

Stop(n) ==
    /\ stage[n] # "off"
    /\ Goto(n, "off")
    /\ UNCHANGED <<protocol, members, autoJoin, using, fetched, refused, knownPeers>>

Next ==
    \E n \in Joiners : Start(n) \/ Join(n) \/ GetPeers(n) \/ Persist(n) \/ Stop(n)
-----------------------------------------------------------------------------
(* Every variable has its type. *)
TypeOK ==
    /\ protocol \in [Servers -> {"legacy", "current"}]
    /\ members \in [Servers -> SUBSET Joiners]
    /\ autoJoin \in [Joiners -> BOOLEAN]
    /\ stage \in [Joiners -> {"off", "join", "peers", "persist", "failed", "serving"}]
    /\ using \in [Joiners -> Servers]
    /\ fetched \in [Joiners -> SUBSET Joiners] /\ refused \in [Joiners -> BOOLEAN]
    /\ knownPeers \in [Joiners -> [source : Servers \cup {"no file"}, peers : SUBSET Joiners]]

(* A node that serves after an automatic join is a member of the directory  *)
(* its peers file names, its peers are other members of that directory, and *)
(* no directory refused it: the fallback is for a primary that is away.     *)
ServesJoined ==
    \A n \in Joiners : stage[n] = "serving" /\ autoJoin[n] =>
        LET d == knownPeers[n].source
        IN /\ ~refused[n]
           /\ n \in members[d]
           /\ knownPeers[n].peers \subseteq members[d] \ {n}
           /\ Cardinality(knownPeers[n].peers) <= MaxPeers
=============================================================================
