------------------------------ MODULE Directory ------------------------------
(***************************************************************************)
(* The bootstrap directory, src/bootstrap/bootstrapServer.mjs, and what    *)
(* the nodes send it (startNodeNetworkIntegrationV0_1: publish-self when   *)
(* starting and every 30 s, heartbeat every 45 s).  Every request reads    *)
(* the whole registry file, changes the record of one node and writes the  *)
(* file back.  Reading, the country lookup and writing are awaited, so     *)
(* requests overlap and a later write replaces all of an earlier one.      *)
(*                                                                         *)
(* A record is what the peers are told: how long ago the node was seen,    *)
(* and whether its optional fields (relay URLs, country, addresses, each   *)
(* kept when a request does not bring it) are known.                       *)
(***************************************************************************)
EXTENDS Naturals, FiniteSets

CONSTANTS Publishers,
          MaxRequests,  \* bound: requests the server is handling at once
          Timeout       \* ACTIVE_TIMEOUT_MS, in ticks of the clock

VARIABLES
    registry,   \* the registry file: the records it has, by node
    requests,   \* the requests that have read the file and not yet written it
    heard       \* history: how long ago a request of each node was stamped

dirVars == <<registry, requests, heard>>

Old == Timeout + 1                 \* ages are counted up to here
Ages == 0..Old
Records == [age : Ages, details : BOOLEAN]
Files == UNION {[ns -> Records] : ns \in SUBSET Publishers}
EmptyFile == [n \in {} |-> [age |-> 0, details |-> FALSE]]

Init ==
    /\ registry = EmptyFile
    /\ requests = {}
    /\ heard = [n \in Publishers |-> Old]

-----------------------------------------------------------------------------
(* A request is stamped with last_seen when it reads the file: a publish    *)
(* has its country looked up before, a heartbeat after, and the record is   *)
(* computed from the copy that was read.                                    *)
Stamp(n, brings) ==
    /\ Cardinality(requests) < MaxRequests
    /\ requests' = requests \cup
         {[node |-> n, brings |-> brings, age |-> 0, file |-> registry]}
    /\ heard' = [heard EXCEPT ![n] = 0]
    /\ UNCHANGED registry

(* Whether there are details: given in the request, forwarded by the proxy, *)
(* or looked up for the address within 800 ms.                              *)
Brings == BOOLEAN

(* POST /publish-self, when a node starts and every 30 s. *)
Publish(n) == \E brings \in Brings : Stamp(n, brings)

(* POST /heartbeat answers 404 when the file has no record of the node. *)
Heartbeat(n) ==
    /\ n \in DOMAIN registry
    /\ \E brings \in Brings : Stamp(n, brings)

(* The record a request writes: what it brings, or else what was known. *)
Known(r) == r.node \in DOMAIN r.file /\ r.file[r.node].details
Record(r) == [age |-> r.age, details |-> r.brings \/ Known(r)]

Rewritten_Fresh(r) ==                                                \* mutant
    [n \in DOMAIN r.file \cup {r.node} |-> [Record(r) EXCEPT !.age = 0]]
Rewritten(r) ==
    [n \in DOMAIN r.file \cup {r.node} |-> IF n = r.node THEN Record(r) ELSE r.file[n]]

(* atomicWriteJson: the whole file, through a temporary name of its own. *)
WriteRegistry(r) ==
    /\ registry' = Rewritten(r)
    /\ requests' = requests \ {r}
    /\ UNCHANGED heard

(* PERSIST_FAIL, or a request that is cut off. *)
FailRequest(r) ==
    /\ requests' = requests \ {r}
    /\ UNCHANGED <<registry, heard>>

(* The server starts again over its file. *)
RestartServer ==
    /\ requests # {}
    /\ requests' = {}
    /\ UNCHANGED <<registry, heard>>

(* Time passes for last_seen, in the file and in every copy.  A request is  *)
(* shorter than the ten minutes of Timeout: its lookup ends after 800 ms.   *)
Later(age) == IF age < Old THEN age + 1 ELSE Old
Aged(file) == [n \in DOMAIN file |-> [file[n] EXCEPT !.age = Later(@)]]
DirectoryTick ==
    /\ \A r \in requests : r.age < Timeout
    /\ registry' = Aged(registry)
    /\ requests' = {[r EXCEPT !.age = Later(@), !.file = Aged(@)] : r \in requests}
    /\ heard' = [n \in Publishers |-> Later(heard[n])]

Next ==
    \/ \E n \in Publishers : Publish(n) \/ Heartbeat(n)
    \/ \E r \in requests : WriteRegistry(r) \/ FailRequest(r)
    \/ RestartServer
    \/ DirectoryTick

-----------------------------------------------------------------------------
(* GET /peers, and connected_nodes of GET /network_stats. *)
Peers == {n \in DOMAIN registry : registry[n].age <= Timeout}

(* Every variable has its type. *)
TypeOK ==
    /\ registry \in Files
    /\ \A r \in requests :
         r.node \in Publishers /\ r.brings \in BOOLEAN /\ r.age \in Ages /\ r.file \in Files
    /\ heard \in [Publishers -> Ages]

(* However requests overlap, fail and repeat, and whatever old copies of    *)
(* the file they write back, the directory lists a node as a peer only if   *)
(* the node itself was heard within the timeout: nobody is kept alive by    *)
(* the requests of others.                                                  *)
NobodyKeptAlive == \A n \in Peers : heard[n] <= Timeout
=============================================================================
