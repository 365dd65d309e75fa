------------------------------ MODULE RelayCore ------------------------------
(***************************************************************************)
(* The production relay, src/relay/relayCoreV0_1.mjs.  Nodes open a        *)
(* WebSocket, REGISTER a node id on it and SEND messages that the relay    *)
(* writes to the socket registered for the target id.  The relay keeps two *)
(* maps, conns (node id -> current socket) and socketToNode (socket -> the *)
(* id it registered last), and a timer that drops entries that were silent *)
(* for longer than the idle timeout.                                       *)
(*                                                                         *)
(* Node.js runs one handler at a time, so a frame, a socket event and a    *)
(* sweep are atomic; what interleaves is their order.  In particular the   *)
(* 'close' event of a socket the relay itself destroyed is delivered       *)
(* later, after any number of other handlers.                              *)
(***************************************************************************)
EXTENDS Integers, FiniteSets

CONSTANTS Nodes,          \* node ids that pass isNodeId
          Sockets,        \* identities of upgraded sockets
          NoNode, NoSocket,
          IdleTimeout     \* IDLE_TIMEOUT_MS in sweep intervals

ASSUME RelayCoreAssumption ==
    /\ NoNode \notin Nodes
    /\ NoSocket \notin Sockets
    /\ IdleTimeout \in Nat \ {0}

VARIABLES
    sock,          \* per socket: "closed" (disconnect has run, or not yet
                   \* connected), "open", "destroyed" (close event pending)
    conns,         \* conns.get(n).socket, or NoSocket
    lastSeen,      \* sweep intervals since conns.get(n).lastSeenMs
    socketToNode,  \* socketToNode.get(s), or NoNode
    sweepDue,      \* the sweep interval has elapsed, its callback has not run
    running,       \* close() has not been called
    out,           \* what the last handler wrote on behalf of a SEND
    latest,        \* history: the socket of the last accepted REGISTER of n
    quiet,         \* history: sweep intervals since s last sent a frame
    multi          \* history: s registered a second, different id

state == <<sock, conns, lastSeen, socketToNode>>
vars == <<state, sweepDue, running, out, latest, quiet, multi>>

MaxAge == IdleTimeout + 1
Older(a) == IF a < MaxAge THEN a + 1 ELSE MaxAge

(* The outcome of a SEND about node id `node`, written to socket `to`.  The *)
(* acknowledgements and error notices of the other frames change nothing.   *)
Frame(to, type, node) == [to |-> to, type |-> type, node |-> node]
Frames == [to : Sockets, type : {"NO_TARGET", "DELIVER"}, node : Nodes]

Init ==
    /\ sock = [s \in Sockets |-> "closed"]
    /\ conns = [n \in Nodes |-> NoSocket]
    /\ lastSeen = [n \in Nodes |-> 0]
    /\ socketToNode = [s \in Sockets |-> NoNode]
    /\ sweepDue = FALSE
    /\ running = TRUE
    /\ out = {}
    /\ latest = [n \in Nodes |-> NoSocket]
    /\ quiet = [s \in Sockets |-> 0]
    /\ multi = [s \in Sockets |-> FALSE]

-----------------------------------------------------------------------------
(* end() and destroy(): no more data, the close event follows. *)
Destroy(S) == [s \in Sockets |-> IF s \in S /\ sock[s] = "open" THEN "destroyed"
                                                              ELSE sock[s]]

(* touch(): a frame on s renews the entry of the id that s registered. *)
Touched(s) == {n \in Nodes : socketToNode[s] = n /\ conns[n] # NoSocket}
TouchedConns(s) == [n \in Nodes |-> IF n \in Touched(s) THEN s ELSE conns[n]]
TouchedSeen_Never(s) == lastSeen  \* mutant: touch() keeps lastSeenMs
TouchedSeen(s) == [n \in Nodes |-> IF n \in Touched(s) THEN 0 ELSE lastSeen[n]]

(* The 'data' handler runs only while the socket is open: disconnect sets  *)
(* closed, and a destroyed socket emits no more data.                      *)
Reads(s) ==
    /\ sock[s] = "open"
    /\ quiet' = [quiet EXCEPT ![s] = 0]

(* The upgrade handler accepts a new socket.  A socket identity is reused  *)
(* only when nothing refers to the old socket any more.                    *)
Connect(s) ==
    /\ running
    /\ sock[s] = "closed"
    /\ \A n \in Nodes : conns[n] # s
    /\ sock' = [sock EXCEPT ![s] = "open"]
    /\ quiet' = [quiet EXCEPT ![s] = 0]
    /\ multi' = [multi EXCEPT ![s] = FALSE]
    /\ latest' = [n \in Nodes |-> IF latest[n] = s THEN NoSocket ELSE latest[n]]
    /\ out' = {}
    /\ UNCHANGED <<conns, lastSeen, socketToNode, sweepDue, running>>

(* A ping, or a text frame that is rejected (bad JSON, invalid node id,    *)
(* invalid SEND, unknown type): the entry is renewed and s is answered.    *)
Answer(s) ==
    /\ Reads(s)
    /\ out' = {}
    /\ conns' = TouchedConns(s)
    /\ lastSeen' = TouchedSeen(s)
    /\ UNCHANGED <<sock, socketToNode, sweepDue, running, latest, multi>>

(* REGISTER: replace-old policy.  The previous socket of n is destroyed    *)
(* here; its disconnect() runs with its close event.                       *)
Replaced_EndOnly(s, n) == {}  \* mutant: the old socket is not destroyed
Replaced(s, n) == {TouchedConns(s)[n]} \ {s}

Register(s, n) ==
    /\ Reads(s)
    /\ sock' = Destroy(Replaced(s, n))
    /\ out' = {}
    /\ conns' = [TouchedConns(s) EXCEPT ![n] = s]
    /\ lastSeen' = [TouchedSeen(s) EXCEPT ![n] = 0]
    /\ socketToNode' = [socketToNode EXCEPT ![s] = n]
    /\ latest' = [latest EXCEPT ![n] = s]
    /\ multi' = [multi EXCEPT ![s] = @ \/ socketToNode[s] \notin {NoNode, n}]
    /\ UNCHANGED <<sweepDue, running>>

(* SEND to n: written to the registered socket, whatever its state is.     *)
Outcome(s, n) == IF TouchedConns(s)[n] = NoSocket
                 THEN Frame(s, "NO_TARGET", n)
                 ELSE Frame(TouchedConns(s)[n], "DELIVER", n)

Send(s, n) ==
    /\ Reads(s)
    /\ conns' = TouchedConns(s)
    /\ lastSeen' = TouchedSeen(s)
    /\ out' = {Outcome(s, n)}
    /\ UNCHANGED <<sock, socketToNode, sweepDue, running, latest, multi>>

(* disconnect(): a close frame, or the socket's error, end or close event. *)
(* For a destroyed socket this is the pending close event.                 *)
Released_AnyHolder(s) == {n \in Nodes : socketToNode[s] = n}  \* mutant
Released(s) == {n \in Nodes : socketToNode[s] = n /\ conns[n] = s}

Without(N) == /\ conns' = [n \in Nodes |-> IF n \in N THEN NoSocket ELSE conns[n]]
              /\ lastSeen' = [n \in Nodes |-> IF n \in N THEN 0 ELSE lastSeen[n]]

Disconnect(s) ==
    /\ sock[s] # "closed"
    /\ sock' = [sock EXCEPT ![s] = "closed"]
    /\ socketToNode' = [socketToNode EXCEPT ![s] = NoNode]
    /\ Without(Released(s))
    /\ quiet' = [quiet EXCEPT ![s] = 0]
    /\ out' = {}
    /\ UNCHANGED <<sweepDue, running, latest, multi>>

(* One sweep interval passes. *)
Tick ==
    /\ running
    /\ ~sweepDue
    /\ sweepDue' = TRUE
    /\ lastSeen' = [n \in Nodes |-> IF conns[n] = NoSocket THEN 0
                                                           ELSE Older(lastSeen[n])]
    /\ quiet' = [s \in Sockets |-> IF sock[s] = "open" THEN Older(quiet[s]) ELSE 0]
    /\ out' = {}
    /\ UNCHANGED <<sock, conns, socketToNode, running, latest, multi>>

Idle_OpenOnly(n) == /\ conns[n] # NoSocket /\ sock[conns[n]] = "open"  \* mutant
                    /\ lastSeen[n] > IdleTimeout
Idle(n) == conns[n] # NoSocket /\ lastSeen[n] > IdleTimeout

(* The sweep timer closes and forgets every entry past the idle timeout.   *)
Sweep ==
    /\ running
    /\ sweepDue
    /\ sweepDue' = FALSE
    /\ LET idle == {n \in Nodes : Idle(n)}
       IN Without(idle) /\ sock' = Destroy({conns[n] : n \in idle})
    /\ out' = {}
    /\ UNCHANGED <<socketToNode, running, latest, quiet, multi>>

(* close(): stops the timer and destroys the registered sockets.  A socket *)
(* that has not registered stays open and may still do so.                 *)
Close ==
    /\ running
    /\ running' = FALSE
    /\ sweepDue' = FALSE
    /\ sock' = Destroy({conns[n] : n \in Nodes})
    /\ Without(Nodes)
    /\ socketToNode' = [s \in Sockets |-> NoNode]
    /\ out' = {}
    /\ UNCHANGED <<latest, quiet, multi>>

SocketStep(s) ==
    \/ Connect(s)
    \/ Answer(s)
    \/ \E n \in Nodes : Register(s, n)
    \/ \E n \in Nodes : Send(s, n)
    \/ Disconnect(s)

Next ==
    \/ \E s \in Sockets : SocketStep(s)
    \/ Tick
    \/ Sweep
    \/ Close

(* The event loop delivers the close event of a destroyed socket and runs  *)
(* the interval timer; nothing obliges a client to connect or to send.     *)
Fairness ==
    /\ \A s \in Sockets : WF_vars(sock[s] = "destroyed" /\ Disconnect(s))
    /\ WF_vars(Tick)
    /\ WF_vars(Sweep)

Spec == Init /\ [][Next]_vars
FairSpec == Spec /\ Fairness

-----------------------------------------------------------------------------
(* Every variable has its type (type invariant of the relay's maps). *)
TypeOK ==
    /\ sock \in [Sockets -> {"closed", "open", "destroyed"}]
    /\ conns \in [Nodes -> Sockets \cup {NoSocket}]
    /\ lastSeen \in [Nodes -> 0..MaxAge]
    /\ socketToNode \in [Sockets -> Nodes \cup {NoNode}]
    /\ sweepDue \in BOOLEAN
    /\ running \in BOOLEAN
    /\ out \subseteq Frames
    /\ latest \in [Nodes -> Sockets \cup {NoSocket}]
    /\ quiet \in [Sockets -> 0..MaxAge]
    /\ multi \in [Sockets -> BOOLEAN]

(* A node id is never routed to a socket that a later REGISTER superseded: *)
(* neither a late close event nor a frame of the old socket (touch writes  *)
(* conns again) may bring the old route back.                              *)
RouteIsLatest == \A n \in Nodes : conns[n] # NoSocket => conns[n] = latest[n]

(* The newest registration of an id keeps its route for as long as its     *)
(* socket is open: no handler of another socket, no sweep of another entry *)
(* and no second id registered on the same socket takes it away.           *)
OpenRegistrationRouted ==
    \A n \in Nodes : latest[n] # NoSocket /\ sock[latest[n]] = "open"
                     => conns[n] = latest[n]

(* An open socket owns the id it registered last, so touch() never takes   *)
(* the entry of another socket and no id has two open sockets.             *)
OpenSocketOwnsItsId ==
    \A s \in Sockets : sock[s] = "open" /\ socketToNode[s] # NoNode
                       => latest[socketToNode[s]] = s

(* A sender is told NO_TARGET only when the newest registration of the     *)
(* target has lost its socket.                                             *)
NoTargetIsTrue ==
    \A f \in out : f.type = "NO_TARGET" =>
        latest[f.node] = NoSocket \/ sock[latest[f.node]] # "open"

(* The entry of a socket that registered a single id, as the clients of this *)
(* repository do, never outlives disconnect(): forwarding to a dead socket   *)
(* is limited to the time between a destroy and its close event.             *)
NoDanglingRoute ==
    \A n \in Nodes : conns[n] # NoSocket /\ ~multi[conns[n]] =>
        /\ sock[conns[n]] # "closed"
        /\ socketToNode[conns[n]] = n

(* The sweep destroys no socket with a single id that sent a frame, ping or  *)
(* text, within the idle timeout.                                            *)
SweepSparesActive ==
    [][\A s \in Sockets :
         Sweep /\ sock[s] = "open" /\ ~multi[s] /\ quiet[s] <= IdleTimeout
         => sock'[s] = "open"]_vars

(* Whatever ids clients register, an entry whose socket is gone does not    *)
(* stay: touch() cannot renew it, so the sweep removes it (unless the relay *)
(* is closed).                                                              *)
DeadRoute(n) == conns[n] # NoSocket /\ sock[conns[n]] = "closed"
DeadRouteRemoved == \A n \in Nodes : running /\ DeadRoute(n)
                                     ~> ~running \/ ~DeadRoute(n)

(* The sweep takes away what is dead and leaves alone what is in use.       *)
SweepIsRight == DeadRouteRemoved /\ SweepSparesActive
=============================================================================
