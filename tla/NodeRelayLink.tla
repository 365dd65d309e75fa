---------------------------- MODULE NodeRelayLink ----------------------------
(***************************************************************************)
(* The runtime's relay connection,                                         *)
(* src/runtime/network/nodeNetworkIntegrationV0_1.mjs.  ensureConnected()  *)
(* runs a round of connection attempts over the relay candidates;          *)
(* connectOnce() makes one WebSocket and waits until it is registered, has *)
(* failed or timed out; the loss of a registered socket sets a timer that  *)
(* starts the next round.                                                  *)
(*                                                                         *)
(* An action is one callback of the event loop with the promise            *)
(* continuations it resolves.  Time is abstracted: any armed timer may     *)
(* fire, which covers every value of the delays and of the backoff.        *)
(***************************************************************************)
EXTENDS Integers

CONSTANTS Sockets,      \* identities of the WebSockets of this process
          NoSocket,
          Relays,       \* number of relay candidates, in order of preference
          LocalOnly,    \* candidates that isLocalOnlyUrl rejects
          MaxAttempts   \* RELAY_RECONNECT_ATTEMPTS

ASSUME NodeRelayLinkAssumption ==
    /\ NoSocket \notin Sockets
    /\ Relays \in Nat \ {0}
    /\ LocalOnly \subseteq 1..Relays
    /\ MaxAttempts \in Nat \ {0}

VARIABLES
    sock,        \* readyState of each WebSocket
    url,         \* the candidate it was created for
    registered,  \* its REGISTER_ACK has arrived (the closure's variable)
    timeouts,    \* sockets whose register timeout is armed
    conn,        \* connection_state
    active,      \* activeWs
    global,      \* globalThis.__A2A_ACTIVE_RELAY_WS__
    relay,       \* state.relay_url, 0 for null
    ready,       \* state.relay_registered
    retry,       \* reconnect_timer is armed
    stopping,
    returned,    \* the initial round is over: the caller has the handle
    loop,        \* where the round of ensureConnected stands
    up,          \* environment: the relays that answer
    lost         \* history: a registered socket was lost outside a round and
                 \* no round has started since

link == <<conn, active, global, relay, ready>>
vars == <<sock, url, registered, timeouts, link, retry, stopping, returned, loop, up, lost>>

Candidates == 1..Relays
States == {"CONNECTING", "CONNECTED", "DISCONNECTED"}
Live(s) == sock[s] \in {"connecting", "open", "closing"}

(* A round: offset and attempt of the two for loops, the start index, and   *)
(* the socket whose registration it awaits, if any.  "idle" is ~reconnecting. *)
At(pc, start, offset, attempt, ws) ==
    [pc |-> pc, start |-> start, offset |-> offset, attempt |-> attempt, ws |-> ws]
Idle == At("idle", 1, 0, 1, NoSocket)
InRound == loop.pc # "idle"
Awaited(s) == loop.pc = "await" /\ loop.ws = s

Candidate(start, offset) == 1 + ((start - 1 + offset) % Relays)

Init ==
    /\ sock = [s \in Sockets |-> "closed"]
    /\ url = [s \in Sockets |-> 1]
    /\ registered = [s \in Sockets |-> FALSE]
    /\ timeouts = {}
    /\ conn = "DISCONNECTED"
    /\ active = NoSocket
    /\ global = NoSocket
    /\ relay = 0
    /\ ready = FALSE
    /\ retry = TRUE         \* stands for the initial call of ensureConnected
    /\ stopping = FALSE
    /\ returned = FALSE
    /\ loop = Idle
    /\ up \in SUBSET Candidates
    /\ lost = FALSE

-----------------------------------------------------------------------------
(* The finally block of ensureConnected. *)
EndRound(c) ==
    /\ loop' = Idle
    /\ returned' = TRUE
    /\ conn' = IF c = "CONNECTING" THEN "DISCONNECTED" ELSE c

(* The continuation of `await connectOnce`: a registered socket ends the    *)
(* round, anything else sleeps before the next attempt.                     *)
Stay(l) == loop' = l /\ returned' = returned
Sleep == Stay([loop EXCEPT !.pc = "sleep", !.ws = NoSocket])
Resume(s) == IF Awaited(s) THEN Sleep ELSE Stay(loop)

(* The process-wide guard against a second WebSocket. *)
GlobalBusy_OpenOnly == global # NoSocket /\ sock[global] = "open"    \* mutant
GlobalBusy == global # NoSocket /\ sock[global] \in {"open", "closing"}

Skipped(r) == r \in LocalOnly \/ conn = "CONNECTING"

(* new WebSocketCtor: the identity of a socket that nothing refers to. *)
Armed_Never(s) == timeouts                                           \* mutant
Armed(s) == timeouts \cup {s}

Create(l, r) == \E s \in Sockets \ {active, global} :
    /\ sock[s] = "closed"
    /\ sock' = [sock EXCEPT ![s] = "connecting"]
    /\ url' = [url EXCEPT ![s] = r]
    /\ registered' = [registered EXCEPT ![s] = FALSE]
    /\ timeouts' = Armed(s)
    /\ conn' = "CONNECTING"
    /\ global' = s
    /\ Stay([l EXCEPT !.pc = "await", !.ws = s])
    /\ UNCHANGED <<active, relay, ready>>

(* One pass of the inner loop of ensureConnected, up to its first wait. *)
Stops_Never == FALSE                                                 \* mutant
Stops == stopping

Attempt(l) ==
    LET r == Candidate(l.start, l.offset)
        retryLater == Stay([l EXCEPT !.pc = "sleep"])
    IN \/ /\ Stops \/ (~Skipped(r) /\ conn = "CONNECTED" /\ active # NoSocket)
          /\ EndRound(conn)
          /\ UNCHANGED <<sock, url, registered, timeouts, active, global, relay, ready>>
       \/ /\ ~Stops
          /\ Skipped(r) \/ (conn = "CONNECTED" /\ active = NoSocket)
          /\ retryLater
          /\ UNCHANGED <<sock, url, registered, timeouts, link>>
       \/ /\ ~Stops /\ ~Skipped(r) /\ conn = "DISCONNECTED" /\ GlobalBusy
          /\ retryLater
          /\ UNCHANGED <<sock, url, registered, timeouts, link>>
       \/ /\ ~Stops /\ ~Skipped(r) /\ conn = "DISCONNECTED" /\ ~GlobalBusy
          /\ Create(l, r)

(* The reconnect timer calls ensureConnected, which returns at once when a  *)
(* round is running or the link is not down.                                *)
Retry ==
    /\ retry
    /\ retry' = FALSE
    /\ IF InRound \/ conn # "DISCONNECTED"
       THEN UNCHANGED <<sock, url, registered, timeouts, link, returned, loop, lost>>
       ELSE /\ Attempt(At("sleep", IF relay = 0 THEN 1 ELSE relay, 0, 1, NoSocket))
            /\ lost' = FALSE
    /\ UNCHANGED <<stopping, up>>

(* The sleep after a failed attempt is over. *)
Wake ==
    /\ loop.pc = "sleep"
    /\ \/ /\ loop.attempt < MaxAttempts
          /\ Attempt([loop EXCEPT !.attempt = @ + 1])
       \/ /\ loop.attempt = MaxAttempts /\ loop.offset < Relays - 1
          /\ Attempt([loop EXCEPT !.attempt = 1, !.offset = @ + 1])
       \/ /\ loop.attempt = MaxAttempts /\ loop.offset = Relays - 1
          /\ EndRound(conn)    \* RELAY_ALL_CANDIDATES_FAILED
          /\ UNCHANGED <<sock, url, registered, timeouts, active, global, relay, ready>>
    /\ UNCHANGED <<retry, stopping, up, lost>>

-----------------------------------------------------------------------------
(* Events of one WebSocket (`ws` package: a handshake that fails or is      *)
(* aborted reports error and close in one go).                              *)

(* onopen sends REGISTER. *)
Open(s) ==
    /\ sock[s] = "connecting"
    /\ url[s] \in up
    /\ sock' = [sock EXCEPT ![s] = "open"]
    /\ UNCHANGED <<url, registered, timeouts, link, retry, stopping, returned, loop, up, lost>>

Forgotten(s) == IF global = s THEN NoSocket ELSE global

(* onerror and then the onclose of a socket that is not registered. *)
HandshakeFails(s) ==
    /\ sock[s] = "connecting"
    /\ url[s] \notin up
    /\ sock' = [sock EXCEPT ![s] = "closed"]
    /\ timeouts' = timeouts \ {s}
    /\ conn' = "DISCONNECTED"
    /\ global' = Forgotten(s)
    /\ Resume(s)
    /\ UNCHANGED <<url, registered, active, relay, ready, retry, stopping, up, lost>>

(* REGISTER_ACK.  A socket that is being closed still delivers it. *)
Acked(s) ==
    /\ sock[s] \in {"open", "closing"}
    /\ ~registered[s]
    /\ url[s] \in up
    /\ registered' = [registered EXCEPT ![s] = TRUE]
    /\ timeouts' = timeouts \ {s}
    /\ ready' = TRUE
    /\ relay' = url[s]
    /\ retry' = FALSE
    /\ active' = s
    /\ lost' = FALSE
    /\ IF Awaited(s)
       THEN /\ sock' = IF active \in Sockets \ {s} /\ sock[active] = "open"
                       THEN [sock EXCEPT ![active] = "closing"] ELSE sock
            /\ EndRound("CONNECTED")
       ELSE /\ conn' = "CONNECTED"
            /\ Stay(loop) /\ UNCHANGED sock
    /\ UNCHANGED <<url, global, stopping, up>>

(* The register timeout closes the socket and fails the attempt.  It leaves  *)
(* connection_state as it is; aborting a handshake reports its error.        *)
AfterTimeout(s) == IF sock[s] = "connecting" THEN "closed"
                   ELSE IF sock[s] = "open" THEN "closing" ELSE sock[s]

Timeout(s) ==
    /\ s \in timeouts
    /\ url[s] \notin up
    /\ timeouts' = timeouts \ {s}
    /\ sock' = [sock EXCEPT ![s] = AfterTimeout(s)]
    /\ IF sock[s] = "connecting"
       THEN conn' = "DISCONNECTED" /\ global' = Forgotten(s)
       ELSE UNCHANGED <<conn, global>>
    /\ Resume(s)
    /\ UNCHANGED <<url, registered, active, relay, ready, retry, stopping, up, lost>>

(* onerror of an open socket: a frame the WebSocket layer rejects. *)
Error(s) ==
    /\ sock[s] = "open"
    /\ url[s] \notin up
    /\ sock' = [sock EXCEPT ![s] = "closing"]
    /\ timeouts' = timeouts \ {s}
    /\ conn' = "DISCONNECTED"
    /\ Resume(s)
    /\ UNCHANGED <<url, registered, active, global, relay, ready, retry, stopping, up, lost>>

(* onclose: of a registered socket it schedules the reconnect, of another    *)
(* it fails the attempt.                                                     *)
Scheduled_Never == retry                                             \* mutant
Scheduled == TRUE    \* scheduleReconnect

AfterLoss_Kept == conn                                               \* mutant
AfterLoss == "DISCONNECTED"

ClosedRegistered(s) ==
    /\ registered[s]
    /\ IF stopping
       THEN UNCHANGED <<link, retry, lost>>
       ELSE /\ ready' = FALSE
            /\ conn' = AfterLoss
            /\ global' = Forgotten(s)
            /\ retry' = Scheduled
            /\ lost' = ~InRound
            /\ UNCHANGED <<active, relay>>
    /\ Stay(loop) /\ UNCHANGED timeouts

ClosedUnregistered(s) ==
    /\ ~registered[s]
    /\ timeouts' = timeouts \ {s}
    /\ conn' = "DISCONNECTED"
    /\ global' = Forgotten(s)
    /\ Resume(s)
    /\ UNCHANGED <<active, relay, ready, retry, lost>>

Closed(s) ==
    /\ sock[s] = "closing" \/ (sock[s] = "open" /\ url[s] \notin up)
    /\ sock' = [sock EXCEPT ![s] = "closed"]
    /\ ClosedRegistered(s) \/ ClosedUnregistered(s)
    /\ UNCHANGED <<url, registered, stopping, up>>

(* close() of the returned handle.  It closes the registered socket; one     *)
(* whose handshake or registration is pending stays.                         *)
Close ==
    /\ returned /\ ~stopping
    /\ stopping' = TRUE
    /\ retry' = FALSE
    /\ sock' = [s \in Sockets |-> IF s = active /\ sock[s] = "open" THEN "closing"
                                                                   ELSE sock[s]]
    /\ active' = NoSocket
    /\ conn' = "DISCONNECTED"
    /\ lost' = FALSE
    /\ UNCHANGED <<url, registered, timeouts, global, relay, ready, returned, loop, up>>

(* send() hands a frame to the socket: registered and activeWs open. *)
CanSend == ready /\ active # NoSocket /\ sock[active] = "open"

(* Relays go down and come back. *)
Environment ==
    /\ \E u \in SUBSET Candidates : u # up /\ up' = u
    /\ UNCHANGED <<sock, url, registered, timeouts, link, retry, stopping, returned, loop, lost>>

SocketEvent(s) ==
    \/ Open(s)
    \/ HandshakeFails(s)
    \/ Acked(s)
    \/ Timeout(s)
    \/ Error(s)
    \/ Closed(s)

Next ==
    \/ Retry
    \/ Wake
    \/ \E s \in Sockets : SocketEvent(s)
    \/ Close
    \/ Environment

(* Timers fire, a closing handshake ends (the WebSocket layer bounds it) and *)
(* a relay that stays up answers; nothing makes a relay come or stay up.     *)
(* The register timeout is strongly fair: its eight seconds pass even if the *)
(* relay comes and goes meanwhile.                                           *)
Fairness ==
    /\ WF_vars(Retry)
    /\ WF_vars(Wake)
    /\ \A s \in Sockets :
         /\ WF_vars(Open(s))
         /\ WF_vars(Acked(s))
         /\ SF_vars(HandshakeFails(s) \/ Timeout(s))
         /\ WF_vars(sock[s] = "closing" /\ Closed(s))

Spec == Init /\ [][Next]_vars
FairSpec == Spec /\ Fairness

-----------------------------------------------------------------------------
(* Every variable has its type. *)
TypeOK ==
    /\ sock \in [Sockets -> {"closed", "connecting", "open", "closing"}]
    /\ url \in [Sockets -> Candidates]
    /\ registered \in [Sockets -> BOOLEAN]
    /\ timeouts \subseteq Sockets
    /\ conn \in States
    /\ {active, global} \subseteq Sockets \cup {NoSocket}
    /\ relay \in 0..Relays
    /\ {ready, retry, stopping, returned, lost} \subseteq BOOLEAN
    /\ loop \in [pc : {"idle", "sleep", "await"}, start : Candidates,
                  offset : 0..(Relays - 1), attempt : 1..MaxAttempts,
                  ws : Sockets \cup {NoSocket}]
    /\ up \subseteq Candidates

(* The "single active connection per node_id" guard: whatever the order of  *)
(* timeouts, errors, late acknowledgements and close events of earlier      *)
(* sockets, the process never has two WebSockets that are not closed.       *)
AtMostOneSocket == \A s, q \in Sockets : Live(s) /\ Live(q) => s = q

(* connection_state says CONNECTED only while activeWs is a registered      *)
(* socket whose close event is still to come, so the event that repairs a   *)
(* lost connection cannot have been missed.                                 *)
ConnectedHasSocket ==
    conn = "CONNECTED" /\ ~stopping =>
        /\ active # NoSocket /\ registered[active]
        /\ sock[active] \in {"open", "closing"}

(* After close() the round that is under way opens no further socket.       *)
NoConnectAfterClose ==
    [][\A s \in Sockets : stopping /\ sock[s] = "closed" => sock'[s] = "closed"]_vars

(* Every round of attempts ends: some callback resolves each wait, whatever *)
(* the relay does.                                                          *)
RoundEnds == InRound ~> ~InRound

(* A lost connection comes back if its relay does: when a registered socket *)
(* is lost outside a round and the relay stays up from then on, the link    *)
(* registers again, whatever the other relays do.                           *)
RecoversFromLoss ==
    \A r \in Candidates : [](lost /\ relay = r /\ [](r \in up) => <>(CanSend \/ stopping))

(* "Try current relay a few times first, then failover": a relay that is    *)
(* up all the time is reached, whatever the relays before it do.            *)
FailoverReachesLiveRelay ==
    \A r \in Candidates \ LocalOnly : [](r \in up) => <>(CanSend \/ stopping)

(* The flags of the link tell the truth about its sockets, and there is one *)
(* socket at most, whatever the order of the socket events is.              *)
LinkSound == TypeOK /\ AtMostOneSocket /\ ConnectedHasSocket

(* Every round of attempts ends, and after close() none opens a socket.     *)
RoundsBehave == RoundEnds /\ NoConnectAfterClose
=============================================================================
