--------------------------- MODULE RelaySingleton ---------------------------
(***************************************************************************)
(* The process-wide relay connection, src/runtime/network/                 *)
(* relaySingleton.mjs, as used by src/runtime/transport/relayClient.mjs.   *)
(* Senders ask for a connection; a loop tries the candidates; the events   *)
(* of every socket ever made write the shared connection state, also those *)
(* of sockets that were given up.  A socket in CLOSING delivers no message *)
(* any more (the global WebSocket), but its close event is still to come.  *)
(***************************************************************************)
EXTENDS Naturals, FiniteSets

CONSTANTS Wires,       \* names of the sockets, taken again after the close event
          Tries,       \* attempts of a round: candidates times three
          None

VARIABLES
    ready,        \* readyState of each socket: none, connecting, open, closing
    registered,   \* sockets that got a REGISTER_ACK
    conn,         \* S.connection_state
    global,       \* g.__RELAY_SINGLETON_WS__
    active,       \* S.activeWs
    loop,         \* ensureConnected: off, try, wait (for a socket), sleep
    awaited,      \* the socket the loop waits for, or None
    tries,        \* attempts left in this round
    timer,        \* S.reconnect_timer is set
    stopping,     \* S.stopping
    relayUp       \* environment: the relay answers and keeps its sockets

singleVars == <<ready, registered, conn, global, active, loop, awaited,
                tries, timer, stopping, relayUp>>
socketVars == <<ready, registered, global, active>>
loopVars == <<loop, awaited, tries>>

Init ==
    /\ ready = [w \in Wires |-> "none"]
    /\ registered = {}
    /\ conn = "DISCONNECTED"
    /\ global = None /\ active = None
    /\ loop = "off" /\ awaited = None /\ tries = 0
    /\ timer = FALSE /\ stopping = FALSE
    /\ relayUp = TRUE

Live == {w \in Wires : ready[w] \in {"connecting", "open"}}

-----------------------------------------------------------------------------
(* ensureConnected, called by send and by the reconnect timer. *)
StartsRound == loop = "off" /\ conn = "DISCONNECTED"
Ensured ==
    IF StartsRound THEN loop' = "try" /\ tries' = Tries ELSE UNCHANGED <<loop, tries>>

Send ==
    /\ Ensured /\ StartsRound
    /\ UNCHANGED <<socketVars, conn, awaited, timer, stopping, relayUp>>

ReconnectTimer ==
    /\ timer
    /\ timer' = FALSE
    /\ Ensured
    /\ UNCHANGED <<socketVars, conn, awaited, stopping, relayUp>>

(* The end of a round. *)
RoundEnded == loop' = "off" /\ tries' = 0 /\ awaited' = None

(* connectOnce.  The guard on the global socket lets one that is still      *)
(* connecting pass: its readyState is 0.                                    *)
Blocked_Never == FALSE                                               \* mutant
Blocked == global # None /\ ready[global] \in {"open", "closing"}

Stopped ==
    /\ loop = "try" /\ stopping
    /\ RoundEnded
    /\ UNCHANGED <<socketVars, conn, timer, stopping, relayUp>>

AlreadyConnected ==
    /\ loop = "try" /\ ~stopping /\ conn = "CONNECTED"
    /\ IF active # None THEN RoundEnded
                        ELSE loop' = "sleep" /\ UNCHANGED <<awaited, tries>>
    /\ UNCHANGED <<socketVars, conn, timer, stopping, relayUp>>

DuplicateBlocked ==
    /\ loop = "try" /\ ~stopping /\ conn # "CONNECTED"
    /\ conn = "CONNECTING" \/ Blocked
    /\ loop' = "sleep"
    /\ UNCHANGED <<socketVars, conn, awaited, tries, timer, stopping, relayUp>>

Create(w) ==
    /\ loop = "try" /\ ~stopping
    /\ conn = "DISCONNECTED" /\ ~Blocked
    /\ ready[w] = "none"
    /\ conn' = "CONNECTING"
    /\ ready' = [ready EXCEPT ![w] = "connecting"]
    /\ global' = w
    /\ loop' = "wait" /\ awaited' = w
    /\ UNCHANGED <<registered, active, tries, timer, stopping, relayUp>>

Wake ==
    /\ loop = "sleep"
    /\ IF tries > 1
       THEN loop' = "try" /\ tries' = tries - 1 /\ UNCHANGED <<awaited, conn>>
       ELSE /\ RoundEnded
            /\ conn' = IF conn = "CONNECTING" THEN "DISCONNECTED" ELSE conn
    /\ UNCHANGED <<socketVars, timer, stopping, relayUp>>

(* finish: the promise the loop waits for is resolved once. *)
Failed(w) ==
    IF awaited = w THEN loop' = "sleep" /\ awaited' = None /\ UNCHANGED tries
                   ELSE UNCHANGED loopVars
Cleared(w) == IF global = w THEN None ELSE global

-----------------------------------------------------------------------------
Opens(w) ==
    /\ ready[w] = "connecting" /\ relayUp
    /\ ready' = [ready EXCEPT ![w] = "open"]
    /\ UNCHANGED <<registered, global, active, conn, loopVars, timer, stopping, relayUp>>

(* REGISTER_ACK, also for a socket that is no longer wanted after close(). *)
RegisterAck(w) ==
    /\ ready[w] = "open" /\ w \notin registered /\ relayUp
    /\ registered' = registered \cup {w}
    /\ conn' = "CONNECTED"
    /\ timer' = FALSE
    /\ active' = w
    /\ IF awaited = w THEN RoundEnded ELSE UNCHANGED loopVars
    /\ UNCHANGED <<ready, global, stopping, relayUp>>

(* The eight seconds are over, or an error event: both close the socket and *)
(* declare the link disconnected, whichever socket it has.                  *)
GiveUp(w) ==
    /\ ready' = [ready EXCEPT ![w] = "closing"]
    /\ conn' = "DISCONNECTED"
    /\ global' = Cleared(w)
    /\ Failed(w)
    /\ UNCHANGED <<registered, active, timer, stopping, relayUp>>
RegisterTimeout(w) == w \in Live \ registered /\ ~relayUp /\ GiveUp(w)
SocketError(w) == w \in Live /\ ~relayUp /\ GiveUp(w)

(* onclose of a socket: the events of sockets given up come late. *)
AfterLoss_Kept == conn                                               \* mutant
AfterLoss == "DISCONNECTED"
Gone(w) ==
    /\ ready[w] = "closing" \/ (ready[w] = "open" /\ ~relayUp)
    /\ ready' = [ready EXCEPT ![w] = "none"]
    /\ registered' = registered \ {w}
    /\ UNCHANGED <<stopping, relayUp>>
LostBeforeRegister(w) ==
    /\ Gone(w) /\ w \notin registered
    /\ conn' = "DISCONNECTED"
    /\ global' = Cleared(w)
    /\ Failed(w)
    /\ UNCHANGED <<active, timer>>
LostRegistered(w) ==
    /\ Gone(w) /\ w \in registered
    /\ IF stopping THEN UNCHANGED <<conn, active, global, timer>>
       ELSE /\ conn' = AfterLoss
            /\ active' = IF active = w THEN None ELSE active
            /\ global' = Cleared(w)
            /\ timer' = TRUE                      \* scheduleReconnect
    /\ UNCHANGED loopVars

(* close(): nothing resets stopping, and a socket still connecting is left. *)
Close ==
    /\ ~stopping
    /\ stopping' = TRUE
    /\ timer' = FALSE
    /\ ready' = [w \in Wires |->
                  IF w = active /\ ready[w] = "open" THEN "closing" ELSE ready[w]]
    /\ active' = None /\ global' = None
    /\ conn' = "DISCONNECTED"
    /\ UNCHANGED <<registered, loopVars, relayUp>>

RelayEnvironment ==
    /\ relayUp' = ~relayUp
    /\ UNCHANGED <<socketVars, conn, loopVars, timer, stopping>>

Loop == Stopped \/ AlreadyConnected \/ DuplicateBlocked \/ Wake \/ \E w \in Wires : Create(w)
SocketEvent(w) ==
    \/ Opens(w) \/ RegisterAck(w) \/ RegisterTimeout(w) \/ SocketError(w)
    \/ LostBeforeRegister(w) \/ LostRegistered(w)
Next ==
    \/ Send \/ ReconnectTimer \/ Loop \/ Close \/ RelayEnvironment
    \/ \E w \in Wires : SocketEvent(w)

-----------------------------------------------------------------------------
(* What send() finds after ensureConnected. *)
CanSend == active # None /\ ready[active] = "open"

(* Every variable has its type. *)
TypeOK ==
    /\ ready \in [Wires -> {"none", "connecting", "open", "closing"}]
    /\ registered \subseteq Wires
    /\ conn \in {"DISCONNECTED", "CONNECTING", "CONNECTED"}
    /\ global \in Wires \cup {None} /\ active \in Wires \cup {None}
    /\ awaited \in Wires \cup {None}
    /\ loop \in {"off", "try", "wait", "sleep"} /\ tries \in 0..Tries
    /\ timer \in BOOLEAN /\ stopping \in BOOLEAN /\ relayUp \in BOOLEAN

(* "Hard guarantee: only one ws in-process": late events of sockets that    *)
(* were given up leave the shared state DISCONNECTED while a newer socket   *)
(* is connected, and still no second connection is made beside it.          *)
OnlyOneSocket == Cardinality(Live) <= 1

(* Once the relay stays up and nobody closes, the process can send for      *)
(* good, as long as it keeps trying to send: a round that failed, a timer   *)
(* that found a round running and a state declared disconnected by an old   *)
(* socket all heal.                                                         *)
Reconnects == <>[](relayUp /\ ~stopping) => <>[]CanSend
=============================================================================
