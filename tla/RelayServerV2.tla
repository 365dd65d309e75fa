--------------------------- MODULE RelayServerV2 ---------------------------
(***************************************************************************)
(* The relay with explicit registration, src/relay/relayServerV2.mjs: a    *)
(* node may register several sessions, and a message to a node goes to the *)
(* session that registered last.  Every socket has its own handlers, so    *)
(* the frames and the close events of different sockets come in any order. *)
(***************************************************************************)
EXTENDS Naturals

CONSTANTS Sockets, RelayNodes, Sessions,
          None,      \* null
          MaxClock   \* bound: milliseconds that are told apart

VARIABLES
    wire,       \* each socket: unused, open, ended (by the server) or dead
    reg,        \* the closure variable reg of each socket, or None
    entries,    \* the entries map: [socket, at] by node and session, or None
    latest,     \* latestByNode: a session of each node, or None
    clock,      \* nowIso(), to the millisecond
    careless    \* history: sockets that registered more than one session

relayVars == <<wire, reg, entries, latest, clock, careless>>

Keys == RelayNodes \X Sessions
Has(es, k) == es[k] # None

Init ==
    /\ wire = [s \in Sockets |-> "unused"]
    /\ reg = [s \in Sockets |-> None]
    /\ entries = [k \in Keys |-> None]
    /\ latest = [n \in RelayNodes |-> None]
    /\ clock = 0
    /\ careless = {}

-----------------------------------------------------------------------------
Upgrade(s) ==
    /\ wire[s] = "unused"
    /\ wire' = [wire EXCEPT ![s] = "open"]
    /\ UNCHANGED <<reg, entries, latest, clock, careless>>

(* A socket the server has ended still delivers what its peer sends. *)
Receives(s) == wire[s] \in {"open", "ended"}

(* register: the same session from another socket replaces that socket, but *)
(* nothing removes what this socket registered before.                      *)
Replaced(s, k) == {o \in Sockets \ {s} : Has(entries, k) /\ entries[k].socket = o}
Register(s, n, x) ==
    LET k == <<n, x>>
    IN /\ Receives(s)
       /\ wire' = [o \in Sockets |->
            IF o \in Replaced(s, k) /\ wire[o] = "open" THEN "ended" ELSE wire[o]]
       /\ careless' = IF reg[s] \in {None, k} THEN careless ELSE careless \cup {s}
       /\ reg' = [reg EXCEPT ![s] = k]
       /\ entries' = [entries EXCEPT ![k] = [socket |-> s, at |-> clock]]
       /\ latest' = [latest EXCEPT ![n] = x]
       /\ UNCHANGED clock

(* recomputeLatest; registrations of one millisecond come in either order. *)
SessionsOf(es, n) == {x \in Sessions : Has(es, <<n, x>>)}
Best(es, n) ==
    {x \in SessionsOf(es, n) :
        \A y \in SessionsOf(es, n) : es[<<n, y>>].at <= es[<<n, x>>].at}
Recomputed_Dropped(es, n) == {None}                                  \* mutant
Recomputed(es, n) == IF SessionsOf(es, n) = {} THEN {None} ELSE Best(es, n)

(* The handler of the close, end and error events, and of a close frame. *)
Cleanup_Anyone(s) == reg[s] # None /\ Has(entries, reg[s])           \* mutant
Cleanup(s) == reg[s] # None /\ Has(entries, reg[s]) /\ entries[reg[s]].socket = s
CleanedUp(s) ==
    /\ reg' = [reg EXCEPT ![s] = None]
    /\ \/ /\ Cleanup(s)
          /\ entries' = [entries EXCEPT ![reg[s]] = None]
          /\ \E x \in Recomputed(entries', reg[s][1]) :
               latest' = [latest EXCEPT ![reg[s][1]] = x]
       \/ /\ ~Cleanup(s)
          /\ UNCHANGED <<entries, latest>>

CloseFrame(s) ==
    /\ Receives(s)
    /\ wire' = [wire EXCEPT ![s] = "ended"]
    /\ CleanedUp(s)
    /\ UNCHANGED <<clock, careless>>

(* The connection breaks: the socket is destroyed, its event comes later. *)
Breaks(s) ==
    /\ Receives(s)
    /\ wire' = [wire EXCEPT ![s] = "dead"]
    /\ UNCHANGED <<reg, entries, latest, clock, careless>>

(* The event of a destroyed socket; a new connection may take its name.     *)
CloseEvent(s) ==
    /\ wire[s] = "dead"
    /\ s \notin careless
    /\ CleanedUp(s)
    /\ wire' = [wire EXCEPT ![s] = "unused"]
    /\ UNCHANGED <<clock, careless>>
CloseEventCareless(s) ==
    /\ wire[s] = "dead" /\ s \in careless /\ reg[s] # None
    /\ CleanedUp(s)
    /\ UNCHANGED <<wire, clock, careless>>

RelayClock ==
    /\ clock < MaxClock
    /\ clock' = clock + 1
    /\ UNCHANGED <<wire, reg, entries, latest, careless>>

Next ==
    \/ \E s \in Sockets :
         \/ Upgrade(s) \/ CloseFrame(s) \/ Breaks(s)
         \/ CloseEvent(s) \/ CloseEventCareless(s)
         \/ \E n \in RelayNodes, x \in Sessions : Register(s, n, x)
    \/ RelayClock

-----------------------------------------------------------------------------
(* What relaying to n does: forwarded to that socket, or dropped. *)
Routed(n) ==
    IF latest[n] = None THEN None ELSE entries[<<n, latest[n]>>]
Dropped(n) == Routed(n) = None \/ wire[Routed(n).socket] = "dead"

(* Every variable has its type. *)
TypeOK ==
    /\ wire \in [Sockets -> {"unused", "open", "ended", "dead"}]
    /\ reg \in [Sockets -> Keys \cup {None}]
    /\ entries \in [Keys -> {None} \cup [socket : Sockets, at : 0..MaxClock]]
    /\ latest \in [RelayNodes -> Sessions \cup {None}]
    /\ clock \in 0..MaxClock /\ careless \subseteq Sockets

(* A node with a registered session has a route, the route is a session     *)
(* that registered last, and a message to it is dropped only while the      *)
(* close event of that session's socket is still to come, whatever          *)
(* replacements and late events happened, unless a client registered two    *)
(* sessions on one socket: the first of them then stays for good.           *)
RouteIsLive ==
    \A n \in RelayNodes : SessionsOf(entries, n) # {} =>
        /\ latest[n] \in Best(entries, n)
        /\ Dropped(n) => \/ reg[Routed(n).socket] = <<n, latest[n]>>
                         \/ Routed(n).socket \in careless
=============================================================================
