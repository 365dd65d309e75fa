------------------------- MODULE RelayServerV2Proofs -------------------------
(***************************************************************************)
(* Proofs about RelayServerV2, for any sockets, nodes, sessions and length *)
(* of the clock, and that it does what RelayServerV1 does when nodes have  *)
(* one session each.  RouteIsLive speaks of the session a node is reached  *)
(* by; Inv speaks of every registered session, since any of them may be    *)
(* the next route: its socket still answers for it, or is one that         *)
(* registered several.                                                     *)
(***************************************************************************)
EXTENDS RelayServerV2, TLAPS

Spec == Init /\ [][Next]_relayVars

Entries == [socket : Sockets, at : 0..MaxClock]

(* null is no session, no key and no entry; the clock has a bound.          *)
Constants == /\ None \notin Sessions /\ None \notin Keys /\ None \notin Entries
             /\ MaxClock \in Nat

(* A node's route is a session that registered last, if it has any.         *)
LatestIsBest ==
    \A n \in RelayNodes :
        IF latest[n] = None THEN SessionsOf(entries, n) = {} ELSE latest[n] \in Best(entries, n)

(* The socket of a registered session is connected, or its close event is   *)
(* to come, and will remove the session unless the socket registered more.  *)
Owned ==
    \A k \in Keys : Has(entries, k) =>
        /\ reg[entries[k].socket] = k \/ entries[k].socket \in careless
        /\ wire[entries[k].socket] # "unused"
        /\ entries[k].at <= clock

Inv == TypeOK /\ LatestIsBest /\ Owned

-----------------------------------------------------------------------------
LEMMA KeyType == \A n \in RelayNodes, x \in Sessions : <<n, x>> \in Keys
  BY DEF Keys

LEMMA KeyParts == \A k \in Keys : k[1] \in RelayNodes /\ k[2] \in Sessions /\ k = <<k[1], k[2]>>
  BY DEF Keys

LEMMA InitInv == ASSUME Constants, Init PROVE Inv
<1>1. TypeOK
  BY DEF Constants, Init, TypeOK
<1>2. \A k \in Keys : ~Has(entries, k)
  BY DEF Init, Has
<1>3. LatestIsBest
  BY <1>2, KeyType DEF Init, LatestIsBest, SessionsOf
<1> QED BY <1>1, <1>2, <1>3 DEF Inv, Owned

(* A change of the connections alone. *)
LEMMA WireInv ==
    ASSUME Inv, UNCHANGED <<reg, entries, latest, careless>>,
           wire' \in [Sockets -> {"unused", "open", "ended", "dead"}],
           clock' \in 0..MaxClock, clock <= clock', Constants,
           \A s \in Sockets : wire[s] # "unused" => wire'[s] # "unused"
    PROVE  Inv'
<1>1. TypeOK'
  BY DEF Inv, TypeOK
<1>2. LatestIsBest'
  BY DEF Inv, LatestIsBest, SessionsOf, Best, Has
<1>3. Owned'
  <2>1. clock \in Nat /\ clock' \in Nat
    BY DEF Constants, Inv, TypeOK
  <2>2. ASSUME NEW k \in Keys, Has(entries, k)
        PROVE  entries[k].socket \in Sockets /\ entries[k].at \in Nat
    BY <2>2 DEF Constants, Inv, TypeOK, Has, Entries
  <2> QED BY <2>1, <2>2 DEF Inv, Owned, Has
<1> QED BY <1>1, <1>2, <1>3 DEF Inv

LEMMA RegisterInv ==
    ASSUME Constants, Inv, NEW s \in Sockets, NEW n \in RelayNodes, NEW x \in Sessions,
           Register(s, n, x)
    PROVE  Inv'
<1> DEFINE k == <<n, x>>
           e == [socket |-> s, at |-> clock]
<1>1. k \in Keys /\ e \in Entries /\ e # None /\ e.socket = s /\ e.at = clock
  BY KeyType DEF Constants, Inv, TypeOK, Entries
<1>2. /\ reg' = [reg EXCEPT ![s] = k] /\ entries' = [entries EXCEPT ![k] = e]
      /\ latest' = [latest EXCEPT ![n] = x] /\ clock' = clock
      /\ careless' = IF reg[s] \in {None, k} THEN careless ELSE careless \cup {s}
  BY DEF Register
<1>3. wire' \in [Sockets -> {"unused", "open", "ended", "dead"}]
      /\ \A o \in Sockets : wire'[o] = "unused" <=> wire[o] = "unused"
  BY DEF Register, Inv, TypeOK
<1>4. TypeOK'
  BY <1>1, <1>2, <1>3 DEF Inv, TypeOK, Entries
<1>5. /\ \A q \in Keys : entries[q] \in Entries \cup {None} /\ (q # k => entries'[q] = entries[q])
      /\ entries'[k] = e
  BY <1>1, <1>2 DEF Inv, TypeOK, Entries
<1>6. LatestIsBest'
  <2>1. ASSUME NEW m \in RelayNodes, m # n
        PROVE  IF latest'[m] = None THEN SessionsOf(entries', m) = {}
                                    ELSE latest'[m] \in Best(entries', m)
    <3>1. \A y \in Sessions : entries'[<<m, y>>] = entries[<<m, y>>]
      BY <1>5, <2>1, KeyType
    <3>2. SessionsOf(entries', m) = SessionsOf(entries, m)
      BY <3>1 DEF SessionsOf, Has
    <3>3. Best(entries', m) = Best(entries, m)
      BY <3>1, <3>2 DEF Best, SessionsOf
    <3> QED BY <1>2, <2>1, <3>2, <3>3 DEF Inv, TypeOK, LatestIsBest
  <2>2. x \in Best(entries', n)
    <3>1. x \in SessionsOf(entries', n)
      BY <1>1, <1>5 DEF SessionsOf, Has
    <3>2. ASSUME NEW y \in SessionsOf(entries', n)
          PROVE  entries'[<<n, y>>].at <= entries'[<<n, x>>].at
      <4>1. CASE y = x
        BY <1>1, <1>5, <4>1 DEF Constants, Inv, TypeOK
      <4>2. CASE y # x
        <5>1. <<n, y>> \in Keys /\ <<n, y>> # k /\ y \in Sessions
          BY <4>2, KeyType DEF SessionsOf
        <5>2. Has(entries, <<n, y>>) /\ entries'[<<n, y>>] = entries[<<n, y>>]
          BY <1>5, <3>2, <5>1 DEF SessionsOf, Has
        <5> QED BY <1>1, <1>5, <5>1, <5>2 DEF Inv, Owned
      <4> QED BY <4>1, <4>2
    <3> QED BY <3>1, <3>2 DEF Best
  <2>3. latest'[n] = x /\ x # None
    BY <1>2 DEF Inv, TypeOK, Constants
  <2> QED BY <2>1, <2>2, <2>3 DEF LatestIsBest
<1>7. Owned'
  <2>1. ASSUME NEW q \in Keys, Has(entries', q)
        PROVE  /\ reg'[entries'[q].socket] = q \/ entries'[q].socket \in careless'
               /\ wire'[entries'[q].socket] # "unused"
               /\ entries'[q].at <= clock'
    <3>1. CASE q = k
      <4>1. reg'[s] = k /\ wire'[s] # "unused" /\ clock \in Nat
        BY <1>2, <1>3 DEF Register, Receives, Inv, TypeOK, Constants
      <4> QED BY <1>1, <1>2, <1>5, <3>1, <4>1
    <3>2. CASE q # k
      <4> DEFINE o == entries[q].socket
      <4>1. entries'[q] = entries[q] /\ Has(entries, q) /\ o \in Sockets
        BY <1>5, <2>1, <3>2 DEF Has, Entries
      <4>2. (reg[o] = q \/ o \in careless) /\ wire[o] # "unused" /\ entries[q].at <= clock
        BY <4>1 DEF Inv, Owned
      <4>3. reg'[o] = q \/ o \in careless'
        <5>1. q # None
          BY DEF Constants
        <5>2. CASE o = s
          BY <1>2, <3>2, <4>2, <5>1, <5>2
        <5>3. CASE o # s
          BY <1>2, <4>1, <4>2, <5>3 DEF Inv, TypeOK
        <5> QED BY <5>2, <5>3
      <4> QED BY <1>2, <1>3, <4>1, <4>2, <4>3
    <3> QED BY <3>1, <3>2
  <2> QED BY <2>1 DEF Owned
<1> QED BY <1>4, <1>6, <1>7 DEF Inv
-----------------------------------------------------------------------------
(* A best session exists wherever there is one: the times of registration   *)
(* are numbers up to the clock.                                             *)
LEMMA Recomputes ==
    ASSUME NEW es, NEW n \in RelayNodes, NEW x \in Recomputed(es, n), Constants
    PROVE  IF x = None THEN SessionsOf(es, n) = {} ELSE x \in Best(es, n)
  BY DEF Recomputed, Best, SessionsOf, Constants

(* The handler of the events of s, with what becomes of the connection: it  *)
(* may be forgotten only if no session is left that s registered.           *)
LEMMA CleanedUpInv ==
    ASSUME Constants, Inv, NEW s \in Sockets, CleanedUp(s), UNCHANGED <<clock, careless>>,
           wire' \in [Sockets -> {"unused", "open", "ended", "dead"}],
           \A o \in Sockets : wire[o] # "unused" /\ wire'[o] = "unused" => o = s /\ s \notin careless
    PROVE  Inv'
<1>1. reg' = [reg EXCEPT ![s] = None] /\ reg \in [Sockets -> Keys \cup {None}]
  BY DEF CleanedUp, Inv, TypeOK
<1>2. \A k \in Keys : /\ Has(entries', k) => entries'[k] = entries[k] /\ entries[k] \in Entries
                      /\ Has(entries', k) /\ ~(s \in careless) => entries[k].socket # s
  <2>1. CASE Cleanup(s) /\ entries' = [entries EXCEPT ![reg[s]] = None]
    <3>1. reg[s] \in Keys
      BY <1>1, <2>1 DEF Cleanup
    <3>2. \A k \in Keys : entries'[k] = IF k = reg[s] THEN None ELSE entries[k]
      BY <2>1, <3>1 DEF Inv, TypeOK
    <3> QED BY <3>2 DEF Has, Inv, TypeOK, Owned, Entries
  <2>2. CASE ~Cleanup(s) /\ UNCHANGED entries
    BY <2>2 DEF Cleanup, Has, Inv, TypeOK, Owned, Entries, Constants
  <2> QED BY <2>1, <2>2 DEF CleanedUp
<1>3. Owned'
  <2>1. ASSUME NEW k \in Keys, Has(entries', k)
        PROVE  /\ reg'[entries'[k].socket] = k \/ entries'[k].socket \in careless'
               /\ wire'[entries'[k].socket] # "unused"
               /\ entries'[k].at <= clock'
    <3> DEFINE o == entries[k].socket
    <3>1. entries'[k] = entries[k] /\ Has(entries, k) /\ o \in Sockets
      BY <1>2, <2>1 DEF Has, Entries
    <3>2. (reg[o] = k \/ o \in careless) /\ wire[o] # "unused" /\ entries[k].at <= clock
      BY <3>1 DEF Inv, Owned
    <3>3. o = s => s \in careless
      BY <1>2, <2>1
    <3> QED BY <1>1, <3>1, <3>2, <3>3
  <2> QED BY <2>1 DEF Owned
<1>4. entries' \in [Keys -> {None} \cup Entries]
      /\ latest' \in [RelayNodes -> Sessions \cup {None}]
      /\ LatestIsBest'
  <2>1. CASE ~Cleanup(s) /\ UNCHANGED <<entries, latest>>
    BY <2>1 DEF Inv, TypeOK, Entries, LatestIsBest, SessionsOf, Best, Has
  <2>2. CASE Cleanup(s)
    <3> DEFINE k == reg[s]
               n == k[1]
    <3>1. k \in Keys /\ n \in RelayNodes /\ entries' = [entries EXCEPT ![k] = None]
      BY <1>1, <2>2, KeyParts DEF CleanedUp, Cleanup
    <3>2. PICK x \in Recomputed(entries', n) : latest' = [latest EXCEPT ![n] = x]
      BY <2>2 DEF CleanedUp
    <3>3. entries' \in [Keys -> {None} \cup Entries]
      BY <3>1 DEF Inv, TypeOK, Entries
    <3>4. x \in Sessions \cup {None}
      BY <3>2 DEF Recomputed, Best, SessionsOf
    <3>5. latest' \in [RelayNodes -> Sessions \cup {None}]
      BY <3>1, <3>2, <3>4 DEF Inv, TypeOK
    <3>6. ASSUME NEW m \in RelayNodes
          PROVE  IF latest'[m] = None THEN SessionsOf(entries', m) = {}
                                      ELSE latest'[m] \in Best(entries', m)
      <4>1. CASE m = n
        <5>1. latest'[m] = x
          BY <3>1, <3>2, <4>1 DEF Inv, TypeOK
        <5> QED BY <3>1, <4>1, <5>1, Recomputes
      <4>2. CASE m # n
        <5>1. \A y \in Sessions : <<m, y>> \in Keys /\ <<m, y>> # k
          BY <3>1, <4>2, KeyType, KeyParts
        <5>2. \A y \in Sessions : entries'[<<m, y>>] = entries[<<m, y>>]
          BY <3>1, <5>1 DEF Inv, TypeOK
        <5>3. SessionsOf(entries', m) = SessionsOf(entries, m)
          BY <5>2 DEF SessionsOf, Has
        <5>4. Best(entries', m) = Best(entries, m)
          BY <5>2, <5>3 DEF Best, SessionsOf
        <5>5. latest'[m] = latest[m]
          BY <3>1, <3>2, <4>2 DEF Inv, TypeOK
        <5> QED BY <5>3, <5>4, <5>5 DEF Inv, LatestIsBest
      <4> QED BY <4>1, <4>2
    <3> QED BY <3>3, <3>5, <3>6 DEF LatestIsBest
  <2> QED BY <2>1, <2>2 DEF CleanedUp
<1>5. TypeOK'
  BY <1>1, <1>4 DEF Inv, TypeOK, Entries
<1> QED BY <1>3, <1>4, <1>5 DEF Inv

LEMMA StepInv == ASSUME Constants, Inv, [Next]_relayVars PROVE Inv'
<1> USE DEF Inv
<1>1. wire \in [Sockets -> {"unused", "open", "ended", "dead"}] /\ clock \in 0..MaxClock
  BY DEF TypeOK
<1>2. ASSUME NEW s \in Sockets, Upgrade(s) PROVE Inv'
  BY <1>1, <1>2, WireInv DEF Upgrade, Constants
<1>3. ASSUME NEW s \in Sockets, Breaks(s) PROVE Inv'
  BY <1>1, <1>3, WireInv DEF Breaks, Constants
<1>4. ASSUME NEW s \in Sockets, CloseFrame(s) PROVE Inv'
  BY <1>1, <1>4, CleanedUpInv DEF CloseFrame
<1>5. ASSUME NEW s \in Sockets, CloseEvent(s) PROVE Inv'
  BY <1>1, <1>5, CleanedUpInv DEF CloseEvent
<1>6. ASSUME NEW s \in Sockets, CloseEventCareless(s) PROVE Inv'
  BY <1>1, <1>6, CleanedUpInv DEF CloseEventCareless
<1>7. CASE RelayClock
  <2>1. clock' \in 0..MaxClock /\ clock <= clock'
    BY <1>1, <1>7 DEF RelayClock, Constants
  <2> QED BY <1>1, <1>7, <2>1, WireInv DEF RelayClock
<1>8. CASE UNCHANGED relayVars
  BY <1>1, <1>8, WireInv DEF relayVars, Constants
<1> QED BY <1>2, <1>3, <1>4, <1>5, <1>6, <1>7, <1>8, RegisterInv DEF Next

(* The inductive invariant holds of every behaviour of the relay. *)
THEOREM Invariance == ASSUME Constants PROVE Spec => []Inv
<1>1. Init => Inv
  BY InitInv
<1>2. Inv /\ [Next]_relayVars => Inv'
  BY StepInv
<1> QED BY <1>1, <1>2, PTL DEF Spec
(* Type correctness, for any sockets, nodes and sessions. *)
THEOREM TypeCorrect == ASSUME Constants PROVE Spec => []TypeOK
<1>1. Inv => TypeOK
  BY DEF Inv
<1> QED BY <1>1, Invariance, PTL

LEMMA InvRoute == ASSUME Constants, Inv PROVE RouteIsLive
<1> SUFFICES ASSUME NEW n \in RelayNodes, SessionsOf(entries, n) # {}
             PROVE  /\ latest[n] \in Best(entries, n)
                    /\ Dropped(n) => \/ reg[Routed(n).socket] = <<n, latest[n]>>
                                     \/ Routed(n).socket \in careless
  BY DEF RouteIsLive
<1>1. latest[n] # None /\ latest[n] \in Best(entries, n)
  BY DEF Inv, LatestIsBest
<1>2. <<n, latest[n]>> \in Keys /\ Has(entries, <<n, latest[n]>>)
  BY <1>1, KeyType DEF Best, SessionsOf
<1> QED BY <1>1, <1>2 DEF Inv, Owned, Routed

(* Replacements, close frames, broken connections and late close events in  *)
(* any order: a node with a registered session is routed to a session that  *)
(* registered last, and dropped only while the close event of its socket is *)
(* to come, unless that socket registered several sessions.                 *)
THEOREM RoutesAreLive == ASSUME Constants PROVE Spec => []RouteIsLive
<1>1. Inv => RouteIsLive
  BY InvRoute
<1> QED BY <1>1, Invariance, PTL

(* No session outlives the connection it was registered on: a new one that  *)
(* takes the name of a socket inherits no route of it.                      *)
THEOREM NoInheritedRoute ==
    ASSUME Constants
    PROVE  Spec => [](\A k \in Keys : Has(entries, k) => wire[entries[k].socket] # "unused")
<1>1. Inv => \A k \in Keys : Has(entries, k) => wire[entries[k].socket] # "unused"
  BY DEF Inv, Owned
<1> QED BY <1>1, Invariance, PTL

-----------------------------------------------------------------------------
(* The first relay, as the second one with a single session shows it.       *)
SocketOf == [n \in RelayNodes |->
              IF latest[n] = None THEN None ELSE entries[<<n, latest[n]>>].socket]
NodeIdOf == [s \in Sockets |-> IF reg[s] = None THEN None ELSE reg[s][1]]
StateOf == [s \in Sockets |-> IF wire[s] \in {"open", "ended"} THEN "up" ELSE wire[s]]

V1 == INSTANCE RelayServerV1 WITH socketOf <- SocketOf, nodeId <- NodeIdOf, state <- StateOf

ImplementsV1 == [][V1!Next]_(V1!v1Vars)

(* A node's route, where it has one session x.                              *)
LEMMA SingleRoute ==
    ASSUME Constants, Inv, NEW x, Sessions = {x}
    PROVE  /\ x # None
           /\ \A n \in RelayNodes :
                 SocketOf[n] = IF Has(entries, <<n, x>>) THEN entries[<<n, x>>].socket ELSE None
<1>1. x # None
  BY DEF Constants
<1>2. ASSUME NEW n \in RelayNodes
      PROVE  SocketOf[n] = IF Has(entries, <<n, x>>) THEN entries[<<n, x>>].socket ELSE None
  <2>1. CASE latest[n] = None
    BY <2>1 DEF Inv, LatestIsBest, SessionsOf, SocketOf
  <2>2. CASE latest[n] # None
    BY <2>2 DEF Inv, LatestIsBest, Best, SessionsOf, SocketOf
  <2> QED BY <2>1, <2>2
<1> QED BY <1>1, <1>2

LEMMA MapsInit == ASSUME Init PROVE V1!Init
  BY DEF Init, V1!Init, SocketOf, NodeIdOf, StateOf

(* The cleanup of a socket takes its node's route, if the route is its own. *)
LEMMA MapsCleanedUp ==
    ASSUME Constants, None \notin RelayNodes \cup Sockets, Inv, Inv', NEW x, Sessions = {x},
           NEW s \in Sockets, CleanedUp(s)
    PROVE  V1!CleanedUp(s)
<1>1. \A n \in RelayNodes :
        /\ <<n, x>> \in Keys
        /\ SocketOf[n] = IF Has(entries, <<n, x>>) THEN entries[<<n, x>>].socket ELSE None
        /\ SocketOf'[n] = IF Has(entries', <<n, x>>) THEN entries'[<<n, x>>].socket ELSE None
  <2>1. \A n \in RelayNodes :
          SocketOf[n] = IF Has(entries, <<n, x>>) THEN entries[<<n, x>>].socket ELSE None
    BY SingleRoute
  <2>2. \A n \in RelayNodes :
          SocketOf'[n] = IF Has(entries', <<n, x>>) THEN entries'[<<n, x>>].socket ELSE None
    <3>1. ASSUME NEW n \in RelayNodes, latest'[n] = None
          PROVE  SocketOf'[n] = IF Has(entries', <<n, x>>) THEN entries'[<<n, x>>].socket ELSE None
      BY <3>1 DEF Inv, LatestIsBest, SessionsOf, SocketOf
    <3>2. ASSUME NEW n \in RelayNodes, latest'[n] # None
          PROVE  SocketOf'[n] = IF Has(entries', <<n, x>>) THEN entries'[<<n, x>>].socket ELSE None
      BY <3>2 DEF Inv, LatestIsBest, Best, SessionsOf, SocketOf
    <3> QED BY <3>1, <3>2
  <2> QED BY <2>1, <2>2, KeyType
<1>2. reg[s] # None => \E n \in RelayNodes : reg[s] = <<n, x>>
  BY KeyParts DEF Inv, TypeOK
<1>3. NodeIdOf' = [NodeIdOf EXCEPT ![s] = None]
  BY DEF CleanedUp, NodeIdOf, Inv, TypeOK
<1>4. ASSUME NEW n \in RelayNodes
      PROVE  SocketOf'[n] = IF n = NodeIdOf[s] /\ SocketOf[n] = s THEN None ELSE SocketOf[n]
  <2>1. n = NodeIdOf[s] <=> reg[s] = <<n, x>>
    <3>1. CASE reg[s] = None
      BY <1>1, <3>1 DEF NodeIdOf, Constants
    <3>2. CASE reg[s] # None
      <4>1. PICK m \in RelayNodes : reg[s] = <<m, x>>
        BY <1>2, <3>2
      <4>2. NodeIdOf[s] = m
        BY <3>2, <4>1 DEF NodeIdOf
      <4> QED BY <4>1, <4>2
    <3> QED BY <3>1, <3>2
  <2>2. CASE Cleanup(s)
    <3>1. \A k \in Keys : entries'[k] = IF k = reg[s] THEN None ELSE entries[k]
      BY <2>2 DEF CleanedUp, Cleanup, Inv, TypeOK
    <3>2. CASE reg[s] = <<n, x>>
      <4>1. SocketOf[n] = s
        BY <1>1, <2>2, <3>2 DEF Cleanup
      <4>2. SocketOf'[n] = None
        BY <1>1, <3>1, <3>2 DEF Has
      <4> QED BY <2>1, <3>2, <4>1, <4>2
    <3>3. CASE reg[s] # <<n, x>>
      <4>1. SocketOf'[n] = SocketOf[n]
        <5>1. entries'[<<n, x>>] = entries[<<n, x>>]
          BY <1>1, <3>1, <3>3
        <5> QED BY <1>1, <5>1 DEF Has
      <4> QED BY <2>1, <3>3, <4>1
    <3> QED BY <3>2, <3>3
  <2>3. CASE ~Cleanup(s)
    <3>1. SocketOf'[n] = SocketOf[n]
      BY <1>1, <2>3 DEF CleanedUp
    <3>2. ~(n = NodeIdOf[s] /\ SocketOf[n] = s)
      BY <1>1, <2>1, <2>3 DEF Cleanup, Constants
    <3> QED BY <3>1, <3>2
  <2> QED BY <2>2, <2>3
<1>5. SocketOf' = [n \in RelayNodes |->
                    IF n = NodeIdOf[s] /\ SocketOf[n] = s THEN None ELSE SocketOf[n]]
  BY <1>4 DEF SocketOf
<1> QED BY <1>3, <1>5 DEF V1!CleanedUp
LEMMA MapsRegister ==
    ASSUME Constants, None \notin RelayNodes \cup Sockets, Inv, NEW x, Sessions = {x},
           NEW s \in Sockets, NEW n \in RelayNodes, Register(s, n, x)
    PROVE  V1!Register(s, n)
<1> DEFINE k == <<n, x>>
           e == [socket |-> s, at |-> clock]
<1>1. x \in Sessions /\ x # None /\ k \in Keys /\ k # None
  BY KeyType DEF Constants
<1>2. /\ reg' = [reg EXCEPT ![s] = k] /\ entries' = [entries EXCEPT ![k] = e]
      /\ latest' = [latest EXCEPT ![n] = x] /\ Receives(s)
      /\ wire' = [o \in Sockets |->
            IF o \in Replaced(s, k) /\ wire[o] = "open" THEN "ended" ELSE wire[o]]
  BY DEF Register
<1>3. StateOf[s] = "up" /\ StateOf' = StateOf
  BY <1>2 DEF StateOf, Receives
<1>4. NodeIdOf' = [NodeIdOf EXCEPT ![s] = n]
  BY <1>1, <1>2 DEF NodeIdOf, Inv, TypeOK
<1>5. ASSUME NEW m \in RelayNodes PROVE SocketOf'[m] = IF m = n THEN s ELSE SocketOf[m]
  <2>1. CASE m = n
    <3>1. latest'[n] = x /\ entries'[k].socket = s
      BY <1>1, <1>2 DEF Inv, TypeOK
    <3> QED BY <1>1, <2>1, <3>1 DEF SocketOf
  <2>2. CASE m # n
    <3>1. latest'[m] = latest[m] /\ latest[m] \in Sessions \cup {None}
      BY <1>2, <2>2 DEF Inv, TypeOK
    <3>2. latest[m] # None => entries'[<<m, latest[m]>>] = entries[<<m, latest[m]>>]
      BY <1>1, <1>2, <2>2, <3>1, KeyType DEF Inv, TypeOK
    <3> QED BY <2>2, <3>1, <3>2 DEF SocketOf
  <2> QED BY <2>1, <2>2
<1>6. SocketOf' = [SocketOf EXCEPT ![n] = s]
  BY <1>5 DEF SocketOf
<1> QED BY <1>3, <1>4, <1>6 DEF V1!Register

(* Each step of the second relay is the step of that name, or changes       *)
(* nothing that the first one has.                                          *)
LEMMA MapsStep ==
    ASSUME Constants, None \notin RelayNodes \cup Sockets, Inv, Inv', NEW x, Sessions = {x},
           [Next]_relayVars
    PROVE  [V1!Next]_(V1!v1Vars)
<1> USE DEF Inv
<1>1. ASSUME NEW s \in Sockets, Upgrade(s) PROVE V1!Upgrade(s)
  BY <1>1 DEF Upgrade, TypeOK, V1!Upgrade, SocketOf, NodeIdOf, StateOf
<1>2. ASSUME NEW s \in Sockets, Breaks(s) PROVE V1!Breaks(s)
  BY <1>2 DEF Breaks, Receives, TypeOK, V1!Breaks, SocketOf, NodeIdOf, StateOf
<1>3. ASSUME NEW s \in Sockets, CloseFrame(s) PROVE V1!CloseFrame(s)
  <2>1. V1!CleanedUp(s)
    BY <1>3, MapsCleanedUp DEF CloseFrame
  <2>2. StateOf[s] = "up" /\ StateOf' = StateOf
    BY <1>3 DEF CloseFrame, Receives, TypeOK, StateOf
  <2> QED BY <2>1, <2>2 DEF V1!CloseFrame
<1>4. ASSUME NEW s \in Sockets, CloseEvent(s) PROVE V1!CloseEvent(s)
  <2>1. V1!CleanedUp(s)
    BY <1>4, MapsCleanedUp DEF CloseEvent
  <2>2. StateOf[s] = "dead" /\ StateOf' = [StateOf EXCEPT ![s] = "unused"]
    BY <1>4 DEF CloseEvent, TypeOK, StateOf
  <2> QED BY <2>1, <2>2 DEF V1!CloseEvent
<1>5. ASSUME NEW s \in Sockets, CloseEventCareless(s) PROVE V1!CloseEvent(s)
  <2>1. V1!CleanedUp(s)
    BY <1>5, MapsCleanedUp DEF CloseEventCareless
  <2>2. StateOf[s] = "dead" /\ StateOf' = StateOf
    BY <1>5 DEF CloseEventCareless, TypeOK, StateOf
  <2> QED BY <2>1, <2>2 DEF V1!CloseEvent
<1>6. ASSUME NEW s \in Sockets, NEW n \in RelayNodes, NEW y \in Sessions, Register(s, n, y)
      PROVE  V1!Register(s, n)
  BY <1>6, MapsRegister
<1>7. CASE RelayClock \/ UNCHANGED relayVars
  BY <1>7 DEF RelayClock, relayVars, V1!v1Vars, SocketOf, NodeIdOf, StateOf
<1> QED BY <1>1, <1>2, <1>3, <1>4, <1>5, <1>6, <1>7 DEF Next, V1!Next

(* A relay of the second version whose nodes have one session each does     *)
(* what the first relay did, replaced sockets and late events included.     *)
THEOREM RelayImplementsV1 ==
    ASSUME Constants, None \notin RelayNodes \cup Sockets, NEW x, Sessions = {x}
    PROVE  Spec => V1!Init /\ ImplementsV1
<1>1. Init => V1!Init
  BY MapsInit
<1>2. Inv /\ Inv' /\ [Next]_relayVars => [V1!Next]_(V1!v1Vars)
  BY MapsStep
<1> QED BY <1>1, <1>2, Invariance, PTL DEF Spec, ImplementsV1
=============================================================================
