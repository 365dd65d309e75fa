--------------------------- MODULE RelayCoreProofs ---------------------------
(***************************************************************************)
(* Safety of the relay's routing tables for any set of node ids and        *)
(* sockets.  RouteInv is inductive: the three routing invariants need each *)
(* other, and ClosedForgotten is what Connect needs to start a socket      *)
(* without an id.                                                          *)
(***************************************************************************)
EXTENDS RelayCore, TLAPS

(* disconnect() deletes the socket from socketToNode. *)
ClosedForgotten == \A s \in Sockets : sock[s] = "closed" => socketToNode[s] = NoNode

RouteInv ==
    /\ TypeOK
    /\ RouteIsLatest
    /\ OpenRegistrationRouted
    /\ OpenSocketOwnsItsId
    /\ ClosedForgotten

USE DEF MaxAge

(* Older keeps a capped age within its range. *)
LEMMA OlderType == ASSUME NEW a \in 0..MaxAge PROVE Older(a) \in 0..MaxAge
  BY RelayCoreAssumption DEF Older

(* touch() leaves conns and lastSeen well typed, and under the ownership    *)
(* invariant it does not move any route.                                    *)
LEMMA TouchType ==
  ASSUME TypeOK, NEW s \in Sockets
  PROVE  /\ TouchedConns(s) \in [Nodes -> Sockets \cup {NoSocket}]
         /\ TouchedSeen(s) \in [Nodes -> 0..MaxAge]
  <1>1. \A n \in Nodes : conns[n] \in Sockets \cup {NoSocket} /\ lastSeen[n] \in 0..MaxAge
    BY DEF TypeOK
  <1>2. 0 \in 0..MaxAge
    BY RelayCoreAssumption
  <1> QED BY <1>1, <1>2 DEF TouchedConns, TouchedSeen

LEMMA TouchKeepsRoutes ==
  ASSUME RouteInv, NEW s \in Sockets, sock[s] = "open"
  PROVE  TouchedConns(s) = conns
  <1>1. ASSUME NEW n \in Nodes PROVE TouchedConns(s)[n] = conns[n]
    <2>1. CASE n \in Touched(s)
      <3>1. socketToNode[s] = n /\ conns[n] # NoSocket
        BY <2>1 DEF Touched
      <3>2. latest[n] = s
        BY <3>1, RelayCoreAssumption DEF RouteInv, OpenSocketOwnsItsId
      <3>3. conns[n] = s
        BY <3>1, <3>2 DEF RouteInv, RouteIsLatest
      <3> QED BY <2>1, <3>3 DEF TouchedConns
    <2>2. CASE n \notin Touched(s)
      BY <2>2 DEF TouchedConns
    <2> QED BY <2>1, <2>2
  <1>2. conns = [n \in Nodes |-> conns[n]]
    BY DEF RouteInv, TypeOK
  <1> QED BY <1>1, <1>2 DEF TouchedConns

-----------------------------------------------------------------------------
LEMMA TypeInit == ASSUME Init PROVE TypeOK
  <1>1. 0 \in 0..MaxAge
    BY RelayCoreAssumption
  <1>2. out \subseteq Frames
    BY DEF Init
  <1> QED BY <1>1, <1>2 DEF Init, TypeOK

LEMMA TypeConnect ==
  ASSUME TypeOK, NEW s \in Sockets, Connect(s) PROVE TypeOK'
  <1>1. quiet' \in [Sockets -> 0..MaxAge]
    BY RelayCoreAssumption DEF TypeOK, Connect
  <1>2. out' \subseteq Frames
    BY DEF Connect
  <1> QED BY <1>1, <1>2 DEF TypeOK, Connect

LEMMA TypeAnswer ==
  ASSUME TypeOK, NEW s \in Sockets, Answer(s) PROVE TypeOK'
  <1>1. out' \subseteq Frames
    BY DEF Answer
  <1>2. quiet' \in [Sockets -> 0..MaxAge]
    BY RelayCoreAssumption DEF TypeOK, Answer, Reads
  <1> QED BY <1>1, <1>2, TouchType DEF TypeOK, Answer

(* Destroying sockets and removing entries keep the types. *)
LEMMA DestroyType ==
  ASSUME TypeOK, NEW S PROVE Destroy(S) \in [Sockets -> {"closed", "open", "destroyed"}]
  BY DEF TypeOK, Destroy

LEMMA WithoutType ==
  ASSUME TypeOK, NEW N, Without(N)
  PROVE  conns' \in [Nodes -> Sockets \cup {NoSocket}] /\ lastSeen' \in [Nodes -> 0..MaxAge]
  <1>1. 0 \in 0..MaxAge
    BY RelayCoreAssumption
  <1> QED BY <1>1 DEF TypeOK, Without

LEMMA TypeRegister ==
  ASSUME TypeOK, NEW s \in Sockets, NEW n \in Nodes, Register(s, n) PROVE TypeOK'
  <1>1. sock' \in [Sockets -> {"closed", "open", "destroyed"}]
    BY DestroyType DEF Register
  <1>2. /\ conns' \in [Nodes -> Sockets \cup {NoSocket}]
        /\ lastSeen' \in [Nodes -> 0..MaxAge]
    BY TouchType, RelayCoreAssumption DEF Register
  <1>3. quiet' \in [Sockets -> 0..MaxAge]
    BY RelayCoreAssumption DEF TypeOK, Register, Reads
  <1>4. multi' \in [Sockets -> BOOLEAN]
    BY DEF TypeOK, Register
  <1>5. /\ socketToNode' \in [Sockets -> Nodes \cup {NoNode}]
        /\ latest' \in [Nodes -> Sockets \cup {NoSocket}]
        /\ sweepDue' \in BOOLEAN /\ running' \in BOOLEAN /\ out' \subseteq Frames
    BY DEF TypeOK, Register
  <1> QED BY <1>1, <1>2, <1>3, <1>4, <1>5 DEF TypeOK

LEMMA TypeSend ==
  ASSUME TypeOK, NEW s \in Sockets, NEW n \in Nodes, Send(s, n) PROVE TypeOK'
  <1>1. conns' \in [Nodes -> Sockets \cup {NoSocket}] /\ lastSeen' \in [Nodes -> 0..MaxAge]
    BY TouchType DEF Send
  <1>2. Outcome(s, n) \in Frames
    <2>1. TouchedConns(s)[n] \in Sockets \cup {NoSocket}
      BY TouchType
    <2> QED BY <2>1 DEF Outcome, Frame, Frames
  <1>3. quiet' \in [Sockets -> 0..MaxAge]
    BY RelayCoreAssumption DEF TypeOK, Send, Reads
  <1> QED BY <1>1, <1>2, <1>3 DEF TypeOK, Send

LEMMA TypeDisconnect ==
  ASSUME TypeOK, NEW s \in Sockets, Disconnect(s) PROVE TypeOK'
  <1>1. conns' \in [Nodes -> Sockets \cup {NoSocket}] /\ lastSeen' \in [Nodes -> 0..MaxAge]
    BY WithoutType DEF Disconnect
  <1>2. quiet' \in [Sockets -> 0..MaxAge]
    BY RelayCoreAssumption DEF TypeOK, Disconnect
  <1>3. out' \subseteq Frames
    BY DEF Disconnect
  <1> QED BY <1>1, <1>2, <1>3 DEF TypeOK, Disconnect

LEMMA TypeTick == ASSUME TypeOK, Tick PROVE TypeOK'
  <1>1. \A n \in Nodes : lastSeen[n] \in 0..MaxAge
    BY DEF TypeOK
  <1>2. \A s \in Sockets : quiet[s] \in 0..MaxAge
    BY DEF TypeOK
  <1>3. 0 \in 0..MaxAge
    BY RelayCoreAssumption
  <1>4. lastSeen' \in [Nodes -> 0..MaxAge]
    BY <1>1, <1>3, OlderType DEF Tick
  <1>5. quiet' \in [Sockets -> 0..MaxAge]
    BY <1>2, <1>3, OlderType DEF Tick
  <1>6. out' \subseteq Frames
    BY DEF Tick
  <1> QED BY <1>4, <1>5, <1>6 DEF TypeOK, Tick

LEMMA TypeSweep == ASSUME TypeOK, Sweep PROVE TypeOK'
  <1>1. lastSeen' \in [Nodes -> 0..MaxAge] /\ conns' \in [Nodes -> Sockets \cup {NoSocket}]
    BY WithoutType DEF Sweep
  <1>2. sock' \in [Sockets -> {"closed", "open", "destroyed"}]
    BY DestroyType DEF Sweep
  <1>3. out' \subseteq Frames
    BY DEF Sweep
  <1> QED BY <1>1, <1>2, <1>3 DEF TypeOK, Sweep

LEMMA TypeClose == ASSUME TypeOK, Close PROVE TypeOK'
  <1>1. lastSeen' \in [Nodes -> 0..MaxAge] /\ conns' \in [Nodes -> Sockets \cup {NoSocket}]
    BY WithoutType DEF Close
  <1>2. sock' \in [Sockets -> {"closed", "open", "destroyed"}]
    BY DestroyType DEF Close
  <1>3. out' \subseteq Frames
    BY DEF Close
  <1> QED BY <1>1, <1>2, <1>3 DEF TypeOK, Close

LEMMA TypeStep == ASSUME TypeOK, [Next]_vars PROVE TypeOK'
  <1>1. CASE \E s \in Sockets : SocketStep(s)
    BY <1>1, TypeConnect, TypeAnswer, TypeRegister, TypeSend, TypeDisconnect DEF SocketStep
  <1>2. CASE UNCHANGED vars
    BY <1>2 DEF TypeOK, vars, state
  <1> QED BY <1>1, <1>2, TypeTick, TypeSweep, TypeClose DEF Next

(* The relay's variables keep their types, for all constants. *)
THEOREM TypeCorrect == Spec => []TypeOK
  <1>1. TypeOK /\ [Next]_vars => TypeOK'
    BY TypeStep
  <1> QED BY TypeInit, <1>1, PTL DEF Spec
-----------------------------------------------------------------------------
LEMMA RouteInit == ASSUME Init PROVE RouteInv
  BY TypeInit, RelayCoreAssumption
     DEF Init, RouteInv, RouteIsLatest, OpenRegistrationRouted, OpenSocketOwnsItsId,
         ClosedForgotten

(* A new socket: nothing refers to its identity. *)
LEMMA RouteConnect ==
  ASSUME RouteInv, NEW s \in Sockets, Connect(s) PROVE RouteInv'
  <1>1. TypeOK'
    BY TypeConnect DEF RouteInv
  <1>2. RouteIsLatest'
    BY DEF RouteInv, TypeOK, RouteIsLatest, Connect
  <1>3. OpenRegistrationRouted'
    BY RelayCoreAssumption DEF RouteInv, TypeOK, OpenRegistrationRouted, Connect
  <1>4. OpenSocketOwnsItsId'
    BY RelayCoreAssumption
       DEF RouteInv, TypeOK, OpenSocketOwnsItsId, ClosedForgotten, Connect
  <1>5. ClosedForgotten'
    BY DEF RouteInv, TypeOK, ClosedForgotten, Connect
  <1> QED BY <1>1, <1>2, <1>3, <1>4, <1>5 DEF RouteInv

(* Handlers that only touch the entry of their socket move no route. *)
LEMMA RouteTouch ==
  ASSUME RouteInv, NEW s \in Sockets, sock[s] = "open", TypeOK',
         conns' = TouchedConns(s), UNCHANGED <<sock, socketToNode, latest>>
  PROVE  RouteInv'
  <1>1. conns' = conns
    BY TouchKeepsRoutes
  <1> QED BY <1>1 DEF RouteInv, RouteIsLatest, OpenRegistrationRouted,
                      OpenSocketOwnsItsId, ClosedForgotten

(* The step the replace-old policy is about: the previous socket of n stops *)
(* being open in the same handler that moves the route.                     *)
LEMMA RouteRegister ==
  ASSUME RouteInv, NEW s \in Sockets, NEW n \in Nodes, Register(s, n) PROVE RouteInv'
  <1>1. TypeOK'
    BY TypeRegister DEF RouteInv
  <1>2. sock[s] = "open" /\ TouchedConns(s) = conns
    BY TouchKeepsRoutes DEF Register, Reads
  <1>3. /\ conns' = [conns EXCEPT ![n] = s]
        /\ latest' = [latest EXCEPT ![n] = s]
        /\ socketToNode' = [socketToNode EXCEPT ![s] = n]
    BY <1>2 DEF Register
  <1>4. /\ \A t \in Sockets : sock'[t] = "open" => sock[t] = "open"
        /\ \A t \in Sockets : sock'[t] = "closed" => sock[t] = "closed"
        /\ conns[n] \notin {NoSocket, s} => sock'[conns[n]] # "open"
    BY <1>2 DEF RouteInv, TypeOK, Register, Destroy, Replaced
  <1>5. RouteIsLatest'
    BY <1>3 DEF RouteInv, TypeOK, RouteIsLatest
  <1>6. OpenRegistrationRouted'
    BY <1>3, <1>4, RelayCoreAssumption DEF RouteInv, TypeOK, OpenRegistrationRouted
  <1>7. OpenSocketOwnsItsId'
    <2> SUFFICES ASSUME NEW t \in Sockets, sock'[t] = "open", socketToNode'[t] # NoNode
                 PROVE  latest'[socketToNode'[t]] = t
      BY DEF OpenSocketOwnsItsId
    <2>1. CASE t = s
      BY <2>1, <1>3 DEF RouteInv, TypeOK
    <2>2. CASE t # s
      <3>1. socketToNode'[t] = socketToNode[t] /\ sock[t] = "open"
        BY <2>2, <1>3, <1>4 DEF RouteInv, TypeOK
      <3>2. socketToNode[t] \in Nodes /\ latest[socketToNode[t]] = t
        BY <3>1 DEF RouteInv, TypeOK, OpenSocketOwnsItsId
      <3>3. conns[socketToNode[t]] = t
        BY <3>1, <3>2, RelayCoreAssumption DEF RouteInv, OpenRegistrationRouted
      <3>4. socketToNode[t] # n
        BY <3>3, <2>2, <1>4, RelayCoreAssumption
      <3> QED BY <3>1, <3>2, <3>4, <1>3 DEF RouteInv, TypeOK
    <2> QED BY <2>1, <2>2
  <1>8. ClosedForgotten'
    BY <1>2, <1>3, <1>4 DEF RouteInv, TypeOK, ClosedForgotten, Register
  <1> QED BY <1>1, <1>5, <1>6, <1>7, <1>8 DEF RouteInv

LEMMA RouteDisconnect ==
  ASSUME RouteInv, NEW s \in Sockets, Disconnect(s) PROVE RouteInv'
  <1>1. TypeOK'
    BY TypeDisconnect DEF RouteInv
  <1>2. RouteIsLatest'
    BY DEF RouteInv, RouteIsLatest, Disconnect, Without
  <1>3. OpenRegistrationRouted'
    BY RelayCoreAssumption DEF RouteInv, TypeOK, OpenRegistrationRouted, Disconnect,
                               Without, Released
  <1>4. OpenSocketOwnsItsId'
    BY DEF RouteInv, TypeOK, OpenSocketOwnsItsId, Disconnect
  <1>5. ClosedForgotten'
    BY DEF RouteInv, TypeOK, ClosedForgotten, Disconnect
  <1> QED BY <1>1, <1>2, <1>3, <1>4, <1>5 DEF RouteInv

(* Sweep and Close remove routes and destroy exactly the open sockets they  *)
(* were to.                                                                 *)
LEMMA RouteRemoved ==
  ASSUME RouteInv, TypeOK', UNCHANGED latest,
         NEW Gone \in SUBSET Nodes,
         \A n \in Nodes : conns'[n] = IF n \in Gone THEN NoSocket ELSE conns[n],
         \A s \in Sockets : sock'[s] = IF sock[s] = "open" /\ \E n \in Gone : conns[n] = s
                                       THEN "destroyed" ELSE sock[s],
         \A s \in Sockets : socketToNode'[s] \in {socketToNode[s], NoNode}
  PROVE  RouteInv'
  <1>1. RouteIsLatest'
    BY DEF RouteInv, RouteIsLatest
  <1>2. OpenRegistrationRouted'
    BY RelayCoreAssumption DEF RouteInv, TypeOK, OpenRegistrationRouted
  <1>3. OpenSocketOwnsItsId'
    BY DEF RouteInv, OpenSocketOwnsItsId
  <1>4. ClosedForgotten'
    BY DEF RouteInv, ClosedForgotten
  <1> QED BY <1>1, <1>2, <1>3, <1>4 DEF RouteInv

LEMMA RouteSweep == ASSUME RouteInv, Sweep PROVE RouteInv'
  <1> DEFINE Gone == {n \in Nodes : Idle(n)}
  <1>1. TypeOK'
    BY TypeSweep DEF RouteInv
  <1>2. /\ UNCHANGED <<latest, socketToNode>>
        /\ \A n \in Nodes : conns'[n] = IF n \in Gone THEN NoSocket ELSE conns[n]
        /\ \A s \in Sockets : sock'[s] = IF sock[s] = "open" /\ \E n \in Gone : conns[n] = s
                                         THEN "destroyed" ELSE sock[s]
    BY DEF Sweep, Without, Destroy
  <1> HIDE DEF Gone
  <1>3. Gone \in SUBSET Nodes
    BY DEF Gone
  <1> QED BY <1>1, <1>2, <1>3, RouteRemoved

LEMMA RouteClose == ASSUME RouteInv, Close PROVE RouteInv'
  <1>1. TypeOK'
    BY TypeClose DEF RouteInv
  <1>2. /\ UNCHANGED latest
        /\ \A n \in Nodes : conns'[n] = IF n \in Nodes THEN NoSocket ELSE conns[n]
        /\ \A s \in Sockets : sock'[s] = IF sock[s] = "open" /\ \E n \in Nodes : conns[n] = s
                                         THEN "destroyed" ELSE sock[s]
        /\ \A s \in Sockets : socketToNode'[s] \in {socketToNode[s], NoNode}
    BY DEF Close, Without, Destroy
  <1> QED BY <1>1, <1>2, RouteRemoved

LEMMA RouteStep == ASSUME RouteInv, [Next]_vars PROVE RouteInv'
  <1>1. ASSUME NEW s \in Sockets, Answer(s) PROVE RouteInv'
    BY <1>1, TypeAnswer, RouteTouch DEF Answer, Reads, RouteInv
  <1>2. ASSUME NEW s \in Sockets, NEW n \in Nodes, Send(s, n) PROVE RouteInv'
    BY <1>2, TypeSend, RouteTouch DEF Send, Reads, RouteInv
  <1>3. CASE UNCHANGED vars
    BY <1>3, TypeStep DEF vars, state, RouteInv, RouteIsLatest, OpenRegistrationRouted,
                OpenSocketOwnsItsId, ClosedForgotten
  <1>4. ASSUME Tick PROVE RouteInv'
    BY <1>4, TypeTick DEF Tick, RouteInv, RouteIsLatest, OpenRegistrationRouted,
                OpenSocketOwnsItsId, ClosedForgotten
  <1>5. CASE \E s \in Sockets : SocketStep(s)
    BY <1>5, <1>1, <1>2, RouteConnect, RouteRegister, RouteDisconnect DEF SocketStep
  <1> QED BY <1>3, <1>4, <1>5, RouteSweep, RouteClose DEF Next

(* A superseded socket never gets the route of an id back.                  *)
THEOREM RoutesAreLatest == Spec => []RouteIsLatest
  <1>1. RouteInv => RouteIsLatest
    BY DEF RouteInv
  <1>2. RouteInv /\ [Next]_vars => RouteInv'
    BY RouteStep
  <1> QED BY RouteInit, <1>1, <1>2, PTL DEF Spec

(* The newest registration of an id is routed for as long as its socket is  *)
(* open, and an open socket owns the id it registered last.                 *)
THEOREM OpenRegistrationsRouted == Spec => [](OpenRegistrationRouted /\ OpenSocketOwnsItsId)
  <1>1. RouteInv => OpenRegistrationRouted /\ OpenSocketOwnsItsId
    BY DEF RouteInv
  <1>2. RouteInv /\ [Next]_vars => RouteInv'
    BY RouteStep
  <1> QED BY RouteInit, <1>1, <1>2, PTL DEF Spec

(* NO_TARGET is the truth: the newest registration of the target is gone.   *)
THEOREM NoTargetNeverLies == Spec => []NoTargetIsTrue
  <1>1. Init => NoTargetIsTrue
    BY DEF Init, NoTargetIsTrue
  <1>2. ASSUME RouteInv, NoTargetIsTrue, [Next]_vars PROVE NoTargetIsTrue'
    <2>1. ASSUME NEW s \in Sockets, NEW n \in Nodes, Send(s, n) PROVE NoTargetIsTrue'
      <3>1. OpenRegistrationRouted'
        BY <1>2, <2>1, TypeSend, RouteTouch DEF Send, Reads, RouteInv
      <3>2. out' = {Outcome(s, n)} /\ conns' = TouchedConns(s)
        BY <2>1 DEF Send
      <3>3. CASE conns'[n] = NoSocket
        <4>1. out' = {Frame(s, "NO_TARGET", n)}
          BY <3>2, <3>3 DEF Outcome
        <4>2. latest'[n] = NoSocket \/ sock'[latest'[n]] # "open"
          BY <3>1, <3>3 DEF OpenRegistrationRouted
        <4> QED BY <4>1, <4>2 DEF NoTargetIsTrue, Frame
      <3>4. CASE conns'[n] # NoSocket
        BY <3>2, <3>4 DEF Outcome, NoTargetIsTrue, Frame
      <3> QED BY <3>3, <3>4
    <2>2. CASE UNCHANGED vars
      BY <1>2, <2>2 DEF vars, state, NoTargetIsTrue
    <2>3. ASSUME NEW s \in Sockets,
                 Connect(s) \/ Answer(s) \/ (\E n \in Nodes : Register(s, n)) \/ Disconnect(s)
          PROVE  NoTargetIsTrue'
      BY <2>3 DEF Connect, Answer, Register, Disconnect, NoTargetIsTrue, Frame
    <2>4. CASE Tick \/ Sweep \/ Close
      BY <2>4 DEF Tick, Sweep, Close, NoTargetIsTrue, Frame
    <2> QED BY <1>2, <2>1, <2>2, <2>3, <2>4 DEF Next, SocketStep
  <1>3. RouteInv /\ [Next]_vars => RouteInv'
    BY RouteStep
  <1> QED BY RouteInit, <1>1, <1>2, <1>3, PTL DEF Spec
-----------------------------------------------------------------------------
(* Forwarding to a dead socket is bounded by the close event, for clients   *)
(* that register one id per socket.                                         *)
THEOREM SingleIdNeverDangles == Spec => []NoDanglingRoute
  <1> DEFINE Inv == RouteInv /\ NoDanglingRoute
  <1>1. ASSUME Init PROVE Inv
    BY <1>1, RouteInit, RelayCoreAssumption DEF Init, NoDanglingRoute
  <1>2. ASSUME Inv, [Next]_vars PROVE Inv'
    <2>1. ASSUME NEW s \in Sockets, Connect(s) PROVE NoDanglingRoute'
      BY <1>2, <2>1 DEF Connect, NoDanglingRoute, RouteInv, TypeOK
    <2>2. ASSUME NEW s \in Sockets, conns' = TouchedConns(s), sock[s] = "open",
                 UNCHANGED <<sock, socketToNode, multi>>
          PROVE  NoDanglingRoute'
      BY <1>2, <2>2, TouchKeepsRoutes DEF NoDanglingRoute
    <2>3. ASSUME NEW s \in Sockets, NEW n \in Nodes, Register(s, n) PROVE NoDanglingRoute'
      <3>1. sock[s] = "open" /\ TouchedConns(s) = conns
        BY <1>2, <2>3, TouchKeepsRoutes DEF Register, Reads
      <3>2. /\ conns' = [conns EXCEPT ![n] = s]
            /\ socketToNode' = [socketToNode EXCEPT ![s] = n]
            /\ multi' = [multi EXCEPT ![s] = @ \/ socketToNode[s] \notin {NoNode, n}]
        BY <2>3, <3>1 DEF Register
      <3>3. /\ sock'[s] = "open"
            /\ \A t \in Sockets : sock'[t] = "closed" => sock[t] = "closed"
        BY <1>2, <2>3, <3>1 DEF RouteInv, TypeOK, Register, Destroy, Replaced
      <3> SUFFICES ASSUME NEW m \in Nodes, conns'[m] # NoSocket, ~multi'[conns'[m]]
                   PROVE  sock'[conns'[m]] # "closed" /\ socketToNode'[conns'[m]] = m
        BY DEF NoDanglingRoute
      <3>4. CASE m = n
        BY <1>2, <3>2, <3>3, <3>4 DEF RouteInv, TypeOK
      <3>5. CASE m # n /\ conns[m] = s
        <4>1. ~multi[s] /\ socketToNode[s] \in {NoNode, n}
          BY <1>2, <3>2, <3>5 DEF RouteInv, TypeOK
        <4>2. socketToNode[s] = m
          BY <1>2, <3>2, <3>5, <4>1 DEF RouteInv, TypeOK, NoDanglingRoute
        <4> QED BY <3>5, <4>1, <4>2, RelayCoreAssumption
      <3>6. CASE m # n /\ conns[m] # s
        <4>1. conns'[m] = conns[m] /\ conns[m] \in Sockets
          BY <1>2, <3>2, <3>6 DEF RouteInv, TypeOK
        <4>2. ~multi[conns[m]]
          BY <1>2, <3>2, <3>6, <4>1 DEF RouteInv, TypeOK
        <4>3. sock[conns[m]] # "closed" /\ socketToNode[conns[m]] = m
          BY <1>2, <4>1, <4>2 DEF NoDanglingRoute
        <4> QED BY <1>2, <3>2, <3>3, <3>6, <4>1, <4>3 DEF RouteInv, TypeOK
      <3> QED BY <3>4, <3>5, <3>6
    <2>4. ASSUME NEW s \in Sockets, Disconnect(s) PROVE NoDanglingRoute'
      BY <1>2, <2>4 DEF Disconnect, Without, Released, NoDanglingRoute, RouteInv, TypeOK
    <2>5. ASSUME Tick PROVE NoDanglingRoute'
      BY <1>2, <2>5 DEF Tick, NoDanglingRoute
    <2>6. ASSUME Sweep PROVE NoDanglingRoute'
      BY <1>2, <2>6 DEF Sweep, Without, Destroy, NoDanglingRoute, RouteInv, TypeOK
    <2>7. ASSUME Close PROVE NoDanglingRoute'
      BY <2>7 DEF Close, Without, NoDanglingRoute
    <2>8. ASSUME UNCHANGED vars PROVE NoDanglingRoute'
      BY <1>2, <2>8 DEF vars, state, NoDanglingRoute
    <2>9. NoDanglingRoute'
      BY <1>2, <2>1, <2>2, <2>3, <2>4, <2>5, <2>6, <2>7, <2>8
         DEF Next, SocketStep, Answer, Send, Reads
    <2> QED BY <1>2, <2>9, RouteStep
  <1>3. Inv => NoDanglingRoute
    OBVIOUS
  <1> HIDE DEF Inv
  <1> QED BY <1>1, <1>2, <1>3, PTL DEF Spec

-----------------------------------------------------------------------------
(* An entry is at least as fresh as the silence of its socket: every frame  *)
(* that ends the silence renews the one entry of a socket with one id.      *)
SeenSinceQuiet ==
    \A n \in Nodes :
        conns[n] # NoSocket /\ sock[conns[n]] = "open" /\ ~multi[conns[n]]
        => lastSeen[n] <= quiet[conns[n]]

(* Older keeps the order of two capped ages.                                *)
LEMMA OlderMonotone ==
  ASSUME NEW a \in 0..MaxAge, NEW b \in 0..MaxAge, a <= b
  PROVE  Older(a) <= Older(b)
  BY RelayCoreAssumption DEF Older

(* A frame on s resets the entry of s and no other.                         *)
LEMMA SeenFrame ==
  ASSUME RouteInv, NoDanglingRoute, SeenSinceQuiet, NEW s \in Sockets, Reads(s),
         UNCHANGED <<sock, multi>>, conns' = TouchedConns(s), lastSeen' = TouchedSeen(s)
  PROVE  SeenSinceQuiet'
  <1> SUFFICES ASSUME NEW n \in Nodes, conns'[n] # NoSocket, sock'[conns'[n]] = "open",
                      ~multi'[conns'[n]]
               PROVE  lastSeen'[n] <= quiet'[conns'[n]]
    BY DEF SeenSinceQuiet
  <1>1. /\ conns' = conns /\ conns[n] \in Sockets
        /\ quiet' = [quiet EXCEPT ![s] = 0]
        /\ lastSeen'[n] = IF n \in Touched(s) THEN 0 ELSE lastSeen[n]
    BY TouchKeepsRoutes DEF Reads, TouchedSeen, RouteInv, TypeOK
  <1>2. quiet'[conns[n]] \in 0..MaxAge /\ lastSeen[n] <= quiet[conns[n]]
    BY <1>1, RelayCoreAssumption DEF SeenSinceQuiet, RouteInv, TypeOK
  <1>3. CASE conns[n] = s
    BY <1>1, <1>2, <1>3 DEF NoDanglingRoute, Touched
  <1>4. CASE conns[n] # s
    <2>1. n \notin Touched(s)
      BY <1>1, <1>4, RelayCoreAssumption
         DEF RouteInv, RouteIsLatest, OpenSocketOwnsItsId, Touched, Reads
    <2> QED BY <1>1, <1>2, <1>4, <2>1 DEF RouteInv, TypeOK
  <1> QED BY <1>3, <1>4

LEMMA SeenRegister ==
  ASSUME RouteInv, NoDanglingRoute, SeenSinceQuiet,
         NEW s \in Sockets, NEW n \in Nodes, Register(s, n)
  PROVE  SeenSinceQuiet'
  <1> SUFFICES ASSUME NEW m \in Nodes, conns'[m] # NoSocket, sock'[conns'[m]] = "open",
                      ~multi'[conns'[m]]
               PROVE  lastSeen'[m] <= quiet'[conns'[m]]
    BY DEF SeenSinceQuiet
  <1>1. sock[s] = "open" /\ TouchedConns(s) = conns
    BY TouchKeepsRoutes DEF Register, Reads
  <1>2. /\ conns' = [conns EXCEPT ![n] = s]
        /\ quiet' = [quiet EXCEPT ![s] = 0]
        /\ multi' = [multi EXCEPT ![s] = @ \/ socketToNode[s] \notin {NoNode, n}]
        /\ lastSeen' = [TouchedSeen(s) EXCEPT ![n] = 0]
        /\ sock' = Destroy(Replaced(s, n))
    BY <1>1 DEF Register, Reads
  <1>3. TouchedSeen(s) \in [Nodes -> 0..MaxAge]
    BY TouchType DEF RouteInv
  <1>4. CASE m = n
    BY <1>2, <1>3, <1>4 DEF RouteInv, TypeOK
  <1>5. CASE m # n /\ conns[m] = s
    <2>1. ~multi[s] /\ socketToNode[s] \in {NoNode, n}
      BY <1>2, <1>5 DEF RouteInv, TypeOK
    <2>2. socketToNode[s] = m
      BY <1>1, <1>5, <2>1, RelayCoreAssumption DEF NoDanglingRoute, RouteInv, TypeOK
    <2> QED BY <1>5, <2>1, <2>2, RelayCoreAssumption
  <1>6. CASE m # n /\ conns[m] # s
    <2>1. conns'[m] = conns[m] /\ conns[m] \in Sockets
      BY <1>2, <1>6 DEF RouteInv, TypeOK
    <2>2. sock[conns[m]] = "open" /\ ~multi[conns[m]]
      BY <1>2, <1>6, <2>1 DEF RouteInv, TypeOK, Destroy
    <2>3. lastSeen[m] <= quiet[conns[m]] /\ quiet'[conns[m]] = quiet[conns[m]]
      BY <1>2, <1>6, <2>1, <2>2 DEF RouteInv, TypeOK, SeenSinceQuiet
    <2>4. m \notin Touched(s)
      BY <1>1, <1>6, <2>1, RelayCoreAssumption
         DEF RouteInv, RouteIsLatest, OpenSocketOwnsItsId, Touched
    <2>5. lastSeen'[m] = lastSeen[m]
      BY <1>2, <1>3, <1>6, <2>4 DEF TouchedSeen
    <2> QED BY <2>1, <2>3, <2>5
  <1> QED BY <1>4, <1>5, <1>6

LEMMA SeenTick == ASSUME RouteInv, SeenSinceQuiet, Tick PROVE SeenSinceQuiet'
  <1> SUFFICES ASSUME NEW n \in Nodes, conns[n] # NoSocket, sock[conns[n]] = "open",
                      ~multi[conns[n]]
               PROVE  lastSeen'[n] <= quiet'[conns[n]]
    BY DEF SeenSinceQuiet, Tick
  <1>1. conns[n] \in Sockets /\ lastSeen[n] <= quiet[conns[n]]
    BY DEF RouteInv, TypeOK, SeenSinceQuiet
  <1>2. lastSeen[n] \in 0..MaxAge /\ quiet[conns[n]] \in 0..MaxAge
    BY <1>1 DEF RouteInv, TypeOK
  <1>3. lastSeen'[n] = Older(lastSeen[n]) /\ quiet'[conns[n]] = Older(quiet[conns[n]])
    BY <1>1 DEF Tick
  <1> QED BY <1>1, <1>2, <1>3, OlderMonotone

LEMMA SeenStep ==
  ASSUME RouteInv, NoDanglingRoute, SeenSinceQuiet, [Next]_vars
  PROVE  SeenSinceQuiet'
  <1>1. ASSUME NEW s \in Sockets, Connect(s) PROVE SeenSinceQuiet'
    BY <1>1 DEF Connect, SeenSinceQuiet, RouteInv, TypeOK
  <1>2. ASSUME NEW s \in Sockets, Answer(s) \/ \E n \in Nodes : Send(s, n)
        PROVE  SeenSinceQuiet'
    BY <1>2, SeenFrame DEF Answer, Send
  <1>3. ASSUME NEW s \in Sockets, Disconnect(s) PROVE SeenSinceQuiet'
    BY <1>3 DEF Disconnect, Without, SeenSinceQuiet, RouteInv, TypeOK
  <1>4. ASSUME Sweep PROVE SeenSinceQuiet'
    <2>1. PICK N \in SUBSET Nodes : Without(N)
      BY <1>4 DEF Sweep
    <2>2. /\ UNCHANGED <<quiet, multi>>
          /\ \A s \in Sockets : sock'[s] = "open" => sock[s] = "open"
      BY <1>4 DEF Sweep, Destroy
    <2> QED BY <2>1, <2>2 DEF Without, SeenSinceQuiet, RouteInv, TypeOK
  <1>5. ASSUME Close PROVE SeenSinceQuiet'
    BY <1>5 DEF Close, Without, SeenSinceQuiet
  <1>6. CASE UNCHANGED vars
    BY <1>6 DEF vars, state, SeenSinceQuiet
  <1> QED BY <1>1, <1>2, <1>3, <1>4, <1>5, <1>6, SeenRegister, SeenTick DEF Next, SocketStep

(* The sweep destroys no socket with a single id that sent a frame within   *)
(* the idle timeout: the entry it would find idle is as fresh as the socket.*)
THEOREM ActiveSocketsSpared == Spec => SweepSparesActive
  <1> DEFINE Spared == \A s \in Sockets :
                         Sweep /\ sock[s] = "open" /\ ~multi[s] /\ quiet[s] <= IdleTimeout
                         => sock'[s] = "open"
  <1>1. Spec => []RouteInv
    <2>1. RouteInv /\ [Next]_vars => RouteInv'
      BY RouteStep
    <2> QED BY RouteInit, <2>1, PTL DEF Spec
  <1>2. Init => SeenSinceQuiet
    BY RelayCoreAssumption DEF Init, SeenSinceQuiet
  <1>3. RouteInv /\ NoDanglingRoute /\ SeenSinceQuiet /\ [Next]_vars => SeenSinceQuiet'
    BY SeenStep
  <1>4. RouteInv /\ SeenSinceQuiet => [Spared]_vars
    <2> SUFFICES ASSUME RouteInv, SeenSinceQuiet, NEW s \in Sockets, Sweep,
                        sock[s] = "open", ~multi[s], quiet[s] <= IdleTimeout
                 PROVE  sock'[s] = "open"
      OBVIOUS
    <2>1. ASSUME NEW n \in Nodes, Idle(n) PROVE conns[n] # s
      BY <2>1, RelayCoreAssumption DEF Idle, SeenSinceQuiet, RouteInv, TypeOK
    <2> QED BY <2>1 DEF Sweep, Destroy
  <1> HIDE DEF Spared
  <1>5. Spec => [][Spared]_vars
    BY <1>1, <1>2, <1>3, <1>4, SingleIdNeverDangles, PTL DEF Spec
  <1> QED BY <1>5 DEF SweepSparesActive, Spared
-----------------------------------------------------------------------------
(* A route to a socket that is gone only ages until it goes: it is removed, *)
(* replaced by a new registration of its id, or stays as it is and is no    *)
(* younger than before, and older by one after every interval.              *)
DeadRoutesAge ==
    [][\A n \in Nodes : DeadRoute(n) =>
         \/ conns'[n] = NoSocket
         \/ latest'[n] # latest[n] /\ conns'[n] = latest'[n] /\ sock'[conns'[n]] = "open"
         \/ /\ DeadRoute(n)' /\ conns'[n] = conns[n] /\ lastSeen'[n] >= lastSeen[n]
            /\ Tick => lastSeen'[n] = Older(lastSeen[n])]_vars

(* A frame touches the entry of an open socket, never that of a dead one.   *)
LEMMA DeadUntouched ==
  ASSUME RouteInv, NEW s \in Sockets, Reads(s), NEW n \in Nodes, DeadRoute(n)
  PROVE  TouchedConns(s)[n] = conns[n] /\ TouchedSeen(s)[n] = lastSeen[n]
  <1>1. TouchedConns(s) = conns
    BY TouchKeepsRoutes DEF Reads
  <1>2. n \notin Touched(s)
    <2> SUFFICES ASSUME n \in Touched(s) PROVE FALSE
      OBVIOUS
    <2>1. conns[n] = s
      BY <1>1 DEF TouchedConns
    <2> QED BY <2>1 DEF DeadRoute, Reads
  <1> QED BY <1>1, <1>2 DEF TouchedSeen

LEMMA OlderGrows == ASSUME NEW a \in 0..MaxAge PROVE Older(a) >= a
  BY RelayCoreAssumption DEF Older

(* The safety half of DeadRouteRemoved: whatever ids clients register on    *)
(* whatever sockets, no frame renews a dead route, so it is idle once the   *)
(* timeout has passed.                                                      *)
THEOREM DeadRoutesOnlyAge == Spec => DeadRoutesAge
  <1> DEFINE Ages(n) ==
         \/ conns'[n] = NoSocket
         \/ latest'[n] # latest[n] /\ conns'[n] = latest'[n] /\ sock'[conns'[n]] = "open"
         \/ /\ DeadRoute(n)' /\ conns'[n] = conns[n] /\ lastSeen'[n] >= lastSeen[n]
            /\ Tick => lastSeen'[n] = Older(lastSeen[n])
  <1>1. Spec => []RouteInv
    <2>1. RouteInv /\ [Next]_vars => RouteInv'
      BY RouteStep
    <2> QED BY RouteInit, <2>1, PTL DEF Spec
  <1>2. ASSUME RouteInv, Next, NEW n \in Nodes, DeadRoute(n) PROVE Ages(n)
    <2>1. /\ conns[n] \in Sockets /\ sock[conns[n]] = "closed" /\ conns[n] # NoSocket
          /\ lastSeen[n] \in 0..MaxAge /\ lastSeen[n] \in Int
      BY <1>2, RelayCoreAssumption DEF RouteInv, TypeOK, DeadRoute
    <2>2. ASSUME NEW s \in Sockets, Connect(s) PROVE Ages(n)
      <3>1. s # conns[n]
        BY <2>2 DEF Connect
      <3> QED BY <1>2, <2>1, <2>2, <3>1 DEF Connect, DeadRoute, RouteInv, TypeOK, Tick
    <2>3. ASSUME NEW s \in Sockets, Answer(s) \/ \E m \in Nodes : Send(s, m) PROVE Ages(n)
      <3>1. /\ Reads(s) /\ UNCHANGED <<sock, sweepDue>>
            /\ conns' = TouchedConns(s) /\ lastSeen' = TouchedSeen(s)
        BY <2>3 DEF Answer, Send
      <3> QED BY <1>2, <2>1, <3>1, DeadUntouched DEF DeadRoute, Tick
    <2>4. ASSUME NEW s \in Sockets, NEW m \in Nodes, Register(s, m) PROVE Ages(n)
      <3>1. /\ Reads(s) /\ UNCHANGED sweepDue
            /\ TouchedConns(s) \in [Nodes -> Sockets \cup {NoSocket}]
            /\ TouchedSeen(s) \in [Nodes -> 0..MaxAge]
        BY <1>2, <2>4, TouchType DEF Register, RouteInv
      <3>2. CASE m = n
        <4>1. conns'[n] = s /\ latest'[n] = s
          BY <1>2, <2>4, <3>1, <3>2 DEF Register, RouteInv, TypeOK
        <4>2. sock'[s] = "open"
          BY <1>2, <2>4, <3>1 DEF Register, Destroy, Replaced, Reads, RouteInv, TypeOK
        <4>3. latest[n] # s
          BY <1>2, <2>1, <3>1 DEF RouteInv, RouteIsLatest, Reads
        <4> QED BY <4>1, <4>2, <4>3
      <3>3. CASE m # n
        <4>1. conns'[n] = conns[n] /\ lastSeen'[n] = lastSeen[n]
          BY <1>2, <2>4, <3>1, <3>3, DeadUntouched DEF Register
        <4>2. sock'[conns[n]] = "closed"
          BY <2>1, <2>4 DEF Register, Destroy
        <4> QED BY <2>1, <3>1, <4>1, <4>2 DEF DeadRoute, Tick
      <3> QED BY <3>2, <3>3
    <2>5. ASSUME NEW s \in Sockets, Disconnect(s) PROVE Ages(n)
      <3>1. s # conns[n] /\ sock' = [sock EXCEPT ![s] = "closed"] /\ UNCHANGED sweepDue
        BY <2>1, <2>5 DEF Disconnect
      <3>2. n \notin Released(s)
        BY <3>1 DEF Released
      <3> QED BY <1>2, <2>1, <2>5, <3>1, <3>2 DEF Disconnect, Without, DeadRoute, RouteInv, TypeOK, Tick
    <2>6. CASE Tick
      <3>1. lastSeen'[n] = Older(lastSeen[n]) /\ UNCHANGED <<sock, conns>>
        BY <2>1, <2>6 DEF Tick
      <3> QED BY <1>2, <2>1, <3>1, OlderGrows DEF DeadRoute
    <2>7. CASE Sweep \/ Close
      <3>1. PICK N \in SUBSET Nodes : Without(N)
        BY <2>7 DEF Sweep, Close
      <3>2. sock'[conns[n]] = "closed" /\ ~Tick
        BY <2>1, <2>7 DEF Sweep, Close, Destroy, Tick
      <3> QED BY <2>1, <3>1, <3>2 DEF Without, DeadRoute
    <2> QED BY <1>2, <2>2, <2>3, <2>4, <2>5, <2>6, <2>7 DEF Next, SocketStep
  <1>3. RouteInv => [\A n \in Nodes : DeadRoute(n) => Ages(n)]_vars \/ ~[Next]_vars
    BY <1>2
  <1> HIDE DEF Ages
  <1>4. Spec => [][\A n \in Nodes : DeadRoute(n) => Ages(n)]_vars
    BY <1>1, <1>3, PTL DEF Spec
  <1> QED BY <1>4 DEF DeadRoutesAge, Ages
=============================================================================
