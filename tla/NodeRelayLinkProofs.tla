------------------------- MODULE NodeRelayLinkProofs -------------------------
(***************************************************************************)
(* Proofs about NodeRelayLink, for any sockets, candidates and number of   *)
(* attempts.  LinkSound is not inductive: that a new socket finds no other *)
(* one needs to know where a live socket can be.  Inv adds that it is the  *)
(* one the process-wide variable names, so the guard sees it once it is    *)
(* open, and that one in its handshake is awaited by the round, so no      *)
(* second attempt starts before its handshake has ended.                   *)
(***************************************************************************)
EXTENDS NodeRelayLink, TLAPS

(* A live socket is the one in globalThis. *)
LiveIsGlobal == \A s \in Sockets : Live(s) => global = s

(* A handshake in progress is what the round waits for, and the state says  *)
(* so until close() overwrites it.                                          *)
HandshakeAwaited ==
    \A s \in Sockets : sock[s] = "connecting" =>
        Awaited(s) /\ (conn = "CONNECTING" \/ stopping)

Inv == TypeOK /\ LiveIsGlobal /\ HandshakeAwaited /\ ConnectedHasSocket

Rounds == [pc : {"idle", "sleep", "await"}, start : Candidates,
           offset : 0..(Relays - 1), attempt : 1..MaxAttempts,
           ws : Sockets \cup {NoSocket}]

-----------------------------------------------------------------------------
(* The candidates are taken in a cycle: a start and an offset name one.     *)
LEMMA CandidateType ==
    ASSUME NEW start \in Candidates, NEW offset \in 0..(Relays - 1)
    PROVE  Candidate(start, offset) \in Candidates
<1> DEFINE a == start - 1 + offset
<1>1. a \in Nat /\ Relays \in Nat /\ Relays > 0
  BY NodeRelayLinkAssumption DEF Candidates
<1>2. a % Relays \in 0..(Relays - 1)
  BY <1>1
<1> QED BY <1>1, <1>2 DEF Candidate, Candidates

(* A round starts from a candidate, and its steps stay rounds. *)
LEMMA AtType ==
    ASSUME NEW pc \in {"idle", "sleep", "await"}, NEW start \in Candidates,
           NEW offset \in 0..(Relays - 1), NEW attempt \in 1..MaxAttempts,
           NEW ws \in Sockets \cup {NoSocket}
    PROVE  At(pc, start, offset, attempt, ws) \in Rounds
  BY DEF At, Rounds

LEMMA IdleType == Idle \in Rounds /\ Idle.pc = "idle"
<1>1. 1 \in Candidates /\ 0 \in 0..(Relays - 1) /\ 1 \in 1..MaxAttempts
  BY NodeRelayLinkAssumption DEF Candidates
<1>2. Idle \in Rounds
  BY <1>1, AtType DEF Idle
<1> QED BY <1>2 DEF Idle, At

(* No socket is live when a new one may be made: the guards of connectOnce  *)
(* and of its loop see every one that is left.                              *)
LEMMA NoneLive ==
    ASSUME Inv, loop.pc # "await", ~stopping, conn = "DISCONNECTED", ~GlobalBusy
    PROVE  \A s \in Sockets : sock[s] = "closed"
<1> SUFFICES ASSUME NEW s \in Sockets, sock[s] # "closed" PROVE FALSE
  OBVIOUS
<1>1. sock[s] \in {"connecting", "open", "closing"}
  BY DEF Inv, TypeOK
<1>2. global = s
  BY <1>1 DEF Inv, LiveIsGlobal, Live
<1>3. sock[s] # "connecting"
  BY DEF Inv, HandshakeAwaited, Awaited
<1> QED BY <1>1, <1>2, <1>3, NodeRelayLinkAssumption DEF GlobalBusy

-----------------------------------------------------------------------------
LEMMA InitInv == Init => Inv
<1> SUFFICES ASSUME Init PROVE Inv
  OBVIOUS
<1>1. 1 \in Candidates /\ 0 \in 0..Relays
  BY NodeRelayLinkAssumption DEF Candidates
<1>2. TypeOK
  BY <1>1, IdleType DEF Init, TypeOK, Rounds, States
<1> QED BY <1>2 DEF Init, Inv, LiveIsGlobal, Live, HandshakeAwaited, ConnectedHasSocket

(* A pass of the loop of ensureConnected, from the timer or after a sleep.  *)
LEMMA AttemptInv ==
    ASSUME Inv, NEW l \in Rounds, loop.pc # "await", Attempt(l),
           UNCHANGED <<stopping, up>>, retry' \in BOOLEAN, lost' \in BOOLEAN
    PROVE  Inv'
<1> USE DEF Inv, link
<1> DEFINE r == Candidate(l.start, l.offset)
<1>0. [l EXCEPT !.pc = "sleep"] \in Rounds /\ [l EXCEPT !.pc = "sleep"].pc = "sleep"
  BY DEF Rounds
<1>1. CASE EndRound(conn) /\ UNCHANGED <<sock, url, registered, timeouts, active, global, relay, ready>>
  <2>1. TypeOK'
    BY <1>1, IdleType DEF TypeOK, EndRound, Rounds, States
  <2>2. HandshakeAwaited'
    BY <1>1 DEF HandshakeAwaited, Awaited
  <2> QED BY <1>1, <2>1, <2>2 DEF EndRound, LiveIsGlobal, Live, ConnectedHasSocket
<1>2. CASE Stay([l EXCEPT !.pc = "sleep"]) /\ UNCHANGED <<sock, url, registered, timeouts, link>>
  <2>1. TypeOK'
    BY <1>0, <1>2 DEF TypeOK, Stay, Rounds
  <2>2. HandshakeAwaited'
    BY <1>2 DEF HandshakeAwaited, Awaited
  <2> QED BY <1>2, <2>1, <2>2 DEF Stay, LiveIsGlobal, Live, ConnectedHasSocket
<1>3. CASE ~Stops /\ conn = "DISCONNECTED" /\ ~GlobalBusy /\ Create(l, r)
  <2>1. \A s \in Sockets : sock[s] = "closed"
    BY <1>3, NoneLive DEF Stops
  <2>2. PICK s \in Sockets \ {active, global} :
          /\ sock' = [sock EXCEPT ![s] = "connecting"]
          /\ url' = [url EXCEPT ![s] = r]
          /\ registered' = [registered EXCEPT ![s] = FALSE]
          /\ timeouts' = timeouts \cup {s}
          /\ conn' = "CONNECTING"
          /\ global' = s
          /\ Stay([l EXCEPT !.pc = "await", !.ws = s])
          /\ UNCHANGED <<active, relay, ready>>
    BY <1>3 DEF Create, Armed
  <2> DEFINE next == [l EXCEPT !.pc = "await", !.ws = s]
  <2>3. next \in Rounds /\ next.pc = "await" /\ next.ws = s
    BY DEF Rounds
  <2>4. r \in Candidates
    BY CandidateType DEF Rounds
  <2>5. TypeOK'
    BY <2>2, <2>3, <2>4 DEF TypeOK, Stay, Rounds, States
  <2>6. \A q \in Sockets : q # s => sock'[q] = "closed"
    BY <2>1, <2>2 DEF TypeOK
  <2>7. LiveIsGlobal'
    BY <2>2, <2>6 DEF LiveIsGlobal, Live
  <2>8. HandshakeAwaited'
    BY <2>2, <2>3, <2>6 DEF HandshakeAwaited, Awaited, Stay
  <2>9. ConnectedHasSocket'
    BY <2>2 DEF ConnectedHasSocket
  <2> QED BY <2>5, <2>7, <2>8, <2>9
<1> QED BY <1>1, <1>2, <1>3 DEF Attempt

LEMMA RetryInv == ASSUME Inv, Retry PROVE Inv'
<1>1. CASE InRound \/ conn # "DISCONNECTED"
  <2>1. /\ UNCHANGED <<sock, url, registered, timeouts, link, returned, loop, lost, stopping, up>>
        /\ retry' = FALSE
    BY <1>1 DEF Retry
  <2>2. TypeOK'
    BY <2>1 DEF Inv, link, TypeOK
  <2> QED BY <2>1, <2>2 DEF Inv, link, LiveIsGlobal, Live, HandshakeAwaited, Awaited,
                            ConnectedHasSocket
<1>2. CASE ~InRound /\ conn = "DISCONNECTED"
  <2> DEFINE l == At("sleep", IF relay = 0 THEN 1 ELSE relay, 0, 1, NoSocket)
  <2>1. l \in Rounds
    BY NodeRelayLinkAssumption, AtType DEF Inv, TypeOK, Candidates
  <2> QED BY <1>2, <2>1, AttemptInv DEF Retry, InRound
<1> QED BY <1>1, <1>2

LEMMA WakeInv == ASSUME Inv, Wake PROVE Inv'
<1>0. retry' \in BOOLEAN /\ lost' \in BOOLEAN /\ UNCHANGED <<stopping, up>> /\ loop.pc = "sleep"
  BY DEF Wake, Inv, TypeOK
<1>1. loop \in Rounds
  BY DEF Inv, TypeOK, Rounds
<1>2. CASE loop.attempt < MaxAttempts /\ Attempt([loop EXCEPT !.attempt = @ + 1])
  <2>1. [loop EXCEPT !.attempt = @ + 1] \in Rounds
    BY <1>1, <1>2, NodeRelayLinkAssumption DEF Rounds
  <2> QED BY <1>0, <1>2, <2>1, AttemptInv
<1>3. CASE loop.offset < Relays - 1 /\ Attempt([loop EXCEPT !.attempt = 1, !.offset = @ + 1])
  <2>1. loop.offset + 1 \in 0..(Relays - 1) /\ 1 \in 1..MaxAttempts
    BY <1>1, <1>3, NodeRelayLinkAssumption DEF Rounds
  <2>2. [loop EXCEPT !.attempt = 1, !.offset = @ + 1] \in Rounds
    BY <1>1, <2>1 DEF Rounds
  <2> QED BY <1>0, <1>3, <2>2, AttemptInv
<1>4. CASE EndRound(conn) /\ UNCHANGED <<sock, url, registered, timeouts, active, global, relay, ready>>
  <2>1. TypeOK'
    BY <1>0, <1>4, IdleType DEF Inv, TypeOK, EndRound, Rounds, States
  <2>2. HandshakeAwaited'
    BY <1>0, <1>4 DEF Inv, HandshakeAwaited, Awaited
  <2> QED BY <1>0, <1>4, <2>1, <2>2 DEF Inv, EndRound, LiveIsGlobal, Live, ConnectedHasSocket
<1> QED BY <1>2, <1>3, <1>4 DEF Wake

-----------------------------------------------------------------------------
(* The end of an awaited attempt is a sleep of the round. *)
LEMMA ResumeType ==
    ASSUME loop \in Rounds, NEW s \in Sockets, Resume(s)
    PROVE  /\ loop' \in Rounds /\ returned' = returned
           /\ ~Awaited(s) => loop' = loop
  BY DEF Resume, Sleep, Stay, Rounds

LEMMA OpenInv == ASSUME Inv, NEW s \in Sockets, Open(s) PROVE Inv'
<1>1. TypeOK'
  BY DEF Inv, Open, link, TypeOK
<1>2. \A q \in Sockets : q # s => sock'[q] = sock[q]
  BY DEF Inv, Open, TypeOK
<1>3. sock'[s] = "open" /\ sock[s] = "connecting" /\ global = s
  BY DEF Inv, Open, TypeOK, LiveIsGlobal, Live
<1> QED BY <1>1, <1>2, <1>3 DEF Inv, Open, link, LiveIsGlobal, Live, HandshakeAwaited, Awaited,
                                ConnectedHasSocket

(* What every event that ends the life of a socket does to the others: it   *)
(* was the live one, so none of them is live.                               *)
LEMMA Alone ==
    ASSUME Inv, NEW s \in Sockets, Live(s)
    PROVE  global = s /\ \A q \in Sockets \ {s} : sock[q] = "closed"
  BY DEF Inv, TypeOK, LiveIsGlobal, Live

LEMMA HandshakeFailsInv == ASSUME Inv, NEW s \in Sockets, HandshakeFails(s) PROVE Inv'
<1>1. \A q \in Sockets : sock'[q] = "closed"
  BY Alone DEF HandshakeFails, Live, Inv, TypeOK
<1>2. loop \in Rounds /\ Forgotten(s) \in Sockets \cup {NoSocket}
  BY DEF Inv, TypeOK, Rounds, Forgotten
<1>3. TypeOK'
  BY <1>2, ResumeType DEF Inv, HandshakeFails, TypeOK, Rounds, States
<1> QED BY <1>1, <1>3 DEF Inv, HandshakeFails, LiveIsGlobal, Live, HandshakeAwaited,
                          ConnectedHasSocket

LEMMA AckedInv == ASSUME Inv, NEW s \in Sockets, Acked(s) PROVE Inv'
<1>1. global = s /\ \A q \in Sockets \ {s} : sock[q] = "closed"
  BY Alone DEF Acked, Live
<1>2. UNCHANGED sock
  BY <1>1 DEF Acked
<1>3. loop' \in Rounds /\ returned' \in BOOLEAN /\ conn' = "CONNECTED"
  BY IdleType DEF Inv, TypeOK, Acked, EndRound, Stay, Rounds
<1>4. url[s] \in 0..Relays
  BY DEF Inv, TypeOK, Candidates
<1>5. TypeOK'
  BY <1>2, <1>3, <1>4 DEF Inv, Acked, TypeOK, Rounds, States
<1>6. LiveIsGlobal' /\ HandshakeAwaited'
  BY <1>1, <1>2 DEF Inv, Acked, LiveIsGlobal, Live, HandshakeAwaited
<1>7. ConnectedHasSocket'
  BY <1>2, NodeRelayLinkAssumption DEF Inv, TypeOK, Acked, ConnectedHasSocket
<1> QED BY <1>5, <1>6, <1>7 DEF Inv

LEMMA TimeoutInv == ASSUME Inv, NEW s \in Sockets, Timeout(s) PROVE Inv'
<1>1. loop \in Rounds /\ Forgotten(s) \in Sockets \cup {NoSocket}
  BY DEF Inv, TypeOK, Rounds, Forgotten
<1>2. AfterTimeout(s) \in {"closed", "connecting", "open", "closing"} /\ AfterTimeout(s) # "connecting"
  BY DEF Inv, TypeOK, AfterTimeout
<1>3. TypeOK'
  <2>1. conn' \in States /\ global' \in Sockets \cup {NoSocket}
    BY <1>1 DEF Inv, Timeout, TypeOK, States
  <2> QED BY <1>1, <1>2, <2>1, ResumeType DEF Inv, Timeout, TypeOK, Rounds
<1>4. sock'[s] = AfterTimeout(s) /\ \A q \in Sockets \ {s} : sock'[q] = sock[q]
  BY DEF Inv, Timeout, TypeOK
<1>5. CASE ~Live(s)
  <2>1. UNCHANGED <<sock, conn, global, active, registered, stopping>>
    <3>1. sock[s] = "closed"
      BY <1>5 DEF Inv, TypeOK, Live
    <3> QED BY <3>1, <1>4 DEF Timeout, AfterTimeout, Inv, TypeOK
  <2>2. HandshakeAwaited'
    <3>1. \A q \in Sockets : Awaited(q) /\ q # s => ~Awaited(s)
      BY DEF Awaited
    <3> QED BY <1>1, <1>5, <2>1, <3>1, ResumeType DEF Inv, Timeout, HandshakeAwaited, Awaited, Live
  <2> QED BY <1>3, <2>1, <2>2 DEF Inv, LiveIsGlobal, Live, ConnectedHasSocket
<1>6. CASE Live(s)
  <2>1. global = s /\ \A q \in Sockets \ {s} : sock'[q] = "closed"
    BY <1>4, <1>6, Alone
  <2>2. LiveIsGlobal'
    BY <1>4, <2>1 DEF LiveIsGlobal, Live, Timeout, AfterTimeout
  <2>3. HandshakeAwaited'
    BY <1>2, <1>4, <2>1 DEF HandshakeAwaited
  <2>4. ConnectedHasSocket'
    BY <1>4 DEF Inv, Timeout, AfterTimeout, ConnectedHasSocket, TypeOK
  <2> QED BY <1>3, <2>2, <2>3, <2>4 DEF Inv
<1> QED BY <1>5, <1>6
LEMMA ErrorInv == ASSUME Inv, NEW s \in Sockets, Error(s) PROVE Inv'
<1>1. global = s /\ \A q \in Sockets \ {s} : sock[q] = "closed"
  BY Alone DEF Error, Live
<1>2. sock'[s] = "closing" /\ \A q \in Sockets \ {s} : sock'[q] = "closed"
  BY <1>1 DEF Error, Inv, TypeOK
<1>3. loop \in Rounds
  BY DEF Inv, TypeOK, Rounds
<1>4. TypeOK'
  BY <1>3, ResumeType DEF Inv, Error, TypeOK, Rounds, States
<1> QED BY <1>1, <1>2, <1>4 DEF Inv, Error, LiveIsGlobal, Live, HandshakeAwaited,
                                ConnectedHasSocket

LEMMA ClosedInv == ASSUME Inv, NEW s \in Sockets, Closed(s) PROVE Inv'
<1>1. \A q \in Sockets : sock'[q] = "closed"
  BY Alone DEF Closed, Live, Inv, TypeOK
<1>2. loop \in Rounds /\ Forgotten(s) \in Sockets \cup {NoSocket}
  BY DEF Inv, TypeOK, Rounds, Forgotten
<1>3. sock' \in [Sockets -> {"closed", "connecting", "open", "closing"}]
  BY DEF Inv, TypeOK, Closed
<1>4. LiveIsGlobal' /\ HandshakeAwaited'
  BY <1>1 DEF LiveIsGlobal, Live, HandshakeAwaited
<1>5. CASE ClosedRegistered(s)
  <2>1. TypeOK'
    <3>1. UNCHANGED <<url, registered, stopping, up, returned, timeouts, active, relay>> /\ loop' = loop
      BY <1>5 DEF Closed, ClosedRegistered, Stay, link
    <3>2. CASE stopping
      BY <1>2, <1>3, <1>5, <3>1, <3>2 DEF Inv, ClosedRegistered, TypeOK, link
    <3>3. CASE ~stopping
      <4>1. /\ conn' \in States /\ global' \in Sockets \cup {NoSocket}
            /\ ready' = FALSE /\ retry' = TRUE /\ lost' \in BOOLEAN
        BY <1>2, <1>5, <3>3 DEF ClosedRegistered, Scheduled, AfterLoss, States, InRound
      <4> QED BY <1>2, <1>3, <3>1, <4>1 DEF Inv, TypeOK
    <3> QED BY <3>2, <3>3
  <2>2. ConnectedHasSocket'
    BY <1>5 DEF Inv, Closed, ClosedRegistered, AfterLoss, ConnectedHasSocket, link
  <2> QED BY <1>4, <2>1, <2>2 DEF Inv
<1>6. CASE ClosedUnregistered(s)
  <2>1. TypeOK'
    BY <1>2, <1>3, <1>6, ResumeType DEF Inv, Closed, ClosedUnregistered, TypeOK, Rounds, States
  <2>2. ConnectedHasSocket'
    BY <1>6 DEF ClosedUnregistered, ConnectedHasSocket
  <2> QED BY <1>4, <2>1, <2>2 DEF Inv
<1> QED BY <1>5, <1>6 DEF Closed

LEMMA CloseInv == ASSUME Inv, Close PROVE Inv'
<1>1. TypeOK'
  BY DEF Inv, Close, TypeOK, States
<1>2. \A s \in Sockets : /\ sock'[s] = "connecting" <=> sock[s] = "connecting"
                         /\ sock'[s] = "closed" <=> sock[s] = "closed"
  BY DEF Inv, TypeOK, Close
<1>3. LiveIsGlobal'
  BY <1>2 DEF Inv, TypeOK, Close, LiveIsGlobal, Live
<1> QED BY <1>1, <1>2, <1>3 DEF Inv, Close, HandshakeAwaited, Awaited, ConnectedHasSocket

LEMMA EnvironmentInv == ASSUME Inv, Environment PROVE Inv'
<1>1. TypeOK'
  BY DEF Inv, Environment, TypeOK, link
<1> QED BY <1>1 DEF Inv, Environment, link, LiveIsGlobal, Live, HandshakeAwaited, Awaited,
                    ConnectedHasSocket

-----------------------------------------------------------------------------
LEMMA StepInv == ASSUME Inv, [Next]_vars PROVE Inv'
<1>1. CASE Retry
  BY <1>1, RetryInv
<1>2. CASE Wake
  BY <1>2, WakeInv
<1>3. CASE \E s \in Sockets : SocketEvent(s)
  BY <1>3, OpenInv, HandshakeFailsInv, AckedInv, TimeoutInv, ErrorInv, ClosedInv DEF SocketEvent
<1>4. CASE Close
  BY <1>4, CloseInv
<1>5. CASE Environment
  BY <1>5, EnvironmentInv
<1>6. CASE UNCHANGED vars
  <2>1. TypeOK'
    BY <1>6 DEF Inv, vars, link, TypeOK
  <2> QED BY <1>6, <2>1 DEF Inv, vars, link, LiveIsGlobal, Live, HandshakeAwaited, Awaited,
                            ConnectedHasSocket
<1> QED BY <1>1, <1>2, <1>3, <1>4, <1>5, <1>6 DEF Next

(* The inductive invariant holds of every behaviour of the link. *)
THEOREM Invariance == Spec => []Inv
  BY InitInv, StepInv, PTL DEF Spec

(* Type correctness, for any candidates and sockets. *)
THEOREM TypeCorrect == Spec => []TypeOK
<1>1. Inv => TypeOK
  BY DEF Inv
<1> QED BY <1>1, Invariance, PTL

(* Late acknowledgements, timeouts, errors and close events of any number   *)
(* of sockets, in any order: there is one WebSocket at most, and a state    *)
(* that says CONNECTED has a registered one whose close event is to come.   *)
THEOREM LinkIsSound == Spec => []LinkSound
<1>1. ASSUME Inv PROVE AtMostOneSocket
  BY <1>1 DEF Inv, LiveIsGlobal, AtMostOneSocket
<1>2. Inv => LinkSound
  BY <1>1 DEF Inv, LinkSound
<1> QED BY <1>2, Invariance, PTL

(* A handshake never runs unattended: the round that made the socket waits  *)
(* for it until it is open or gone, so a timeout or a failure of it always  *)
(* leads to the next attempt.                                               *)
THEOREM HandshakesAwaited == Spec => [](\A s \in Sockets : sock[s] = "connecting" => Awaited(s))
<1>1. Inv => \A s \in Sockets : sock[s] = "connecting" => Awaited(s)
  BY DEF Inv, HandshakeAwaited
<1> QED BY <1>1, Invariance, PTL

(* After close() the round that is under way, its sleeps and the timers of  *)
(* earlier sockets open no further connection.                              *)
THEOREM NoneAfterClose == Spec => NoConnectAfterClose
<1> DEFINE Kept == \A s \in Sockets : stopping /\ sock[s] = "closed" => sock'[s] = "closed"
<1>1. ASSUME TypeOK, Next, NEW s \in Sockets, stopping, sock[s] = "closed"
      PROVE  sock'[s] = "closed"
  <2>1. CASE Retry \/ Wake
    <3>1. ASSUME NEW l, Attempt(l) PROVE UNCHANGED sock
      BY <1>1, <3>1 DEF Attempt, Stops
    <3> QED BY <1>1, <2>1, <3>1 DEF Retry, Wake
  <2>2. CASE \E q \in Sockets : SocketEvent(q)
    <3>1. PICK q \in Sockets : SocketEvent(q)
      BY <2>2
    <3>2. CASE Open(q)
      BY <1>1, <3>2 DEF Open, TypeOK
    <3>3. CASE HandshakeFails(q)
      BY <1>1, <3>3 DEF HandshakeFails, TypeOK
    <3>4. CASE Acked(q)
      BY <1>1, <3>4 DEF Acked, TypeOK
    <3>5. CASE Timeout(q)
      BY <1>1, <3>5 DEF Timeout, AfterTimeout, TypeOK
    <3>6. CASE Error(q)
      BY <1>1, <3>6 DEF Error, TypeOK
    <3>7. CASE Closed(q)
      BY <1>1, <3>7 DEF Closed, TypeOK
    <3> QED BY <3>1, <3>2, <3>3, <3>4, <3>5, <3>6, <3>7 DEF SocketEvent
  <2>3. CASE Close \/ Environment
    BY <1>1, <2>3 DEF Close, Environment
  <2> QED BY <1>1, <2>1, <2>2, <2>3 DEF Next
<1>2. TypeOK /\ [Next]_vars => [Kept]_vars
  BY <1>1
<1> QED BY <1>2, TypeCorrect, PTL DEF Spec, NoConnectAfterClose
-----------------------------------------------------------------------------
(* What the liveness of the link rests on: no wait of a round is without a  *)
(* timer, and no loss without a reconnect that will be heeded.              *)

(* The socket that connectOnce awaits is the one it made for the candidate  *)
(* of this attempt, its register timeout is armed and its handshake or its  *)
(* registration is pending: it cannot be an old one, nor one whose events   *)
(* have all been used up.                                                   *)
WaitIsTimed ==
    loop.pc = "await" =>
        /\ loop.ws \in Sockets \cap timeouts /\ loop.ws # active
        /\ ~registered[loop.ws] /\ sock[loop.ws] \in {"connecting", "open"}
        /\ url[loop.ws] = Candidate(loop.start, loop.offset) /\ url[loop.ws] \notin LocalOnly

(* A registered socket that was lost outside a round has left its reconnect *)
(* timer armed, and the call of ensureConnected it makes will find neither  *)
(* a round in progress nor a link that is not down.                         *)
LossIsHeeded == lost => retry /\ ~InRound /\ conn = "DISCONNECTED"

(* A round does not leave CONNECTING behind, which would turn away every    *)
(* later call of ensureConnected.                                           *)
NoneStuck == InRound \/ conn # "CONNECTING"

Progress == WaitIsTimed /\ LossIsHeeded /\ NoneStuck

LEMMA AttemptProgress ==
    ASSUME Inv, Progress, NEW l \in Rounds, Attempt(l), lost' = FALSE
    PROVE  Progress'
<1> DEFINE r == Candidate(l.start, l.offset)
<1>1. CASE EndRound(conn)
  BY <1>1, IdleType DEF EndRound, Progress, WaitIsTimed, LossIsHeeded, NoneStuck, InRound
<1>2. CASE Stay([l EXCEPT !.pc = "sleep"])
  <2>1. loop'.pc = "sleep"
    BY <1>2 DEF Stay, Rounds
  <2> QED BY <2>1 DEF Progress, WaitIsTimed, LossIsHeeded, NoneStuck, InRound
<1>3. CASE ~Skipped(r) /\ Create(l, r)
  <2>1. PICK s \in Sockets \ {active, global} :
          /\ sock' = [sock EXCEPT ![s] = "connecting"]
          /\ url' = [url EXCEPT ![s] = r]
          /\ registered' = [registered EXCEPT ![s] = FALSE]
          /\ timeouts' = timeouts \cup {s}
          /\ loop' = [l EXCEPT !.pc = "await", !.ws = s]
          /\ UNCHANGED active
    BY <1>3 DEF Create, Armed, Stay
  <2>2. /\ loop'.pc = "await" /\ loop'.ws = s
        /\ loop'.start = l.start /\ loop'.offset = l.offset
    BY <2>1 DEF Rounds
  <2>3. /\ sock'[s] = "connecting" /\ ~registered'[s] /\ url'[s] = r
        /\ s \in Sockets \cap timeouts' /\ s # active'
    BY <2>1 DEF Inv, TypeOK
  <2>4. r \notin LocalOnly /\ Candidate(loop'.start, loop'.offset) = r
    BY <1>3, <2>2 DEF Skipped
  <2>5. WaitIsTimed'
    BY <2>2, <2>3, <2>4 DEF WaitIsTimed, Candidate
  <2> QED BY <2>2, <2>5 DEF Progress, LossIsHeeded, NoneStuck, InRound
<1> QED BY <1>1, <1>2, <1>3 DEF Attempt

(* The loop itself: its timer and the end of its sleeps. *)
LEMMA LoopProgress == ASSUME Inv, Progress, Retry \/ Wake PROVE Progress'
<1> DEFINE l == At("sleep", IF relay = 0 THEN 1 ELSE relay, 0, 1, NoSocket)
<1>1. CASE Retry /\ (InRound \/ conn # "DISCONNECTED")
  BY <1>1 DEF Retry, link, Progress, WaitIsTimed, LossIsHeeded, NoneStuck, InRound
<1>2. CASE Retry /\ ~InRound /\ conn = "DISCONNECTED"
  <2>1. l \in Rounds
    BY NodeRelayLinkAssumption, AtType DEF Inv, TypeOK, Candidates
  <2> QED BY <1>2, <2>1, AttemptProgress DEF Retry
<1>3. CASE Wake
  <2>1. loop \in Rounds /\ loop.pc = "sleep" /\ ~lost /\ lost' = FALSE
    BY <1>3 DEF Wake, Inv, TypeOK, Rounds, Progress, LossIsHeeded, InRound
  <2>2. CASE loop.attempt < MaxAttempts /\ Attempt([loop EXCEPT !.attempt = @ + 1])
    <3>1. [loop EXCEPT !.attempt = @ + 1] \in Rounds
      BY <2>1, <2>2, NodeRelayLinkAssumption DEF Rounds
    <3> QED BY <2>1, <2>2, <3>1, AttemptProgress
  <2>3. CASE /\ loop.offset < Relays - 1
             /\ Attempt([loop EXCEPT !.attempt = 1, !.offset = @ + 1])
    <3>1. loop.offset + 1 \in 0..(Relays - 1) /\ 1 \in 1..MaxAttempts
      BY <2>1, <2>3, NodeRelayLinkAssumption DEF Rounds
    <3>2. [loop EXCEPT !.attempt = 1, !.offset = @ + 1] \in Rounds
      BY <2>1, <3>1 DEF Rounds
    <3> QED BY <2>1, <2>3, <3>2, AttemptProgress
  <2>4. CASE EndRound(conn)
    BY <2>1, <2>4, IdleType DEF EndRound, Progress, WaitIsTimed, LossIsHeeded, NoneStuck, InRound
  <2> QED BY <1>3, <2>2, <2>3, <2>4 DEF Wake
<1> QED BY <1>1, <1>2, <1>3

(* Every event of a socket either leaves the wait as it is or ends it.      *)
LEMMA SocketProgress ==
    ASSUME Inv, Progress, NEW s \in Sockets, SocketEvent(s)
    PROVE  Progress'
<1> USE DEF Progress, WaitIsTimed, LossIsHeeded, NoneStuck, InRound
<1>0. /\ sock \in [Sockets -> {"closed", "connecting", "open", "closing"}]
      /\ registered \in [Sockets -> BOOLEAN] /\ loop \in Rounds
  BY DEF Inv, TypeOK, Rounds
<1>1. ASSUME Resume(s)
      PROVE  /\ loop' = loop \/ (loop'.pc = "sleep" /\ loop.pc = "await")
             /\ loop'.pc = "await" => loop' = loop /\ loop.ws # s
  <2>1. CASE Awaited(s)
    <3>1. loop' = [loop EXCEPT !.pc = "sleep", !.ws = NoSocket]
      BY <1>1, <2>1 DEF Resume, Sleep, Stay
    <3> QED BY <1>0, <2>1, <3>1 DEF Rounds, Awaited
  <2>2. CASE ~Awaited(s)
    <3>1. loop' = loop
      BY <1>1, <2>2 DEF Resume, Stay
    <3> QED BY <2>2, <3>1 DEF Awaited
  <2> QED BY <2>1, <2>2
<1>2. loop.pc = "await" /\ loop.ws # s => sock[s] = "closed"
  BY DEF Inv, LiveIsGlobal, Live, TypeOK
<1>3. CASE Open(s)
  BY <1>0, <1>3 DEF Open, link
<1>4. CASE HandshakeFails(s)
  BY <1>0, <1>1, <1>4 DEF HandshakeFails
<1>5. CASE Acked(s)
  <2>1. CASE Awaited(s)
    BY <1>5, <2>1, IdleType DEF Acked, EndRound
  <2>2. CASE ~Awaited(s)
    BY <1>2, <1>5, <2>2 DEF Acked, Stay, Awaited
  <2> QED BY <2>1, <2>2
<1>6. CASE Timeout(s)
  BY <1>0, <1>1, <1>6 DEF Timeout, AfterTimeout
<1>7. CASE Error(s)
  BY <1>0, <1>1, <1>7 DEF Error
<1>8. CASE Closed(s)
  <2>1. sock' = [sock EXCEPT ![s] = "closed"] /\ UNCHANGED <<url, registered>> /\ sock[s] # "closed"
    BY <1>8 DEF Closed
  <2>2. CASE ClosedRegistered(s)
    <3>1. loop.pc = "await" => loop.ws # s
      BY <2>2 DEF ClosedRegistered
    <3> QED BY <1>0, <1>2, <2>1, <2>2, <3>1
        DEF ClosedRegistered, Scheduled, AfterLoss, Stay, link
  <2>3. CASE ClosedUnregistered(s)
    BY <1>0, <1>1, <2>1, <2>3 DEF ClosedUnregistered
  <2> QED BY <1>8, <2>2, <2>3 DEF Closed
<1> QED BY <1>3, <1>4, <1>5, <1>6, <1>7, <1>8 DEF SocketEvent

LEMMA ProgressStep == ASSUME Inv, Progress, [Next]_vars PROVE Progress'
<1>1. CASE Close
  BY <1>1, NodeRelayLinkAssumption DEF Close, Inv, TypeOK, Progress, WaitIsTimed, LossIsHeeded, NoneStuck, InRound
<1>2. CASE Environment \/ UNCHANGED vars
  BY <1>2 DEF Environment, vars, link, Progress, WaitIsTimed, LossIsHeeded, NoneStuck, InRound
<1> QED BY <1>1, <1>2, LoopProgress, SocketProgress DEF Next

(* The safety half of RoundEnds and RecoversFromLoss, for any sockets,      *)
(* candidates and attempts: every wait of a round has a timer of the very   *)
(* socket it waits for, every loss a reconnect that will be heeded, and no  *)
(* round leaves the link CONNECTING.  Fairness only has to fire the timers. *)
THEOREM NothingIsForgotten == Spec => [](WaitIsTimed /\ LossIsHeeded /\ NoneStuck)
<1>1. Init => Progress
  BY IdleType DEF Init, Progress, WaitIsTimed, LossIsHeeded, NoneStuck, InRound
<1>2. Inv /\ Progress /\ [Next]_vars => Progress'
  BY ProgressStep
<1>3. Progress => WaitIsTimed /\ LossIsHeeded /\ NoneStuck
  BY DEF Progress
<1> QED BY <1>1, <1>2, <1>3, Invariance, PTL DEF Spec
=============================================================================
