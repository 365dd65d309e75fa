------------------------- MODULE SessionRouterProofs -------------------------
(***************************************************************************)
(* Proofs about SessionRouter, for any sessions, actors and number of      *)
(* handlers.  Inv has two halves.  Known facts hold however handlers       *)
(* interleave: a snapshot, stored or about to be stored, claims only       *)
(* entries that happened, and a list of friends, stored or about to be     *)
(* stored, has one record per actor.  Alone says that a handler that does  *)
(* not overlap another still works on the stored state.                    *)
(***************************************************************************)
EXTENDS SessionRouter, TLAPS

(* A snapshot says what happened, and nobody is confirmed one-sidedly.      *)
True(snap, sides) ==
    /\ snap.entered \subseteq sides
    /\ snap.state = "MUTUAL_ENTRY_CONFIRMED" => snap.entered = Sides

(* One record per actor, and each for a session that both entered.          *)
Sound(records) ==
    \A a \in Actors :
        /\ records[a] <= 1
        /\ records[a] > 0 => \E s \in Sessions : name[s] = a /\ entered[s] = Sides

Entering(j) == IF j.event \in {"entry", "local.entry"} THEN {Side(j.event)} ELSE {}

Honest(h) ==
    /\ pc[h] = "process" => True(job[h].next, entered[job[h].session] \cup Entering(job[h]))
    /\ pc[h] \in {"befriend", "save"} => entered[job[h].session] = Sides
    /\ pc[h] = "save" => list[h][name[job[h].session]] = 0
    /\ Sound(list[h])

Facts ==
    /\ \A s \in Sessions : True(session[s], entered[s])
    /\ \A h \in Handlers : Honest(h)
    /\ Sound(friends)

Alone(h) ==
    /\ pc[h] = "process" =>
         /\ job[h].event \in Allowed(session[job[h].session].state)
         /\ job[h].next = Applied(session[job[h].session], job[h].event)
    /\ pc[h] \in {"befriend", "save"} =>
         session[job[h].session].state = "MUTUAL_ENTRY_CONFIRMED"
    /\ pc[h] = "save" => list[h] = friends

Serial ==
    ~overlap => /\ \A h, k \in Busy : h = k
                /\ \A h \in Busy : Alone(h)

Inv == TypeOK /\ Facts /\ Serial

-----------------------------------------------------------------------------
LEMMA NewType == New \in Snapshots /\ Nobody \in [Actors -> Nat]
  BY DEF New, Snapshots, States, Sides, Nobody

LEMMA SideType == \A e : Side(e) \in Sides
  BY DEF Side, Sides

(* Applying an event keeps the type and claims no entry but the event's.    *)
LEMMA AppliedTrue ==
    ASSUME NEW snap \in Snapshots, NEW sides \in SUBSET Sides, NEW e \in Events,
           e \in Allowed(snap.state), True(snap, sides)
    PROVE  /\ Applied(snap, e) \in Snapshots
           /\ True(Applied(snap, e), sides \cup
                  (IF e \in {"entry", "local.entry"} THEN {Side(e)} ELSE {}))
<1> DEFINE both == snap.entered \cup {Side(e)}
<1>1. CASE e \in {"entry", "local.entry"}
  <2>1. Applied(snap, e) = Entry(snap, Side(e))
    BY <1>1 DEF Applied
  <2>2. Side(e) \in Sides
    BY SideType
  <2>3. Entry(snap, Side(e)) \in Snapshots /\ Entry(snap, Side(e)).entered = both
    BY <2>2 DEF Entry, Snapshots, States
  <2>4. Entry(snap, Side(e)).state = "MUTUAL_ENTRY_CONFIRMED" => both = Sides
    BY DEF Entry
  <2> QED BY <1>1, <2>1, <2>3, <2>4 DEF True
<1>2. CASE e = "hello"
  BY <1>2 DEF Applied, True, Snapshots, States
<1>3. CASE e \in {"question", "error"}
  BY <1>3 DEF Applied, True, Snapshots, States
<1>4. CASE e = "done"
  BY <1>4 DEF Applied, True, Snapshots, States
<1>5. CASE e \in {"close", "local.close"}
  BY <1>5 DEF Applied, True, Snapshots, States
<1> QED BY <1>1, <1>2, <1>3, <1>4, <1>5 DEF Events, Messages, LocalEvents

LEMMA JobType ==
    ASSUME NEW s \in Sessions, NEW e \in Events, NEW n \in Snapshots
    PROVE  /\ Job(s, e, n) \in [session : Sessions, event : Events, next : Snapshots]
           /\ Job(s, e, n).session = s /\ Job(s, e, n).event = e /\ Job(s, e, n).next = n
  BY DEF Job

LEMMA NoJobType ==
    NoJob \in [session : Sessions, event : Events, next : Snapshots]
<1>1. (CHOOSE s \in Sessions : TRUE) \in Sessions
  BY SessionsAssumption
<1>2. "error" \in Events
  BY DEF Events, Messages
<1> QED BY <1>1, <1>2, NewType, JobType DEF NoJob

(* What an applied event does to the session, as the layers above see it.   *)
LEMMA AppliedStatus ==
    ASSUME NEW snap \in Snapshots, NEW e \in Events, e \in Allowed(snap.state)
    PROVE  \/ /\ Status(Applied(snap, e)) = Status(snap)
              /\ Applied(snap, e).entered = snap.entered
           \/ /\ Status(snap) = "open"
              /\ Applied(snap, e).entered = snap.entered \cup {Side(e)}
              /\ Status(Applied(snap, e)) =
                    IF Applied(snap, e).entered = Sides THEN "mutual" ELSE "open"
           \/ /\ Status(snap) \in {"open", "mutual"}
              /\ Status(Applied(snap, e)) = "closed"
              /\ Applied(snap, e).entered = snap.entered
<1>1. CASE e \in {"entry", "local.entry"}
  <2>1. Applied(snap, e) = Entry(snap, Side(e))
    BY <1>1 DEF Applied
  <2>2. snap.state \in {"PROBE_COMPLETE", "AWAIT_ENTRY"}
    BY <1>1 DEF Allowed, Snapshots, States
  <2>3. Status(snap) = "open"
    BY <2>2 DEF Status
  <2>4. Entry(snap, Side(e)).entered = snap.entered \cup {Side(e)}
    BY DEF Entry
  <2>5. Entry(snap, Side(e)).state =
           IF snap.entered \cup {Side(e)} = Sides THEN "MUTUAL_ENTRY_CONFIRMED"
                                                  ELSE "AWAIT_ENTRY"
    BY DEF Entry
  <2>6. Status(Entry(snap, Side(e))) =
           IF snap.entered \cup {Side(e)} = Sides THEN "mutual" ELSE "open"
    BY <2>5 DEF Status
  <2> QED BY <2>1, <2>3, <2>4, <2>6
<1>2. CASE e \in {"hello", "done"}
  <2>1. snap.state \in {"DISCONNECTED", "PROBING"}
    BY <1>2 DEF Allowed, Snapshots, States
  <2>2. /\ Applied(snap, e).state \in {"PROBING", "PROBE_COMPLETE"}
        /\ Applied(snap, e).entered = snap.entered
    BY <1>2 DEF Applied, Snapshots
  <2> QED BY <2>1, <2>2 DEF Status
<1>3. CASE e \in {"question", "error"}
  BY <1>3 DEF Applied
<1>4. CASE e \in {"close", "local.close"}
  <2>1. snap.state # "CLOSED"
    BY <1>4 DEF Allowed
  <2>2. Applied(snap, e) = [snap EXCEPT !.state = "CLOSED"]
    BY <1>4 DEF Applied
  <2>3. Applied(snap, e).state = "CLOSED" /\ Applied(snap, e).entered = snap.entered
    BY <2>2 DEF Snapshots
  <2> QED BY <2>1, <2>3 DEF Status
<1> QED BY <1>1, <1>2, <1>3, <1>4 DEF Events, Messages, LocalEvents

-----------------------------------------------------------------------------
(* Init establishes the invariant. *)
LEMMA InitInv == Init => Inv
<1> SUFFICES ASSUME Init PROVE Inv
  OBVIOUS
<1>1. TypeOK
  BY NewType, NoJobType DEF Init, TypeOK
<1>2. Facts
  BY DEF Init, Facts, Honest, True, Sound, New, Nobody
<1>3. Serial
  BY DEF Init, Serial, Busy
<1> QED BY <1>1, <1>2, <1>3 DEF Inv

(* A handler that receives an envelope has a typed and true snapshot.       *)
LEMMA ReceiveJob ==
    ASSUME Inv, NEW h \in Handlers, NEW s \in Sessions, NEW e \in Events,
           e \in Allowed(session[s].state),
           job' = [job EXCEPT ![h] = Job(s, e, Applied(session[s], e))]
    PROVE  /\ job'[h] \in [session : Sessions, event : Events, next : Snapshots]
           /\ job' \in [Handlers -> [session : Sessions, event : Events, next : Snapshots]]
           /\ \A k \in Handlers : k # h => job'[k] = job[k]
           /\ job'[h].session = s
           /\ job'[h].event = e
           /\ job'[h].next = Applied(session[s], e)
           /\ True(job'[h].next, entered[s] \cup Entering(job'[h]))
<1>1. session[s] \in Snapshots /\ entered[s] \in SUBSET Sides
  BY DEF Inv, TypeOK
<1>2. True(session[s], entered[s])
  BY DEF Inv, Facts
<1>3. /\ Applied(session[s], e) \in Snapshots
      /\ True(Applied(session[s], e), entered[s] \cup
             (IF e \in {"entry", "local.entry"} THEN {Side(e)} ELSE {}))
  BY <1>1, <1>2, AppliedTrue
<1> DEFINE j == Job(s, e, Applied(session[s], e))
<1>4. /\ j \in [session : Sessions, event : Events, next : Snapshots]
      /\ j.session = s /\ j.event = e /\ j.next = Applied(session[s], e)
  BY <1>3, JobType
<1>5. job'[h] = j /\ \A k \in Handlers : k # h => job'[k] = job[k]
  BY DEF Inv, TypeOK
<1>6. job' \in [Handlers -> [session : Sessions, event : Events, next : Snapshots]]
  BY <1>4 DEF Inv, TypeOK
<1> QED BY <1>3, <1>4, <1>5, <1>6 DEF Entering

(* A handler that ends leaves the others alone. *)
LEMMA EndsStep ==
    ASSUME TypeOK, NEW h \in Handlers, Ends(h)
    PROVE  /\ pc' \in [Handlers -> {"idle", "process", "befriend", "save"}]
           /\ job' \in [Handlers -> [session : Sessions, event : Events, next : Snapshots]]
           /\ list' \in [Handlers -> [Actors -> Nat]]
           /\ pc'[h] = "idle" /\ list'[h] = Nobody
           /\ \A k \in Handlers : k # h =>
                pc'[k] = pc[k] /\ job'[k] = job[k] /\ list'[k] = list[k]
  BY NewType, NoJobType DEF Ends, TypeOK

(* What a step that stores a snapshot does. *)
LEMMA ProcessStep ==
    ASSUME Inv, NEW h \in Handlers, Process(h)
    PROVE  /\ session' = [session EXCEPT ![job[h].session] = job[h].next]
           /\ entered' = [entered EXCEPT ![job[h].session] = @ \cup Entering(job[h])]
           /\ entered' \in [Sessions -> SUBSET Sides]
           /\ \A s \in Sessions : entered[s] \subseteq entered'[s]
           /\ pc[h] = "process"
           /\ UNCHANGED <<fixed, friends>>
           /\ \/ Triggers(job[h]) /\ pc' = [pc EXCEPT ![h] = "befriend"] /\ UNCHANGED <<job, list>>
              \/ Ends(h)
<1>1. job[h] \in [session : Sessions, event : Events, next : Snapshots]
  BY DEF Inv, TypeOK
<1>2. Entering(job[h]) \subseteq Sides
  BY SideType DEF Entering
<1>3. entered' = [entered EXCEPT ![job[h].session] = @ \cup Entering(job[h])]
  BY DEF Process, Entering
<1>4. /\ entered' \in [Sessions -> SUBSET Sides]
      /\ \A s \in Sessions : entered[s] \subseteq entered'[s]
  BY <1>1, <1>2, <1>3 DEF Inv, TypeOK
<1> QED BY <1>3, <1>4 DEF Process

(* Types are kept. *)
LEMMA TypeStep == Inv /\ [Next]_vars => TypeOK'
<1> SUFFICES ASSUME Inv, [Next]_vars PROVE TypeOK'
  OBVIOUS
<1>0. TypeOK
  BY DEF Inv
<1>1. ASSUME NEW h \in Handlers, Receive(h) PROVE TypeOK'
  <2>1. PICK s \in Sessions, e \in Events :
           /\ e \in Allowed(session[s].state)
           /\ job' = [job EXCEPT ![h] = Job(s, e, Applied(session[s], e))]
    BY <1>1 DEF Receive
  <2>2. job' \in [Handlers -> [session : Sessions, event : Events, next : Snapshots]]
    BY <2>1, ReceiveJob
  <2> QED BY <1>0, <1>1, <2>2 DEF Receive, TypeOK, fixed
<1>2. ASSUME NEW h \in Handlers, Reject(h) \/ StorageFails(h) PROVE TypeOK'
  BY <1>0, <1>2, EndsStep DEF Reject, StorageFails, TypeOK, fixed
<1>3. ASSUME NEW h \in Handlers, Process(h) PROVE TypeOK'
  <2>1. job[h] \in [session : Sessions, event : Events, next : Snapshots]
    BY <1>0 DEF TypeOK
  <2>2. session' \in [Sessions -> Snapshots]
    BY <1>0, <1>3, <2>1, ProcessStep DEF TypeOK
  <2>3. CASE Ends(h)
    BY <1>0, <1>3, <2>2, <2>3, ProcessStep, EndsStep DEF TypeOK, fixed
  <2>4. CASE pc' = [pc EXCEPT ![h] = "befriend"] /\ UNCHANGED <<job, list>>
    BY <1>0, <1>3, <2>2, <2>4, ProcessStep DEF TypeOK, fixed
  <2> QED BY <1>3, <2>3, <2>4, ProcessStep
<1>4. ASSUME NEW h \in Handlers, ReadFriends(h) PROVE TypeOK'
  <2>1. CASE Known(h)
    BY <1>0, <1>4, <2>1, EndsStep DEF ReadFriends, TypeOK, fixed
  <2>2. CASE ~Known(h)
    BY <1>0, <1>4, <2>2 DEF ReadFriends, TypeOK, fixed
  <2> QED BY <2>1, <2>2
<1>5. ASSUME NEW h \in Handlers, WriteFriends(h) PROVE TypeOK'
  <2>1. job[h].session \in Sessions /\ list[h] \in [Actors -> Nat]
    BY <1>0 DEF TypeOK
  <2>2. friends' \in [Actors -> Nat]
    BY <1>0, <1>5, <2>1 DEF WriteFriends, TypeOK
  <2> QED BY <1>0, <1>5, <2>2, EndsStep DEF WriteFriends, TypeOK, fixed
<1>6. CASE Restart
  BY <1>0, <1>6, NewType, NoJobType DEF Restart, TypeOK, fixed
<1>7. CASE UNCHANGED vars
  BY <1>0, <1>7 DEF vars, fixed, handler, TypeOK
<1> QED BY <1>1, <1>2, <1>3, <1>4, <1>5, <1>6, <1>7 DEF Next

(* While entries only accumulate, what is known of an actor stays known.    *)
Grows ==
    /\ name' = name
    /\ \A s \in Sessions : entered[s] \subseteq entered'[s]

LEMMA SoundGrows ==
    ASSUME TypeOK, TypeOK', Grows
    PROVE  /\ Sound(friends) /\ friends' = friends => Sound(friends)'
           /\ \A h \in Handlers : Sound(list[h]) /\ list'[h] = list[h] => Sound(list[h])'
           /\ \A s \in Sessions : entered[s] = Sides => entered'[s] = Sides
<1>1. \A s \in Sessions : entered[s] = Sides => entered'[s] = Sides
  BY DEF TypeOK, Grows
<1> QED BY <1>1 DEF Grows, Sound

LEMMA HonestGrows ==
    ASSUME TypeOK, TypeOK', Grows, NEW h \in Handlers, Honest(h),
           pc'[h] = pc[h], job'[h] = job[h], list'[h] = list[h]
    PROVE  Honest(h)'
<1>1. job[h].session \in Sessions
  BY DEF TypeOK
<1>2. /\ entered[job[h].session] \subseteq entered'[job[h].session]
      /\ entered[job[h].session] = Sides => entered'[job[h].session] = Sides
      /\ Sound(list[h])'
  BY <1>1, SoundGrows DEF Honest, Grows
<1>3. (pc[h] = "process" => True(job[h].next, entered[job[h].session] \cup Entering(job[h])))'
  BY <1>2 DEF Honest, True, Entering
<1>4. (pc[h] \in {"befriend", "save"} => entered[job[h].session] = Sides)'
  BY <1>2 DEF Honest
<1>5. (pc[h] = "save" => list[h][name[job[h].session]] = 0)'
  BY DEF Honest, Grows
<1> QED BY <1>2, <1>3, <1>4, <1>5 DEF Honest

(* A handler that has ended knows nothing, and what it knows is true.       *)
LEMMA HonestEnds ==
    ASSUME TypeOK, TypeOK', NEW h \in Handlers, pc'[h] = "idle", list'[h] = Nobody
    PROVE  Honest(h)'
  BY DEF Honest, Sound, Nobody

LEMMA FactsStep == Inv /\ [Next]_vars => Facts'
<1> SUFFICES ASSUME Inv, [Next]_vars PROVE Facts'
  OBVIOUS
<1>0. TypeOK /\ TypeOK' /\ Facts
  BY TypeStep DEF Inv
<1>k. ASSUME UNCHANGED <<fixed, session, friends, entered>>, \A h \in Handlers : Honest(h)'
      PROVE  Facts'
  <2>1. Grows
    BY <1>k DEF Grows, fixed
  <2>2. Sound(friends)'
    BY <1>0, <1>k, <2>1, SoundGrows DEF Facts
  <2> QED BY <1>0, <1>k, <2>2 DEF Facts, True
<1>1. ASSUME NEW h \in Handlers, Receive(h) PROVE Facts'
  <2>1. PICK s \in Sessions, e \in Events :
           /\ e \in Allowed(session[s].state)
           /\ job' = [job EXCEPT ![h] = Job(s, e, Applied(session[s], e))]
    BY <1>1 DEF Receive
  <2>2. Grows /\ entered' = entered
    BY <1>1 DEF Receive, Grows, fixed
  <2>3. /\ job'[h].session = s
        /\ True(job'[h].next, entered[s] \cup Entering(job'[h]))
        /\ \A k \in Handlers : k # h => job'[k] = job[k]
    BY <2>1, ReceiveJob
  <2>4. Honest(h)'
    <3>1. pc'[h] = "process" /\ list'[h] = list[h]
      BY <1>0, <1>1 DEF Receive, TypeOK
    <3>2. Sound(list[h])'
      BY <1>0, <2>2, <3>1, SoundGrows DEF Facts, Honest
    <3>3. True(job[h].next, entered[job[h].session] \cup Entering(job[h]))'
      BY <2>2, <2>3 DEF True, Entering
    <3> QED BY <3>1, <3>2, <3>3 DEF Honest
  <2>5. \A k \in Handlers : k # h => Honest(k)'
    <3>1. \A k \in Handlers : k # h => pc'[k] = pc[k] /\ list'[k] = list[k]
      BY <1>0, <1>1 DEF Receive, TypeOK
    <3> QED BY <1>0, <2>2, <2>3, <3>1, HonestGrows DEF Facts
  <2> QED BY <1>1, <1>k, <2>4, <2>5 DEF Receive
<1>2. ASSUME NEW h \in Handlers, Ends(h), UNCHANGED <<fixed, session, friends, entered>>
      PROVE  Facts'
  <2>1. Grows
    BY <1>2 DEF Grows, fixed
  <2>2. Honest(h)'
    BY <1>0, <1>2, EndsStep, HonestEnds
  <2>3. \A k \in Handlers : k # h => Honest(k)'
    BY <1>0, <1>2, <2>1, EndsStep, HonestGrows DEF Facts
  <2> QED BY <1>k, <1>2, <2>2, <2>3
<1>3. ASSUME NEW h \in Handlers, Process(h) PROVE Facts'
  <2> DEFINE j == job[h]
             s == job[h].session
  <2>1. j \in [session : Sessions, event : Events, next : Snapshots]
    BY <1>0 DEF TypeOK
  <2>2. /\ session' = [session EXCEPT ![s] = j.next]
        /\ entered' = [entered EXCEPT ![s] = @ \cup Entering(j)]
        /\ Grows
        /\ pc[h] = "process" /\ friends' = friends
    BY <1>3, ProcessStep DEF Grows, fixed
  <2>3. True(j.next, entered'[s])
    BY <1>0, <2>1, <2>2 DEF Facts, Honest, TypeOK
  <2>4. \A x \in Sessions : True(session[x], entered[x])'
    <3>1. ASSUME NEW x \in Sessions, x # s PROVE True(session'[x], entered'[x])
      BY <1>0, <2>2, <3>1 DEF Facts, True, TypeOK
    <3>2. True(session'[s], entered'[s])
      BY <1>0, <2>1, <2>2, <2>3 DEF True, TypeOK
    <3> QED BY <3>1, <3>2 DEF True
  <2>5. Sound(friends)'
    BY <1>0, <2>2, SoundGrows DEF Facts
  <2>6. \A k \in Handlers : Honest(k)'
    <3>1. CASE Ends(h)
      BY <1>0, <2>2, <3>1, EndsStep, HonestEnds, HonestGrows DEF Facts
    <3>2. CASE /\ Triggers(j) /\ pc' = [pc EXCEPT ![h] = "befriend"]
               /\ UNCHANGED <<job, list>>
      <4>0. j.next.entered = Sides /\ j.next.entered \subseteq entered'[s]
        BY <2>3, <3>2 DEF Triggers, True
      <4>1. entered'[s] = Sides
        <5>1. s \in Sessions
          BY <2>1
        <5>2. entered'[s] \in SUBSET Sides
          BY <1>0, <5>1 DEF TypeOK
        <5> QED BY <4>0, <5>2
      <4>2. Sound(list[h])'
        BY <1>0, <2>2, <3>2, SoundGrows DEF Facts, Honest
      <4>3. pc'[h] = "befriend" /\ \A k \in Handlers : k # h => pc'[k] = pc[k]
        BY <1>0, <3>2 DEF TypeOK
      <4>4. Honest(h)'
        BY <3>2, <4>1, <4>2, <4>3 DEF Honest
      <4>5. ASSUME NEW k \in Handlers, k # h PROVE Honest(k)'
        BY <1>0, <2>2, <3>2, <4>3, <4>5, HonestGrows DEF Facts
      <4> QED BY <4>4, <4>5
    <3> QED BY <1>3, <3>1, <3>2, ProcessStep
  <2> QED BY <2>4, <2>5, <2>6 DEF Facts
<1>4. ASSUME NEW h \in Handlers, ReadFriends(h), ~Known(h) PROVE Facts'
  <2>1. Grows
    BY <1>4 DEF ReadFriends, Grows, fixed
  <2>2. /\ pc'[h] = "save" /\ list'[h] = friends
        /\ \A k \in Handlers : k # h => pc'[k] = pc[k] /\ list'[k] = list[k]
    BY <1>0, <1>4 DEF ReadFriends, TypeOK
  <2>3. Honest(h)'
    <3>1. job[h].session \in Sessions /\ name[job[h].session] \in Actors
      BY <1>0 DEF TypeOK
    <3>2. friends[name[job[h].session]] = 0
      BY <1>0, <1>4, <3>1 DEF Known, TypeOK
    <3>3. entered'[job[h].session] = Sides
      BY <1>0, <1>4 DEF ReadFriends, Facts, Honest
    <3>4. Sound(list[h])'
      BY <1>0, <1>4, <2>2 DEF ReadFriends, Facts, Sound, fixed
    <3> QED BY <1>4, <2>1, <2>2, <3>2, <3>3, <3>4 DEF Honest, ReadFriends, Grows
  <2>4. \A k \in Handlers : k # h => Honest(k)'
    BY <1>0, <1>4, <2>1, <2>2, HonestGrows DEF Facts, ReadFriends
  <2> QED BY <1>4, <1>k, <2>3, <2>4 DEF ReadFriends
<1>5. ASSUME NEW h \in Handlers, WriteFriends(h) PROVE Facts'
  <2>1. Grows /\ session' = session /\ entered' = entered /\ Ends(h)
    BY <1>5 DEF WriteFriends, Grows, fixed
  <2>2. Sound(friends)'
    <3> DEFINE a == name[job[h].session]
    <3>1. job[h].session \in Sessions /\ a \in Actors /\ list[h] \in [Actors -> Nat]
      BY <1>0 DEF TypeOK
    <3>2. list[h][a] = 0 /\ Sound(list[h]) /\ entered[job[h].session] = Sides
      BY <1>0, <1>5 DEF WriteFriends, Facts, Honest
    <3>3. friends' = [list[h] EXCEPT ![a] = @ + 1]
      BY <1>5 DEF WriteFriends
    <3>4. friends'[a] = 1 /\ \A b \in Actors : b # a => friends'[b] = list[h][b]
      BY <3>1, <3>2, <3>3
    <3>5. \A b \in Actors : b # a =>
             /\ friends'[b] <= 1
             /\ friends'[b] > 0 => \E s \in Sessions : name[s] = b /\ entered[s] = Sides
      BY <3>2, <3>4 DEF Sound
    <3>6. /\ friends'[a] <= 1
          /\ \E s \in Sessions : name[s] = a /\ entered[s] = Sides
      BY <3>1, <3>2, <3>4
    <3> QED BY <2>1, <3>5, <3>6 DEF Sound, Grows
  <2>3. Honest(h)'
    BY <1>0, <2>1, EndsStep, HonestEnds
  <2>4. \A k \in Handlers : k # h => Honest(k)'
    BY <1>0, <2>1, EndsStep, HonestGrows DEF Facts
  <2> QED BY <1>0, <2>1, <2>2, <2>3, <2>4 DEF Facts, True
<1>6. CASE Restart
  <2>1. \A h \in Handlers : pc'[h] = "idle" /\ list'[h] = Nobody
    BY <1>6 DEF Restart
  <2>2. \A h \in Handlers : Honest(h)'
    BY <1>0, <2>1, HonestEnds
  <2> QED BY <1>6, <1>k, <2>2 DEF Restart
<1>7. CASE UNCHANGED vars
  <2>1. Grows
    BY <1>7 DEF vars, fixed, Grows
  <2>2. \A h \in Handlers : Honest(h)'
    BY <1>0, <1>7, <2>1, HonestGrows DEF vars, handler, Facts
  <2> QED BY <1>7, <1>k, <2>2 DEF vars
<1>8. ASSUME NEW h \in Handlers, Reject(h) \/ StorageFails(h) \/ (ReadFriends(h) /\ Known(h))
      PROVE  Facts'
  BY <1>2, <1>8 DEF Reject, StorageFails, ReadFriends
<1> QED BY <1>1, <1>3, <1>4, <1>5, <1>6, <1>7, <1>8 DEF Next

-----------------------------------------------------------------------------
LEMMA OverlapFixed == [Next]_vars => overlap' = overlap
  BY DEF Next, vars, fixed, Receive, Reject, Process, ReadFriends, WriteFriends,
         StorageFails, Restart

LEMMA OneBusy ==
    ASSUME Inv, ~overlap, NEW h \in Handlers, pc[h] # "idle"
    PROVE  /\ \A k \in Handlers : k # h => pc[k] = "idle"
           /\ Alone(h)
  BY DEF Inv, Serial, Busy

(* The only handler ends, and none is left. *)
LEMMA SerialEnds ==
    ASSUME Inv, ~overlap, NEW h \in Handlers, pc[h] # "idle", Ends(h)
    PROVE  Serial'
<1>1. \A k \in Handlers : pc'[k] = "idle"
  BY OneBusy, EndsStep DEF Inv
<1> QED BY <1>1 DEF Serial, Busy

(* The only handler goes on. *)
LEMMA SerialGoesOn ==
    ASSUME NEW h \in Handlers, \A k \in Handlers : k # h => pc'[k] = "idle", Alone(h)'
    PROVE  Serial'
  BY DEF Serial, Busy

LEMMA SerialStep == Inv /\ [Next]_vars /\ ~overlap => Serial'
<1> SUFFICES ASSUME Inv, [Next]_vars, ~overlap PROVE Serial'
  OBVIOUS
<1>0. TypeOK
  BY DEF Inv
<1>1. ASSUME NEW h \in Handlers, Receive(h) PROVE Serial'
  <2>1. PICK s \in Sessions, e \in Events :
           /\ e \in Allowed(session[s].state)
           /\ job' = [job EXCEPT ![h] = Job(s, e, Applied(session[s], e))]
    BY <1>1 DEF Receive
  <2>2. /\ job'[h].session = s /\ job'[h].event = e
        /\ job'[h].next = Applied(session[s], e)
    BY <2>1, ReceiveJob
  <2>3. pc'[h] = "process" /\ \A k \in Handlers : k # h => pc'[k] = "idle"
    BY <1>0, <1>1 DEF Receive, Busy, TypeOK
  <2>4. session' = session
    BY <1>1 DEF Receive
  <2>5. Alone(h)'
    BY <2>1, <2>2, <2>3, <2>4 DEF Alone
  <2> QED BY <2>3, <2>5, SerialGoesOn
<1>2. ASSUME NEW h \in Handlers, pc[h] # "idle", Ends(h) PROVE Serial'
  BY <1>2, SerialEnds
<1>3. ASSUME NEW h \in Handlers, Process(h), ~Ends(h) PROVE Serial'
  <2>1. /\ session' = [session EXCEPT ![job[h].session] = job[h].next]
        /\ pc[h] = "process" /\ Triggers(job[h])
        /\ pc' = [pc EXCEPT ![h] = "befriend"] /\ job' = job
    BY <1>3, ProcessStep
  <2>2. job[h].session \in Sessions
    BY <1>0 DEF TypeOK
  <2>3. session'[job[h].session].state = "MUTUAL_ENTRY_CONFIRMED"
    BY <1>0, <2>1, <2>2 DEF Triggers, TypeOK
  <2>4. pc'[h] = "befriend" /\ \A k \in Handlers : k # h => pc'[k] = "idle"
    BY <1>0, <2>1, OneBusy DEF TypeOK
  <2>5. Alone(h)'
    BY <2>1, <2>3, <2>4 DEF Alone
  <2> QED BY <2>4, <2>5, SerialGoesOn
<1>4. ASSUME NEW h \in Handlers, ReadFriends(h), ~Known(h) PROVE Serial'
  <2>1. /\ pc'[h] = "save" /\ list'[h] = friends /\ friends' = friends
        /\ job' = job /\ session' = session
    BY <1>0, <1>4 DEF ReadFriends, TypeOK
  <2>2. \A k \in Handlers : k # h => pc'[k] = "idle"
    BY <1>0, <1>4, OneBusy DEF ReadFriends, TypeOK
  <2>3. session[job[h].session].state = "MUTUAL_ENTRY_CONFIRMED"
    BY <1>4, OneBusy DEF ReadFriends, Alone
  <2>4. Alone(h)'
    BY <2>1, <2>3 DEF Alone
  <2> QED BY <2>2, <2>4, SerialGoesOn
<1>5. CASE Restart
  BY <1>5 DEF Restart, Serial, Busy
<1>6. CASE UNCHANGED vars
  BY <1>6 DEF vars, fixed, handler, Inv, Serial, Busy, Alone
<1>7. ASSUME NEW h \in Handlers,
             Reject(h) \/ StorageFails(h) \/ WriteFriends(h) \/ (Process(h) /\ Ends(h))
               \/ (ReadFriends(h) /\ Known(h))
      PROVE  Serial'
  BY <1>2, <1>7 DEF Reject, StorageFails, WriteFriends, Process, ReadFriends
<1> QED BY <1>1, <1>3, <1>4, <1>5, <1>6, <1>7 DEF Next

LEMMA InvStep == Inv /\ [Next]_vars => Inv'
<1> SUFFICES ASSUME Inv, [Next]_vars PROVE Inv'
  OBVIOUS
<1>1. TypeOK' /\ Facts'
  BY TypeStep, FactsStep
<1>2. Serial'
  <2>1. CASE overlap
    BY <2>1, OverlapFixed DEF Serial
  <2>2. CASE ~overlap
    BY <2>2, SerialStep
  <2> QED BY <2>1, <2>2
<1> QED BY <1>1, <1>2 DEF Inv

THEOREM RouterInvariant == Spec => []Inv
<1> QED BY InitInv, InvStep, PTL DEF Spec

(* Every variable of the router keeps its type. *)
THEOREM TypeCorrect == Spec => []TypeOK
<1>1. Inv => TypeOK
  BY DEF Inv
<1> QED BY <1>1, RouterInvariant, PTL

(* A friend is recorded only for a session that both sides have entered,    *)
(* for any number of sessions and handlers, overlapping or not.             *)
THEOREM OnlyMutualFriends == Spec => []FriendshipNeedsBoth
<1>1. Inv => FriendshipNeedsBoth
  BY DEF Inv, Facts, Sound, FriendshipNeedsBoth
<1> QED BY <1>1, RouterInvariant, PTL

(* writeFriendshipIfNeeded never records an actor twice, even when writers  *)
(* overlap.                                                                 *)
THEOREM NoDuplicateFriends == Spec => []OneRecordPerActor
<1>1. Inv => OneRecordPerActor
  BY DEF Inv, Facts, Sound, OneRecordPerActor
<1> QED BY <1>1, RouterInvariant, PTL

-----------------------------------------------------------------------------
(* Storing the snapshot enters, closes or changes nothing above.            *)
LEMMA ProcessImplements ==
    ASSUME Inv, ~overlap, NEW h \in Handlers, Process(h)
    PROVE  [Abstract!Next]_(Abstract!vars)
<1> DEFINE s == job[h].session
           e == job[h].event
           old == session[s]
           new == Applied(old, e)
<1>1. /\ TypeOK /\ overlap' = overlap /\ name' = name /\ friends' = friends
      /\ session' = [session EXCEPT ![s] = job[h].next]
      /\ pc[h] = "process"
  BY ProcessStep DEF Inv, fixed
<1>2. job[h].next = new /\ e \in Allowed(old.state)
  BY <1>1, OneBusy DEF Alone
<1>3. s \in Sessions /\ e \in Events /\ old \in Snapshots
  BY <1>1 DEF TypeOK
<1>4. session'[s] = new /\ \A x \in Sessions : x # s => session'[x] = session[x]
  BY <1>1, <1>2, <1>3 DEF TypeOK
<1> DEFINE status == [x \in Sessions |-> Status(session[x])]
           status1 == [x \in Sessions |-> Status(session'[x])]
           sides == [x \in Sessions |-> session[x].entered]
           sides1 == [x \in Sessions |-> session'[x].entered]
<1>5. /\ status1 = [status EXCEPT ![s] = Status(new)]
      /\ sides1 = [sides EXCEPT ![s] = new.entered]
  BY <1>3, <1>4
<1>6. status[s] = Status(old) /\ sides[s] = old.entered
  BY <1>3
<1>7. Side(e) \in Sides
  BY SideType
<1>8. \/ status1 = status /\ sides1 = sides
      \/ /\ status[s] = "open"
         /\ sides1 = [sides EXCEPT ![s] = @ \cup {Side(e)}]
         /\ status1 = IF sides1[s] = Sides THEN [status EXCEPT ![s] = "mutual"] ELSE status
      \/ /\ status[s] \in {"open", "mutual"}
         /\ status1 = [status EXCEPT ![s] = "closed"]
         /\ sides1 = sides
  <2>1. CASE Status(new) = Status(old) /\ new.entered = old.entered
    <3>1. \A x \in Sessions : /\ Status(session'[x]) = Status(session[x])
                              /\ session'[x].entered = session[x].entered
      BY <1>4, <2>1
    <3> QED BY <3>1
  <2>2. CASE /\ Status(old) = "open"
             /\ new.entered = old.entered \cup {Side(e)}
             /\ Status(new) = IF new.entered = Sides THEN "mutual" ELSE "open"
    <3>1. sides1 = [sides EXCEPT ![s] = @ \cup {Side(e)}] /\ status[s] = "open"
      BY <1>5, <1>6, <2>2
    <3>2. sides1[s] = new.entered
      BY <1>3, <1>5
    <3>3. CASE new.entered = Sides
      BY <1>5, <2>2, <3>1, <3>2, <3>3
    <3>4. CASE new.entered # Sides
      <4>1. \A x \in Sessions : Status(session'[x]) = Status(session[x])
        BY <1>4, <2>2, <3>4
      <4>2. status1 = status
        BY <4>1
      <4> QED BY <3>1, <3>2, <3>4, <4>2
    <3> QED BY <3>3, <3>4
  <2>3. CASE /\ Status(old) \in {"open", "mutual"}
             /\ Status(new) = "closed"
             /\ new.entered = old.entered
    BY <1>5, <1>6, <2>3
  <2> QED BY <1>2, <1>3, <2>1, <2>2, <2>3, AppliedStatus
<1>9. /\ [x \in Sessions |-> IF overlap THEN "open" ELSE Status(session[x])] = status
      /\ [x \in Sessions |-> IF overlap THEN "open" ELSE Status(session[x])]' = status1
      /\ [x \in Sessions |-> IF overlap THEN {} ELSE session[x].entered] = sides
      /\ [x \in Sessions |-> IF overlap THEN {} ELSE session[x].entered]' = sides1
      /\ UNCHANGED <<name, IF overlap THEN {} ELSE {a \in Actors : friends[a] > 0}>>
  BY <1>1
<1> HIDE DEF new, old, e, s, status, status1, sides, sides1
<1>a. CASE status1 = status /\ sides1 = sides
  BY <1>9, <1>a DEF Abstract!vars
<1>b. CASE /\ status[s] = "open"
           /\ sides1 = [sides EXCEPT ![s] = @ \cup {Side(e)}]
           /\ status1 = IF sides1[s] = Sides THEN [status EXCEPT ![s] = "mutual"] ELSE status
  <2>1. PICK x \in Sessions, side \in Abstract!Sides : x = s /\ side = Side(e)
    BY <1>3, <1>7 DEF Abstract!Sides, Sides
  <2>2. Abstract!Enter(x, side)
    BY <1>9, <1>b, <2>1 DEF Abstract!Enter, Abstract!Sides, Sides
  <2> QED BY <2>2 DEF Abstract!Next
<1>c. CASE /\ status[s] \in {"open", "mutual"}
           /\ status1 = [status EXCEPT ![s] = "closed"]
           /\ sides1 = sides
  <2>1. Abstract!Close(s)
    BY <1>9, <1>c DEF Abstract!Close
  <2> QED BY <1>3, <2>1 DEF Abstract!Next
<1> QED BY <1>8, <1>a, <1>b, <1>c

(* Writing the friends list adds a friend of a confirmed session.           *)
LEMMA WriteImplements ==
    ASSUME Inv, ~overlap, NEW h \in Handlers, WriteFriends(h)
    PROVE  [Abstract!Next]_(Abstract!vars)
<1> DEFINE s == job[h].session
           a == name[s]
<1>1. /\ TypeOK /\ overlap' = overlap /\ name' = name /\ session' = session
      /\ pc[h] = "save" /\ friends' = [list[h] EXCEPT ![a] = @ + 1]
  BY DEF WriteFriends, Inv, fixed
<1>2. list[h] = friends /\ session[s].state = "MUTUAL_ENTRY_CONFIRMED"
  BY <1>1, OneBusy DEF Alone
<1>3. s \in Sessions /\ a \in Actors /\ friends \in [Actors -> Nat]
  BY <1>1 DEF TypeOK
<1>4. {x \in Actors : friends'[x] > 0} = {x \in Actors : friends[x] > 0} \cup {a}
  BY <1>1, <1>2, <1>3
<1>5. Status(session[s]) = "mutual"
  BY <1>2 DEF Status
<1> QED BY <1>1, <1>3, <1>4, <1>5
        DEF Abstract!Next, Abstract!vars, Abstract!Befriend

LEMMA StepImplements == Inv /\ [Next]_vars => [Abstract!Next]_(Abstract!vars)
<1> SUFFICES ASSUME Inv, [Next]_vars PROVE [Abstract!Next]_(Abstract!vars)
  OBVIOUS
<1>0. overlap' = overlap /\ name' = name
  BY DEF Next, vars, fixed, Receive, Reject, Process, ReadFriends, WriteFriends,
         StorageFails, Restart
<1>1. CASE overlap
  BY <1>0, <1>1 DEF Abstract!vars
<1>2. ASSUME UNCHANGED <<session, friends>> PROVE UNCHANGED Abstract!vars
  BY <1>0, <1>2 DEF Abstract!vars
<1>3. ASSUME NEW h \in Handlers,
             Receive(h) \/ Reject(h) \/ ReadFriends(h) \/ StorageFails(h)
      PROVE  UNCHANGED Abstract!vars
  BY <1>2, <1>3 DEF Receive, Reject, ReadFriends, StorageFails
<1>4. CASE Restart
  BY <1>2, <1>4 DEF Restart
<1>5. CASE UNCHANGED vars
  BY <1>2, <1>5 DEF vars
<1> QED BY <1>1, <1>3, <1>4, <1>5, ProcessImplements, WriteImplements DEF Next

(* While handlers do not overlap, the router implements MutualEntry: it is  *)
(* confirmed by both entries only, stays closed once closed, and befriends  *)
(* only while confirmed, through rejections, failures and restarts.         *)
THEOREM RouterImplementsEntry == Spec => ImplementsMutualEntry
<1>1. Init => Abstract!Init
  <2> SUFFICES ASSUME Init PROVE Abstract!Init
    OBVIOUS
  <2>1. \A s \in Sessions : Status(session[s]) = "open" /\ session[s].entered = {}
    BY DEF Init, Status, New
  <2>2. {a \in Actors : friends[a] > 0} = {}
    BY DEF Init, Nobody
  <2> QED BY <2>1, <2>2 DEF Init, Abstract!Init
<1>2. Inv /\ [Next]_vars => [Abstract!Next]_(Abstract!vars)
  BY StepImplements
<1> QED BY <1>1, <1>2, RouterInvariant, PTL DEF Spec, ImplementsMutualEntry, Abstract!Spec
=============================================================================
