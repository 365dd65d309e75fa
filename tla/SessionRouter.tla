---------------------------- MODULE SessionRouter ----------------------------
(***************************************************************************)
(* Phase 2 sessions behind the HTTP runtime node.  For every envelope the  *)
(* router (src/runtime/router/messageRouter.mjs, messageRouterFormal.mjs)  *)
(* reads the session, lets the protocol processor validate the envelope    *)
(* and apply it (src/phase2), writes the whole new snapshot, and when both *)
(* sides have entered it records a friendship (src/phase3/friendship).     *)
(* The host applies local events in the same way.                          *)
(*                                                                         *)
(* Reading, writing and the friends list are awaited, so the handlers of   *)
(* two envelopes may interleave between them; overlap says whether they    *)
(* do.  The processor itself is a function of the snapshot and the         *)
(* envelope: its result is computed when the snapshot is read.             *)
(***************************************************************************)
EXTENDS Naturals

CONSTANTS Sessions,
          Actors,      \* peer_actor_id values, the placeholder for none included
          Handlers     \* envelopes and local events that can be in progress

ASSUME SessionsAssumption == Sessions # {}

VARIABLES
    overlap,   \* may handlers overlap, fixed at the start
    name,      \* peer_actor_id of the session's first envelope, fixed as well
    session,   \* the stored snapshots
    friends,   \* the friends list: how many records each actor has
    pc,        \* where each handler is
    job,       \* its session, the event and the snapshot to store
    list,      \* the friends list it has read
    entered    \* history: the sides whose entry was ever stored

handler == <<pc, job, list>>
fixed == <<overlap, name>>
vars == <<fixed, session, friends, handler, entered>>

Sides == {"local", "remote"}
States == {"DISCONNECTED", "PROBING", "PROBE_COMPLETE", "AWAIT_ENTRY",
           "MUTUAL_ENTRY_CONFIRMED", "CLOSED"}
Terminal == {"CLOSED"}     \* FAILED is never entered
Snapshots == [state : States, entered : SUBSET Sides]
New == [state |-> "DISCONNECTED", entered |-> {}]

(* question and answer are alike, and so are summary and done.  human.exit  *)
(* and friendship.establish are legal nowhere.                              *)
Messages == {"hello", "question", "done", "entry", "close", "error"}
LocalEvents == {"local.entry", "local.close"}
Events == Messages \cup LocalEvents
Job(s, e, next) == [session |-> s, event |-> e, next |-> next]
NoJob == Job(CHOOSE s \in Sessions : TRUE, "error", New)
Nobody == [a \in Actors |-> 0]

Init ==
    /\ overlap \in BOOLEAN
    /\ name \in [Sessions -> Actors]
    /\ session = [s \in Sessions |-> New]
    /\ friends = Nobody
    /\ pc = [h \in Handlers |-> "idle"]
    /\ job = [h \in Handlers |-> NoJob]
    /\ list = [h \in Handlers |-> Nobody]
    /\ entered = [s \in Sessions |-> {}]

-----------------------------------------------------------------------------
(* ALLOWED_TRANSITIONS_PHASE2 and ALLOWED_LOCAL_EVENTS_PHASE2.              *)
Allowed_Any(state) == Events                                         \* mutant

Allowed(state) ==
    CASE state = "DISCONNECTED" -> {"hello", "close", "error"}
      [] state = "PROBING" -> {"question", "done", "close", "error", "local.close"}
      [] state \in {"PROBE_COMPLETE", "AWAIT_ENTRY"} ->
           {"entry", "close", "error", "local.entry", "local.close"}
      [] state = "MUTUAL_ENTRY_CONFIRMED" -> {"close", "error", "local.close"}
      [] OTHER -> {}

(* human.entry and local.human.entry set the flag of their side.            *)
Side(e) == IF e = "entry" THEN "remote" ELSE "local"

Entry_Any(snap, side) ==                                             \* mutant
    [state |-> "MUTUAL_ENTRY_CONFIRMED", entered |-> snap.entered \cup {side}]

Entry(snap, side) ==
    LET both == snap.entered \cup {side}
    IN [state |-> IF both = Sides THEN "MUTUAL_ENTRY_CONFIRMED" ELSE "AWAIT_ENTRY",
        entered |-> both]

(* applySessionMessage and applyLocalEvent, for an event that is allowed.   *)
Applied(snap, e) ==
    CASE e = "hello" -> [snap EXCEPT !.state = "PROBING"]
      [] e = "done" -> [snap EXCEPT !.state = "PROBE_COMPLETE"]
      [] e \in {"entry", "local.entry"} -> Entry(snap, Side(e))
      [] e \in {"close", "local.close"} -> [snap EXCEPT !.state = "CLOSED"]
      [] OTHER -> snap                          \* question and error

Busy == {h \in Handlers : pc[h] # "idle"}
Ends(h) ==
    /\ pc' = [pc EXCEPT ![h] = "idle"]
    /\ job' = [job EXCEPT ![h] = NoJob]
    /\ list' = [list EXCEPT ![h] = Nobody]

(* readSession; a session that was never stored is DISCONNECTED.            *)
Receive(h) ==
    /\ pc[h] = "idle"
    /\ overlap \/ Busy = {}
    /\ \E s \in Sessions, e \in Events :
         /\ e \in Allowed(session[s].state)
         /\ job' = [job EXCEPT ![h] = Job(s, e, Applied(session[s], e))]
    /\ pc' = [pc EXCEPT ![h] = "process"]
    /\ UNCHANGED <<fixed, session, friends, list, entered>>

(* Fail closed: an envelope that does not validate, verify or decrypt, or a  *)
(* body that does not fit its type, throws before anything is stored.       *)
Reject(h) ==
    /\ pc[h] = "process"
    /\ Ends(h)
    /\ UNCHANGED <<fixed, session, friends, entered>>

(* writeSession, and the trigger's condition.  Local events do not pass     *)
(* through the router and trigger nothing.                                  *)
Triggers(j) == j.event \in Messages /\ j.next.state = "MUTUAL_ENTRY_CONFIRMED"

Process(h) ==
    LET j == job[h]
        s == j.session
    IN /\ pc[h] = "process"
       /\ session' = [session EXCEPT ![s] = j.next]
       /\ entered' = [entered EXCEPT ![s] = @ \cup
             (IF j.event \in {"entry", "local.entry"} THEN {Side(j.event)} ELSE {})]
       /\ IF Triggers(j)
          THEN pc' = [pc EXCEPT ![h] = "befriend"] /\ UNCHANGED <<job, list>>
          ELSE Ends(h)
       /\ UNCHANGED <<fixed, friends>>

(* writeFriendshipIfNeeded: readFriends and the check for a record of the   *)
(* actor, then writeFriends with the longer list.                           *)
Known_Never(h) == FALSE                                              \* mutant
Known(h) == friends[name[job[h].session]] > 0

ReadFriends(h) ==
    /\ pc[h] = "befriend"
    /\ IF Known(h)
       THEN Ends(h)
       ELSE /\ list' = [list EXCEPT ![h] = friends]
            /\ pc' = [pc EXCEPT ![h] = "save"]
            /\ UNCHANGED job
    /\ UNCHANGED <<fixed, session, friends, entered>>

WriteFriends(h) ==
    /\ pc[h] = "save"
    /\ friends' = [list[h] EXCEPT ![name[job[h].session]] = @ + 1]
    /\ Ends(h)
    /\ UNCHANGED <<fixed, session, entered>>

(* The storage throws; the session keeps what was written.                  *)
StorageFails(h) ==
    /\ pc[h] \in {"befriend", "save"}
    /\ Ends(h)
    /\ UNCHANGED <<fixed, session, friends, entered>>

(* The process stops and starts again over the same storage.                *)
Restart ==
    /\ Busy # {}
    /\ pc' = [h \in Handlers |-> "idle"]
    /\ job' = [h \in Handlers |-> NoJob]
    /\ list' = [h \in Handlers |-> Nobody]
    /\ UNCHANGED <<fixed, session, friends, entered>>

Next ==
    \/ \E h \in Handlers :
         Receive(h) \/ Reject(h) \/ Process(h) \/ ReadFriends(h)
         \/ WriteFriends(h) \/ StorageFails(h)
    \/ Restart

Spec == Init /\ [][Next]_vars

-----------------------------------------------------------------------------
(* Every variable has its type. *)
TypeOK ==
    /\ overlap \in BOOLEAN
    /\ name \in [Sessions -> Actors]
    /\ session \in [Sessions -> Snapshots]
    /\ friends \in [Actors -> Nat]
    /\ pc \in [Handlers -> {"idle", "process", "befriend", "save"}]
    /\ job \in [Handlers -> [session : Sessions, event : Events, next : Snapshots]]
    /\ list \in [Handlers -> [Actors -> Nat]]
    /\ entered \in [Sessions -> SUBSET Sides]

(* However handlers interleave over stale snapshots, and whatever restarts  *)
(* interrupt, a friend is recorded only for a session into which the local  *)
(* human and the peer have both entered.                                    *)
FriendshipNeedsBoth ==
    \A a \in Actors : friends[a] > 0 =>
        \E s \in Sessions : name[s] = a /\ entered[s] = Sides

(* "Repeated writes for the same peer_actor_id do not duplicate records":   *)
(* this holds for overlapping writers too, because each writes the whole    *)
(* list it has checked, at the price of losing what others wrote meanwhile. *)
OneRecordPerActor == \A a \in Actors : friends[a] <= 1

(* While handlers do not overlap, sessions and friendships are what the     *)
(* layers above rely on: MutualEntry, restarts and failures included.       *)
Status(snap) == CASE snap.state = "MUTUAL_ENTRY_CONFIRMED" -> "mutual"
                  [] snap.state = "CLOSED" -> "closed"
                  [] OTHER -> "open"
Abstract == INSTANCE MutualEntry WITH
    status  <- [s \in Sessions |-> IF overlap THEN "open" ELSE Status(session[s])],
    entered <- [s \in Sessions |-> IF overlap THEN {} ELSE session[s].entered],
    friends <- IF overlap THEN {} ELSE {a \in Actors : friends[a] > 0}
ImplementsMutualEntry == Abstract!Spec

(* "Terminal rule: CLOSED/FAILED reject all".                               *)
ClosedStaysClosed ==
    [][\A s \in Sessions : session[s].state \in Terminal => session'[s] = session[s]]_vars
=============================================================================
