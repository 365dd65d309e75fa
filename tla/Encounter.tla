------------------------------ MODULE Encounter ------------------------------
(***************************************************************************)
(* From an introduction to a friendship record: machine A decides to       *)
(* proceed after a discovery or a conversation, sends phase 3 probes over  *)
(* the relay, and machine B passes each payload through formalInboundEntry *)
(* (src/runtime/inbound), which applies the probe to B's phase 3 state,    *)
(* makes a friendship candidate when the session reaches PROBING, and      *)
(* confirms it as the payload asks.  The machines are those of the scripts *)
(* *_two_machine_relay_e2e.mjs, which are the callers of these functions:  *)
(* harness says which of them runs.  Messages stay in order and may be     *)
(* lost; A may be run again; B keeps its state in memory.                  *)
(***************************************************************************)
EXTENDS Naturals, Sequences

CONSTANTS MaxRuns     \* bound: how often A is run

VARIABLES
    harness,      \* which pair of machines runs
    plan,         \* the payloads A has still to send
    probes,       \* the payloads on their way
    held,         \* B's phase3State, FreshSession when it is null
    runsOfA,
    candidates,   \* history: the candidates B made, [session, confirmed]
    friendships,  \* history: the sessions B made a friendship record for
    opened        \* history: the sessions whose INIT this process of B accepted

encounterVars == <<harness, plan, probes, held, runsOfA, candidates, friendships, opened>>

Harnesses == {"phase3", "handoff", "friendship"}
ProbeSessions == {"s1", "sess_df_remote_1", "sess_cf_remote_1"}
Kinds == {"INIT", "ACK", "NOPE"}
States == {"NEW", "LOCAL_ENTERED", "REMOTE_ENTERED", "PROBING"}
Confirms == SUBSET {"local", "remote"}
Payloads == [kind : Kinds, session : ProbeSessions, confirm : Confirms]
Probe(k, s) == [kind |-> k, session |-> s, confirm |-> {}]
Confirming(s, c) == [kind |-> "ACK", session |-> s, confirm |-> c]

(* normalizeState of a missing state: no session yet. *)
NoSession == "no session"
FreshSession == [session |-> NoSession, state |-> "NEW"]

Init ==
    /\ harness \in Harnesses
    /\ plan = <<>> /\ probes = <<>>
    /\ held = FreshSession
    /\ runsOfA = 0
    /\ candidates = {} /\ friendships = {} /\ opened = {}

-----------------------------------------------------------------------------
(* createDiscoveryInteraction and createConversationSurface offer choices;  *)
(* only one of each makes a handoff, the others end here.                   *)
DiscoveryActions == {"PROCEED", "SKIP"}
DiscoveryProceeds(action) == action = "PROCEED"
SurfaceActions == {"CONTINUE", "SKIP", "HANDOFF_TO_FRIENDSHIP"}
SurfaceProceeds(action) == action = "HANDOFF_TO_FRIENDSHIP"

(* startPhase3ProbeFrom...Handoff prepares the first probe. *)
DiscoveryProbe == Probe("INIT", "sess_df_remote_1")
ConversationProbe == Probe("INIT", "sess_cf_remote_1")

(* What machine A of each script sends.  An unknown kind is refused         *)
(* whatever its session.                                                    *)
Phase3Plan == <<Probe("INIT", "s1"), Probe("ACK", "s1"), Probe("NOPE", "s1")>>
FriendshipPlan == <<Confirming("s1", {"local", "remote"}), Confirming("s1", {"remote"})>>
DiscoveryPlan(action) ==
    IF DiscoveryProceeds(action) THEN <<DiscoveryProbe, Probe("NOPE", "s1")>> ELSE <<>>
ConversationPlan(action) ==
    IF SurfaceProceeds(action) THEN <<ConversationProbe, Probe("NOPE", "s1")>> ELSE <<>>
Plans ==
    CASE harness = "phase3" -> {Phase3Plan}
      [] harness = "friendship" -> {FriendshipPlan}
      [] harness = "handoff" -> {DiscoveryPlan(a) : a \in DiscoveryActions}
                                  \cup {ConversationPlan(a) : a \in SurfaceActions}

RunA ==
    /\ plan = <<>> /\ runsOfA < MaxRuns
    /\ plan' \in Plans
    /\ runsOfA' = runsOfA + 1
    /\ UNCHANGED <<harness, probes, held, candidates, friendships, opened>>

(* One executeTransport after the other, each through the relay; what the   *)
(* relay cannot deliver is gone and A sees no error.                        *)
Send ==
    /\ plan # <<>>
    /\ probes' \in {probes, Append(probes, Head(plan))}
    /\ plan' = Tail(plan)
    /\ UNCHANGED <<harness, held, runsOfA, candidates, friendships, opened>>

-----------------------------------------------------------------------------
(* applySessionProbeMessage: the state after the probe, or "refused". *)
Illegal == [session |-> NoSession, state |-> "refused"]
Applied_AnyAck(base, m) ==                                           \* mutant
    CASE m.kind = "INIT" /\ base.state = "NEW" -> [session |-> m.session, state |-> "LOCAL_ENTERED"]
      [] m.kind = "ACK" /\ base.state # "PROBING" -> [session |-> m.session, state |-> "PROBING"]
      [] OTHER -> Illegal
Applied(base, m) ==
    IF base.session \notin {NoSession, m.session} THEN Illegal
    ELSE CASE m.kind = "INIT" /\ base.state = "NEW" ->
                [session |-> m.session, state |-> "LOCAL_ENTERED"]
           [] m.kind = "ACK" /\ base.state = "LOCAL_ENTERED" ->
                [session |-> m.session, state |-> "PROBING"]
           [] OTHER -> Illegal

(* The state B's protocolProcessor gives with the probe: its own, but for   *)
(* an INIT of the phase 3 script a new one, and in the friendship script    *)
(* always one that is ready for the ACK.                                    *)
Phase3Base(m) == IF m.kind = "ACK" THEN held ELSE FreshSession
FriendshipBase(m) == [session |-> m.session, state |-> "LOCAL_ENTERED"]
HandoffBase == held
Base(m) ==
    CASE harness = "phase3" -> Phase3Base(m)
      [] harness = "friendship" -> FriendshipBase(m)
      [] harness = "handoff" -> HandoffBase

(* createFriendshipCandidate, confirmFriendshipCandidateLocally, and        *)
(* ...Remotely, which refuses a candidate that is not confirmed locally;    *)
(* then the record.                                                         *)
Candidate(m) == [session |-> m.session, confirmed |-> m.confirm]
LocallyConfirmed(m) == "local" \in m.confirm
Refused_Never(m) == FALSE                                            \* mutant
Refused(m) == "remote" \in m.confirm /\ ~LocallyConfirmed(m)
Befriends(m) == "remote" \in m.confirm

(* handleRelayInbound takes the payloads in order, formalInboundEntry serves*)
(* one.  B's script stores the new state only if the whole call succeeded;  *)
(* the friendship script stores none.                                       *)
NextProbe == Head(probes)
Receive ==
    /\ probes # <<>>
    /\ probes' = Tail(probes)
    /\ LET m == NextProbe
           next == Applied(Base(m), m)
           probing == next.state = "PROBING"
           ok == next # Illegal /\ ~(probing /\ Refused(m))
       IN /\ held' = IF ok /\ harness # "friendship" THEN next ELSE held
          /\ opened' = IF next.state = "LOCAL_ENTERED" THEN opened \cup {m.session} ELSE opened
          /\ candidates' = IF probing /\ ok
                             THEN candidates \cup {Candidate(m)}
                             ELSE candidates
          /\ friendships' = IF probing /\ ok /\ Befriends(m) THEN friendships \cup {m.session}
                                                             ELSE friendships
    /\ UNCHANGED <<harness, plan, runsOfA>>

(* A new process of machine B. *)
RestartB ==
    /\ held' = FreshSession
    /\ opened' = {}
    /\ candidates' = {} /\ friendships' = {}
    /\ UNCHANGED <<harness, plan, probes, runsOfA>>

Next == RunA \/ Send \/ Receive \/ RestartB
-----------------------------------------------------------------------------
(* Every variable has its type. *)
TypeOK ==
    /\ harness \in Harnesses
    /\ plan \in Seq(Payloads) /\ probes \in Seq(Payloads)
    /\ held \in [session : ProbeSessions \cup {NoSession}, state : States]
    /\ runsOfA \in 0..MaxRuns
    /\ candidates \subseteq [session : ProbeSessions, confirmed : Confirms]
    /\ friendships \subseteq ProbeSessions /\ opened \subseteq ProbeSessions

(* Whatever the relay loses and however often A and B start again, a peer   *)
(* becomes a candidate only in a session that this process of B saw opened  *)
(* (the friendship script, which makes that state up, apart), and a         *)
(* friendship is recorded only for a candidate both sides confirmed.        *)
FriendsWereProbed ==
    /\ harness # "friendship" => \A c \in candidates : c.session \in opened
    /\ \A s \in friendships :
         \E c \in candidates : c.session = s /\ c.confirmed = {"local", "remote"}
=============================================================================
