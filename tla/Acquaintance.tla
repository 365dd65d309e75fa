---------------------------- MODULE Acquaintance ----------------------------
(***************************************************************************)
(* How an agent gets to know a peer (src/social, src/memory): its live     *)
(* runs discover the peer, shake hands and exchange profiles; the peer's   *)
(* messages are handled as they come; and a human says whether the peer is *)
(* of interest.  Each of them loads data/local_agent_memory.json, changes  *)
(* the record of the peer in its copy, writes local_agent_memory.json.tmp  *)
(* and renames it, and nothing keeps them apart.                           *)
(***************************************************************************)
EXTENDS Naturals

CONSTANTS None, MaxHandshakes

VARIABLES
    memory,     \* the state of the peer in the file, a Rank
    tmp,        \* the temporary file: a Rank or None
    copy,       \* the Rank each update loaded, or None when it does not run
    written,    \* the updates that wrote the temporary file, to rename it
    live,       \* the position of the live run
    pending,    \* the human is asked whether the peer is of interest
    due,        \* the answer to the turn 1 of this live run comes
    shaken      \* the handshakes the peer sent

acquaintanceVars == <<memory, tmp, copy, written, live, pending, due, shaken>>

(* DEFAULT_RELATIONSHIP_STATES: none, discovered, introduced, engaged,      *)
(* interested; nothing that runs makes a friend.  last_handshake_at and     *)
(* last_dialogue_at are set in the same records as introduced and engaged.  *)
Rank == 0..4
Updates == {"discover", "shake", "engage", "handshake", "profile", "interest"}
Target(u) ==
    CASE u = "discover" -> 1
      [] u \in {"shake", "handshake"} -> 2
      [] u \in {"engage", "profile"} -> 3
      [] u = "interest" -> 4

Init ==
    /\ memory = 0 /\ tmp = None
    /\ copy = [u \in Updates |-> None]
    /\ written = {}
    /\ live = "idle"
    /\ pending = FALSE /\ due = FALSE
    /\ shaken = 0

Goto(at) == live' = at

-----------------------------------------------------------------------------
(* loadLocalAgentMemory, upsertLocalAgentMemoryRecord and                   *)
(* saveLocalAgentMemory in two steps.  The rename of an update whose file   *)
(* another one renamed fails (Renames is then FALSE), and it throws.        *)
Load(u) == copy' = [copy EXCEPT ![u] = memory]
Idle(u) == copy[u] = None
Upgraded_Always(cur, next) == next                                   \* mutant
Upgraded(cur, next) == IF next > cur THEN next ELSE cur
Write(u) ==
    /\ ~Idle(u) /\ u \notin written /\ (u = "shake" => live = "shaking")
    /\ tmp' = Upgraded(copy[u], Target(u))
    /\ written' = written \cup {u}
    /\ UNCHANGED <<memory, copy, live, pending, due, shaken>>
Renames == tmp # None
Saved(u) ==
    /\ u \in written
    /\ memory' = IF Renames THEN tmp ELSE memory
    /\ tmp' = None
    /\ copy' = [copy EXCEPT ![u] = None]
    /\ written' = written \ {u}

-----------------------------------------------------------------------------
(* runAgentSocialEngineLiveRun with the peer as its top candidate: first    *)
(* upsertDiscoveredAgent, whose failure is ignored.                         *)
StartRun ==
    /\ live = "idle"
    /\ Load("discover")
    /\ Goto("discovering")
    /\ UNCHANGED <<memory, tmp, written, pending, due, shaken>>
Discovered ==
    /\ Saved("discover")
    /\ Goto("gate")
    /\ UNCHANGED <<pending, due, shaken>>

(* The handshake goes out between the load and the save of this step.       *)
Gate ==
    /\ live = "gate"
    /\ IF memory = 1 THEN Load("shake") /\ Goto("sending")
                     ELSE Goto("check") /\ UNCHANGED copy
    /\ UNCHANGED <<memory, tmp, written, pending, due, shaken>>
SendHandshake ==
    /\ live = "sending"
    /\ \/ Goto("shaking") /\ UNCHANGED copy
       \/ Goto("check") /\ copy' = [copy EXCEPT !["shake"] = None]
    /\ UNCHANGED <<memory, tmp, written, pending, due, shaken>>
(* A save that throws ends the steps before candidate_found. *)
Shook ==
    /\ Saved("shake")
    /\ Goto(IF Renames THEN "check" ELSE "idle")
    /\ UNCHANGED <<pending, due, shaken>>

(* sendAgentProfileExchange, to a peer that was introduced and no more: turn*)
(* 1 goes out or not, and its answer is waited for.  An answer that comes   *)
(* later has another dialogue_id than the next one waited for.              *)
MayExchange(rank) == rank = 2
Exchange ==
    /\ live = "check"
    /\ \/ MayExchange(memory) /\ Goto("waiting") /\ due' \in BOOLEAN
       \/ Goto("idle") /\ due' = FALSE
    /\ UNCHANGED <<memory, tmp, copy, written, pending, shaken>>
Answered ==
    /\ live = "waiting" /\ due
    /\ Load("engage")
    /\ Goto("engaging")
    /\ UNCHANGED <<memory, tmp, written, pending, due, shaken>>
TimeOut ==
    /\ live = "waiting"
    /\ Goto("idle")
    /\ UNCHANGED <<memory, tmp, copy, written, pending, due, shaken>>
(* registerPendingInterestPrompt, if the save did not throw.                *)
Prompted == pending \/ Renames
Engaged ==
    /\ Saved("engage")
    /\ Goto("idle")
    /\ pending' = Prompted
    /\ UNCHANGED <<due, shaken>>

-----------------------------------------------------------------------------
(* createRelayInboundHandler, whose calls overlap: receiveAgentHandshake and*)
(* receiveAgentProfileExchange, which takes the peer's own turn 1 and late  *)
(* answers alike.  The peer shakes hands while it has only discovered us.   *)
Comes(u) ==
    CASE u = "handshake" -> shaken < MaxHandshakes
      [] u = "profile" -> TRUE
      [] OTHER -> FALSE
Receive(u) ==
    /\ Comes(u) /\ Idle(u)
    /\ Load(u)
    /\ shaken' = IF u = "handshake" THEN shaken + 1 ELSE shaken
    /\ UNCHANGED <<memory, tmp, written, live, pending, due>>
Applied(u) ==
    /\ u \in {"handshake", "profile"}
    /\ Saved(u)
    /\ UNCHANGED <<live, pending, due, shaken>>

(* handleInterestDecision: 1 marks the peer, and the prompt goes after the  *)
(* save; 2 just takes the prompt away.  A restart forgets the prompt.       *)
SayYes ==
    /\ pending /\ Idle("interest")
    /\ Load("interest")
    /\ UNCHANGED <<memory, tmp, written, live, pending, due, shaken>>
MarkedInterested ==
    /\ Saved("interest")
    /\ pending' = (pending /\ ~Renames)
    /\ UNCHANGED <<live, due, shaken>>
SayNo ==
    /\ pending /\ pending' = FALSE
    /\ UNCHANGED <<memory, tmp, copy, written, live, due, shaken>>

LiveStep == StartRun \/ Discovered \/ Gate \/ SendHandshake \/ Shook \/ Exchange \/ Engaged
Next ==
    \/ LiveStep \/ Answered \/ TimeOut
    \/ SayYes \/ MarkedInterested \/ SayNo
    \/ \E u \in Updates : Receive(u) \/ Applied(u) \/ Write(u)

-----------------------------------------------------------------------------
(* Every variable has its type. *)
TypeOK ==
    /\ memory \in Rank /\ tmp \in Rank \cup {None}
    /\ copy \in [Updates -> Rank \cup {None}]
    /\ written \subseteq Updates
    /\ live \in {"idle", "discovering", "gate", "sending", "shaking", "check", "waiting",
                 "engaging"}
    /\ pending \in BOOLEAN /\ due \in BOOLEAN
    /\ shaken \in 0..MaxHandshakes

(* Updates that run one after the other take nothing back: the state falls  *)
(* only if another update runs too, or had run since this one loaded.       *)
Alone == \E v \in Updates : copy[v] = memory /\ \A u \in Updates \ {v} : Idle(u)
NothingUnlearned == Alone => memory' >= memory

=============================================================================
