------------------------------ MODULE Dialogue ------------------------------
(***************************************************************************)
(* The six turns of a dialogue between two agents (src/social): the runner *)
(* asks in turns 1, 3 and 5, the peer's receiver answers in 2, 4 and 6, and*)
(* the runner saves a transcript at the end.  Three flows differ: the      *)
(* activity dialogue is guarded on both sides (the receiver remembers the  *)
(* last turn in memory, the runner always closes its client); the          *)
(* experience dialogue is not; the goal driven one first asks the relay    *)
(* whether the peer is healthy.                                            *)
(***************************************************************************)
EXTENDS Naturals

CONSTANTS Dialogues, MaxRestarts

VARIABLES
    flow,        \* the flow of each dialogue, "none" before it starts
    at,          \* the runner: the last turn it sent or took, "done", "failed"
    inbox,       \* the answers delivered to the runner and not taken yet
    subscribed,  \* the dialogues whose relay client was not closed
    saved,       \* the dialogues with a transcript
    sent,        \* history: the turns handed to a relay that took them
    lastTurn,    \* the receiver's session of each dialogue, in memory
    answering,   \* the turns the receiver works on
    answers,     \* history: the answers in this life of the receiver
    askerUp, peerUp,   \* the relay connections of both nodes
    restarts     \* of the receiver, so far

dialogueVars == <<flow, at, inbox, subscribed, saved, sent, lastTurn, answering,
                  answers, askerUp, peerUp, restarts>>
asker == <<flow, at, inbox, subscribed, saved>>
receiver == <<lastTurn, answering, answers>>
environment == <<askerUp, peerUp, restarts>>

Flows == {"activity", "experience", "goal"}
Asks == {1, 3, 5}

Init ==
    /\ flow = [d \in Dialogues |-> "none"]
    /\ at = [d \in Dialogues |-> "none"]
    /\ inbox = [d \in Dialogues |-> {}]
    /\ subscribed = {} /\ saved = {} /\ sent = {}
    /\ lastTurn = [d \in Dialogues |-> 0]
    /\ answering = {}
    /\ answers = [d \in Dialogues |-> [t \in Asks |-> 0]]
    /\ askerUp = FALSE /\ peerUp = TRUE
    /\ restarts = 0

Goto(d, turn) == at' = [at EXCEPT ![d] = turn]

-----------------------------------------------------------------------------
(* checkPeerRelayHealth: a peer that is listed is healthy, or degraded by   *)
(* recent drops or one unregister, or unhealthy by more; a dead relay and   *)
(* an unlisted peer are unknown.                                            *)
HealthOf(listed, drops, unregisters) ==
    CASE ~listed -> "unknown"
      [] listed /\ unregisters > 1 -> "unhealthy"
      [] listed /\ unregisters < 2 /\ (unregisters = 1 \/ drops) -> "degraded"
      [] OTHER -> "healthy"
(* The runner.  Connecting subscribes to what the relay delivers, also when *)
(* the relay cannot be reached; the goal driven flow refuses a peer that    *)
(* the relay does not know or whose sessions come and go.                   *)
Ready(f, health) == f = "goal" => health \in {"healthy", "degraded"}
Start(d) ==
    /\ at[d] = "none"
    /\ \E f \in Flows, listed, drops \in BOOLEAN, unregisters \in 0..2 :
         LET ready == Ready(f, HealthOf(listed, drops, unregisters))
         IN /\ flow' = [flow EXCEPT ![d] = f]
            /\ Goto(d, IF ready THEN "connected" ELSE "failed")
            /\ subscribed' = IF ready THEN subscribed \cup {d} ELSE subscribed
    /\ UNCHANGED <<inbox, saved, sent, receiver, environment>>

(* Leaving early: only the activity runner closes its client whatever       *)
(* happens (finally); the goal driven one closes before it writes.          *)
Closes(d) == flow[d] = "activity" \/ (flow[d] = "goal" /\ at[d] = "took_6")
Leave(d) ==
    /\ Goto(d, "failed")
    /\ subscribed' = IF Closes(d) THEN subscribed \ {d} ELSE subscribed
    /\ UNCHANGED <<flow, inbox, saved>>

NextTurn(d) == CASE at[d] = "connected" -> 1 [] at[d] = "took_2" -> 3 [] at[d] = "took_4" -> 5 [] OTHER -> 0
Sent(turn) == CASE turn = 1 -> "sent_1" [] turn = 3 -> "sent_3" [] turn = 5 -> "sent_5"
Ask(d) ==
    /\ NextTurn(d) # 0
    /\ \/ /\ askerUp
          /\ sent' = sent \cup {<<d, NextTurn(d)>>}
          /\ Goto(d, Sent(NextTurn(d)))
          /\ UNCHANGED <<flow, inbox, subscribed, saved>>
       \/ ~askerUp /\ Leave(d) /\ UNCHANGED sent
    /\ UNCHANGED <<receiver, environment>>

(* waitForTurn takes the first message of the dialogue with that turn.      *)
Waits(d) == CASE at[d] = "sent_1" -> 2 [] at[d] = "sent_3" -> 4 [] at[d] = "sent_5" -> 6 [] OTHER -> 0
Matches_AnyTurn(d) == IF Waits(d) = 0 THEN {} ELSE inbox[d]          \* mutant
Matches(d) == inbox[d] \cap {Waits(d)}
Took(turn) == CASE turn = 2 -> "took_2" [] turn = 4 -> "took_4" [] turn = 6 -> "took_6"
Take(d) ==
    /\ Matches(d) # {}
    /\ Goto(d, Took(Waits(d)))
    /\ inbox' = [inbox EXCEPT ![d] = @ \ Matches(d)]
    /\ UNCHANGED <<flow, subscribed, saved, sent, receiver, environment>>
TimeOut(d) ==
    /\ Waits(d) # 0
    /\ Leave(d)
    /\ UNCHANGED <<sent, receiver, environment>>

(* The transcript is saved after turn 6, or saving throws. *)
Finish(d) ==
    /\ at[d] = "took_6"
    /\ \/ /\ saved' = saved \cup {d}
          /\ subscribed' = subscribed \ {d}
          /\ Goto(d, "done")
          /\ UNCHANGED <<flow, inbox>>
       \/ Leave(d)
    /\ UNCHANGED <<sent, receiver, environment>>

(* The relay delivers an answer to the asker's process: to its client if it *)
(* is still subscribed, and else to nobody.                                 *)
Deliver(d, turn) ==
    /\ <<d, turn>> \in sent /\ turn \notin Asks
    /\ askerUp /\ d \in subscribed /\ turn \notin inbox[d]
    /\ inbox' = [inbox EXCEPT ![d] = @ \cup {turn}]
    /\ UNCHANGED <<flow, at, subscribed, saved, sent, receiver, environment>>

-----------------------------------------------------------------------------
(* The receiver, through createRelayInboundHandler, whose calls are not     *)
(* awaited.  A turn may come again.  receiveAgentActivityDialogue notes the *)
(* turn before it awaits anything; receiveAgentExperienceDialogue, which    *)
(* also serves the goal driven flow, keeps no state.                        *)
IsNew(d, turn) == flow[d] = "activity" => turn > lastTurn[d]
Noted_AfterReply(d, turn) == lastTurn                                \* mutant
Noted(d, turn) == IF flow[d] = "activity" THEN [lastTurn EXCEPT ![d] = turn] ELSE lastTurn
Receive(d, turn) ==
    /\ <<d, turn>> \in sent /\ turn \in Asks /\ peerUp
    /\ IsNew(d, turn) /\ <<d, turn>> \notin answering
    /\ lastTurn' = Noted(d, turn)
    /\ answering' = answering \cup {<<d, turn>>}
    /\ UNCHANGED <<asker, sent, answers, environment>>

(* The answer; without the relay it is lost, and nobody asks again.  The    *)
(* activity receiver answers what it noted; the experience receiver builds  *)
(* the next turn from the payload alone.                                    *)
Replied(d, turn) ==
    /\ <<d, turn>> \in answering
    /\ answering' = answering \ {<<d, turn>>}
    /\ answers' = [answers EXCEPT ![d][turn] = IF @ < 2 THEN @ + 1 ELSE @]
    /\ sent' = IF peerUp THEN sent \cup {<<d, turn + 1>>} ELSE sent
    /\ UNCHANGED <<asker, lastTurn, environment>>
AnswerActivity(d, turn) == flow[d] = "activity" /\ Replied(d, turn)
AnswerExperience(d, turn) == flow[d] # "activity" /\ Replied(d, turn)

(* The receiver's process restarts: the sessions and the work are gone.     *)
Restart ==
    /\ restarts < MaxRestarts
    /\ restarts' = restarts + 1
    /\ lastTurn' = [d \in Dialogues |-> 0]
    /\ answering' = {}
    /\ answers' = [d \in Dialogues |-> [t \in Asks |-> 0]]
    /\ UNCHANGED <<asker, sent, askerUp, peerUp>>

LinkChanges ==
    /\ \/ askerUp' = ~askerUp /\ UNCHANGED peerUp
       \/ peerUp' = ~peerUp /\ UNCHANGED askerUp
    /\ UNCHANGED <<asker, sent, receiver, restarts>>

Runs(d) == Ask(d) \/ Take(d) \/ TimeOut(d) \/ Finish(d)
Next ==
    \/ \E d \in Dialogues :
         \/ Start(d) \/ Runs(d)
         \/ \E turn \in 1..6 :
              \/ Deliver(d, turn) \/ Receive(d, turn)
              \/ AnswerActivity(d, turn) \/ AnswerExperience(d, turn)
    \/ Restart \/ LinkChanges

-----------------------------------------------------------------------------
Turns == {"none", "connected", "sent_1", "took_2", "sent_3", "took_4", "sent_5",
          "took_6", "done", "failed"}
(* Every variable has its type. *)
TypeOK ==
    /\ flow \in [Dialogues -> {"none"} \cup Flows]
    /\ at \in [Dialogues -> Turns]
    /\ inbox \in [Dialogues -> SUBSET {2, 4, 6}]
    /\ subscribed \subseteq Dialogues /\ saved \subseteq Dialogues
    /\ sent \subseteq Dialogues \X (1..6)
    /\ lastTurn \in [Dialogues -> {0} \cup Asks]
    /\ answering \subseteq Dialogues \X Asks
    /\ answers \in [Dialogues -> [Asks -> 0..2]]
    /\ askerUp \in BOOLEAN /\ peerUp \in BOOLEAN
    /\ restarts \in 0..MaxRestarts

(* A transcript is saved only of a dialogue whose six turns were all sent,  *)
(* and in one life of the receiver an activity turn is answered once,       *)
(* however often and in whatever overlap it is delivered.                   *)
DialogueSound ==
    \A d \in Dialogues :
        /\ d \in saved => \A turn \in 1..6 : <<d, turn>> \in sent
        /\ flow[d] = "activity" => \A turn \in Asks : answers[d][turn] < 2
=============================================================================
