----------------------------- MODULE TaskDelivery -----------------------------
(***************************************************************************)
(* Broadcast of a node's own tasks, src/runtime/network/                   *)
(* taskMessageFlowV0_1.mjs: the outbound tick sends task.publish to the    *)
(* configured targets, again and again until each has acknowledged or the  *)
(* attempts are used up; the handlers of task.publish.ack and task.result  *)
(* update the same tasks.json.                                             *)
(*                                                                         *)
(* The tick loads the table once, walks over its tasks and saves the whole *)
(* table whenever one of them changed; a handler loads, changes and saves. *)
(* Loads and saves are steps of their own, and between them others run.    *)
(* env names the liberties a behaviour may take, the configured targets and *)
(* how many tasks there will be:                                           *)
(*   "loss"     messages may be lost                                       *)
(*   "overlap"  handlers may run while a tick or a handler is unfinished   *)
(*   "crash"    the node may restart                                       *)
(*   "retarget" a restart may change TASK_PUBLISH_TO                       *)
(***************************************************************************)
EXTENDS Integers, FiniteSets

CONSTANTS Peers,
          LastTask,      \* tasks are 1..LastTask, in the order of the table
          MaxAttempts,   \* deliveryMaxAttempts
          MaxHandlers,   \* bound: handlers between their load and save
          MaxRestarts,   \* bound: restarts in a behaviour
          Envs           \* the environments to explore

ASSUME TaskDeliveryAssumption ==
    /\ IsFiniteSet(Peers)
    /\ LastTask \in Nat \ {0} /\ MaxAttempts \in Nat /\ MaxHandlers \in Nat /\ MaxRestarts \in Nat
    /\ Envs \subseteq [may : SUBSET {"loss", "overlap", "crash", "retarget"},
                       targets : SUBSET Peers, tasks : 1..LastTask]

VARIABLES
    env,       \* the environment, fixed at the start
    restarts,  \* restarts so far
    targets,   \* the list in TASK_PUBLISH_TO
    disk,      \* tasks.json
    pc,        \* where the outbound tick is
    pos,       \* the task the tick looks at
    snap,      \* the table the tick loaded and changes
    held,      \* handlers that have loaded and not yet saved
    net,       \* messages in transit
    stored,    \* history: the tasks each peer has stored
    answered,  \* history: the tasks each peer has sent a result for
    rounds     \* history: rounds of task.publish sent per task, up to TooMany

context == <<env, restarts, targets>>
tick == <<pc, pos, snap>>
history == <<stored, answered, rounds>>
vars == <<context, disk, tick, held, net, history>>

Tasks == 1..LastTask
May(liberty) == liberty \in env.may
TooMany == MaxAttempts + 1

(* "done" is any status but published: task_result_received is set with it. *)
(* on says whether meta.publish_delivery exists; its pending_peers are      *)
(* always recomputed from targets and acked_peers.                          *)
Entries == [status : {"absent", "published", "done"}, on : BOOLEAN,
            targets : SUBSET Peers, acked : SUBSET Peers, attempts : 0..MaxAttempts,
            complete : BOOLEAN, incomplete : BOOLEAN]
Absent == [status |-> "absent", on |-> FALSE, targets |-> {}, acked |-> {},
           attempts |-> 0, complete |-> FALSE, incomplete |-> FALSE]
Empty == [t \in Tasks |-> Absent]
Pending(d) == d.targets \ d.acked

Message(kind, p, t) == [kind |-> kind, peer |-> p, task |-> t]
Messages == [kind : {"publish", "ack", "result"}, peer : Peers, task : Tasks]

Init ==
    /\ env \in Envs
    /\ restarts = 0
    /\ targets = env.targets
    /\ disk = Empty
    /\ pc = "idle" /\ pos = 1 /\ snap = Empty
    /\ held = {}
    /\ net = {}
    /\ stored = [p \in Peers |-> {}]
    /\ answered = [p \in Peers |-> {}]
    /\ rounds = [t \in Tasks |-> 0]

-----------------------------------------------------------------------------
(* The outbound tick.  Its steps between two awaits touch only snap.        *)
Quiet == held = {} /\ pc = "idle"

TickStart ==
    /\ pc = "idle"
    /\ IF May("overlap") THEN \A u \in held : u.op # "create" ELSE Quiet
    /\ pc' = "visit" /\ pos' = 1 /\ snap' = disk
    /\ UNCHANGED <<context, disk, held, net, history>>

Step(from, to) == pc = from /\ pc' = to

Advance ==
    IF pos < LastTask THEN pc' = "visit" /\ pos' = pos + 1 /\ snap' = snap
                      ELSE pc' = "idle" /\ pos' = 1 /\ snap' = Empty

Skip ==
    /\ pc = "visit"
    /\ snap[pos].status # "published" \/ targets = {}
    /\ Advance
    /\ UNCHANGED <<context, disk, held, net, history>>

(* publish_delivery is created and saved, or its targets are refreshed.     *)
NewDelivery_Always(t) == TRUE                                        \* mutant
NewDelivery(t) == ~snap[t].on

Visit ==
    /\ snap[pos].status = "published" /\ targets # {}
    /\ IF NewDelivery(pos)
       THEN /\ Step("visit", "save-new")
            /\ snap' = [snap EXCEPT ![pos] = [Absent EXCEPT !.status = "published",
                                                            !.on = TRUE, !.targets = targets]]
       ELSE /\ Step("visit", "examine")
            /\ snap' = [snap EXCEPT ![pos].targets = targets]
    /\ UNCHANGED <<context, disk, pos, held, net, history>>

Delivered(d) == Pending(d) = {}

(* Delivery is complete, or the attempts are used up: noted once.           *)
Concluded ==
    /\ pc = "examine"
    /\ \/ Delivered(snap[pos]) /\ snap[pos].complete
       \/ ~Delivered(snap[pos]) /\ snap[pos].attempts >= MaxAttempts /\ snap[pos].incomplete
    /\ Advance
    /\ UNCHANGED <<context, disk, held, net, history>>

Conclude ==
    /\ Step("examine", "save-end")
    /\ \/ /\ Delivered(snap[pos]) /\ ~snap[pos].complete
          /\ snap' = [snap EXCEPT ![pos].complete = TRUE]
       \/ /\ ~Delivered(snap[pos]) /\ snap[pos].attempts >= MaxAttempts /\ ~snap[pos].incomplete
          /\ snap' = [snap EXCEPT ![pos].incomplete = TRUE]
    /\ UNCHANGED <<context, disk, pos, held, net, history>>

CanTry(d) == ~Delivered(d) /\ d.attempts < MaxAttempts

(* The retry interval has not passed; the first attempt is always due.      *)
NotDue ==
    /\ pc = "examine" /\ CanTry(snap[pos]) /\ snap[pos].attempts > 0
    /\ Advance
    /\ UNCHANGED <<context, disk, held, net, history>>

(* "Persist delivery state before sending, so ACK handler can always find   *)
(* it."                                                                     *)
Counted_After(d) == d                                                \* mutant
Counted(d) == [d EXCEPT !.attempts = @ + 1]

Try ==
    /\ CanTry(snap[pos])
    /\ Step("examine", "save-try")
    /\ snap' = [snap EXCEPT ![pos] = Counted(@)]
    /\ UNCHANGED <<context, disk, pos, held, net, history>>

(* saveTasks: the whole table the tick holds replaces the file.             *)
TickSave ==
    /\ disk' = snap
    /\ \/ Step("save-new", "examine")
       \/ Step("save-try", "send")
       \/ Step("save-end", "next")
    /\ UNCHANGED <<context, pos, snap, held, net, history>>

Recipients_Acked(d) == d.acked                                       \* mutant
Recipients(d) == Pending(d)

Broadcast ==
    /\ Step("send", "next")
    /\ net' = net \cup {Message("publish", p, pos) : p \in Recipients(snap[pos])}
    /\ rounds' = [rounds EXCEPT ![pos] = IF @ < TooMany THEN @ + 1 ELSE @]
    /\ UNCHANGED <<context, disk, pos, snap, held, stored, answered>>

TickNext ==
    /\ pc = "next"
    /\ Advance
    /\ UNCHANGED <<context, disk, held, net, history>>

Tick == \/ TickStart \/ Skip \/ Visit \/ Concluded \/ Conclude \/ NotDue
        \/ Try \/ TickSave \/ Broadcast \/ TickNext

-----------------------------------------------------------------------------
(* Handlers and other updates of the file.  MaxHandlers bounds how many are *)
(* between load and save at a time.                                         *)
CanLoad == IF May("overlap") THEN Cardinality(held) < MaxHandlers ELSE Quiet
Load(op, p, t) == held' = held \cup {[op |-> op, peer |-> p, task |-> t, snap |-> disk]}

(* publishTask: the loop that also ticks adds the node's next task.         *)
Created == {t \in Tasks : disk[t].status # "absent"}

Create ==
    /\ pc = "idle" /\ CanLoad
    /\ \A u \in held : u.op # "create"
    /\ Cardinality(Created) < env.tasks
    /\ Load("create", CHOOSE p \in Peers : TRUE, Cardinality(Created) + 1)
    /\ UNCHANGED <<context, disk, tick, net, history>>

(* A handler for a task of another node (task.publish, task.claim) saves    *)
(* the tasks of this module as it loaded them.                              *)
OtherTask ==
    /\ May("overlap") /\ CanLoad
    /\ Load("other", CHOOSE p \in Peers : TRUE, 1)
    /\ UNCHANGED <<context, disk, tick, net, history>>

Receives(m) == m \in net /\ net' = net \ {m}

(* task.publish.ack and task.result of a task the table does not have, and  *)
(* a second result, change nothing.                                         *)
Ignored(m) == \/ disk[m.task].status = "absent"
              \/ m.kind = "result" /\ disk[m.task].status = "done"

Handle(m) ==
    /\ m.kind \in {"ack", "result"}
    /\ CanLoad
    /\ Receives(m)
    /\ IF Ignored(m) THEN UNCHANGED held ELSE Load(m.kind, m.peer, m.task)
    /\ UNCHANGED <<context, disk, tick, history>>

(* An ACK mutates the delivery state and never creates it.                  *)
Acked_Early(d, p) == [d EXCEPT !.acked = @ \cup {p}, !.complete = TRUE]  \* mutant
Acked(d, p) ==
    IF ~d.on THEN d
    ELSE [d EXCEPT !.acked = @ \cup {p},
                   !.complete = @ \/ (d.targets # {} /\ d.targets \subseteq d.acked \cup {p})]

Updated(u) ==
    CASE u.op = "create" -> [Absent EXCEPT !.status = "published"]
      [] u.op = "ack"    -> Acked(u.snap[u.task], u.peer)
      [] u.op = "result" -> [u.snap[u.task] EXCEPT !.status = "done"]
      [] u.op = "other"  -> u.snap[u.task]

HandlerSave ==
    \E u \in held :
        /\ disk' = [u.snap EXCEPT ![u.task] = Updated(u)]
        /\ held' = held \ {u}
        /\ UNCHANGED <<context, tick, net, history>>

-----------------------------------------------------------------------------
(* A target stores the task unless it has it, and acknowledges every copy.  *)
PeerReceives(p) ==
    \E t \in Tasks :
        /\ Message("publish", p, t) \in net
        /\ net' = (net \ {Message("publish", p, t)}) \cup {Message("ack", p, t)}
        /\ stored' = [stored EXCEPT ![p] = @ \cup {t}]
        /\ UNCHANGED <<context, disk, tick, held, answered, rounds>>

(* A target that won the arbitration sends its result, once.                *)
PeerAnswers(p) ==
    \E t \in stored[p] \ answered[p] :
        /\ net' = net \cup {Message("result", p, t)}
        /\ answered' = [answered EXCEPT ![p] = @ \cup {t}]
        /\ UNCHANGED <<context, disk, tick, held, stored, rounds>>

Lose ==
    /\ May("loss")
    /\ \E m \in net : Receives(m)
    /\ UNCHANGED <<context, disk, tick, held, history>>

(* A restart forgets the tick and the handlers in progress.                 *)
Restart ==
    /\ May("crash")
    /\ restarts < MaxRestarts
    /\ restarts' = restarts + 1
    /\ pc' = "idle" /\ pos' = 1 /\ snap' = Empty
    /\ held' = {}
    /\ IF May("retarget") THEN targets' \in SUBSET Peers ELSE targets' = targets
    /\ UNCHANGED <<env, disk, net, history>>

Next ==
    \/ Tick
    \/ Create \/ OtherTask
    \/ \E m \in net : Handle(m)
    \/ HandlerSave
    \/ \E p \in Peers : PeerReceives(p) \/ PeerAnswers(p)
    \/ Lose
    \/ Restart

(* The loop ticks for ever, promises settle, the retry interval passes, and *)
(* a message that is not lost arrives.  Nobody has to create or execute.    *)
Fairness ==
    /\ WF_vars(Tick)
    /\ SF_vars(Try)
    /\ WF_vars(HandlerSave)
    /\ SF_vars(\E m \in net : Handle(m))
    /\ WF_vars(\E p \in Peers : PeerReceives(p))

Spec == Init /\ [][Next]_vars
FairSpec == Spec /\ Fairness

-----------------------------------------------------------------------------
(* Every variable has its type. *)
TypeOK ==
    /\ disk \in [Tasks -> Entries] /\ snap \in [Tasks -> Entries]
    /\ pc \in {"idle", "visit", "examine", "save-new", "save-try", "save-end", "send", "next"}
    /\ pos \in Tasks
    /\ \A u \in held : u.snap \in [Tasks -> Entries]
    /\ net \subseteq Messages
    /\ rounds \in [Tasks -> 0..TooMany]

(* acked_peers and complete are true statements about other nodes, in every *)
(* environment: a peer counted as acknowledged has stored the task, and a   *)
(* complete delivery reached every target (of the time it was completed:    *)
(* the flag is not reset when a restart changes TASK_PUBLISH_TO).           *)
AcksAreTrue ==
    \A t \in Tasks :
        /\ \A p \in disk[t].acked : t \in stored[p]
        /\ disk[t].complete /\ ~May("retarget")
             => \A p \in disk[t].targets : t \in stored[p]

(* While updates do not overlap, no later save takes back an acknowledgement *)
(* or a result that was saved, across ticks, retries and restarts.          *)
UpdatesKept ==
    [][\A t \in Tasks :
         ~May("overlap") =>
             /\ disk[t].acked \subseteq disk'[t].acked
             /\ disk[t].status = "done" => disk'[t].status = "done"]_vars

(* While updates do not overlap, a task is broadcast at most MaxAttempts    *)
(* times, also when the node restarts between counting and sending.         *)
SendsBounded == \A t \in Tasks : ~May("overlap") => rounds[t] <= MaxAttempts

(* Delivery ends: complete, given up or answered, even when every message   *)
(* is lost.                                                                 *)
Ended(d) == d.status = "done" \/ d.complete \/ d.incomplete
DeliveryConcludes ==
    \A t \in Tasks : ~May("overlap") /\ ~May("crash") /\ disk[t].status = "published"
                     ~> Ended(disk[t])

(* Without loss every target gets every task that nobody answered first.    *)
ReachesTargets ==
    \A t \in Tasks : env.may = {} /\ disk[t].status = "published"
                     ~> disk[t].status = "done" \/ \A p \in targets : t \in stored[p]

(* "Persist delivery state before sending, so ACK handler can always find   *)
(* it": an ACK in transit always has its delivery state in the file.        *)
AckFindsDelivery == \A m \in net : m.kind = "ack" => disk[m.task].on

(* The delivery state tells the truth about the targets, and counts what    *)
(* was sent, across lost messages, restarts and changed targets.            *)
DeliverySound == TypeOK /\ AcksAreTrue /\ SendsBounded

(* A delivery ends, and what was learnt of it is never taken back.          *)
DeliverySettles == UpdatesKept /\ DeliveryConcludes
=============================================================================
