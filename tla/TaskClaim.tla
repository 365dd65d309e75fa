------------------------------ MODULE TaskClaim ------------------------------
(***************************************************************************)
(* Arbitration and execution of one broadcast task: the agent loop of      *)
(* every executor (src/runtime/agentRuntimeLoop.mjs), the handlers that    *)
(* run between its awaits (src/runtime/network/taskMessageFlowV0_1.mjs)    *)
(* and the creator that collects the result.                               *)
(*                                                                         *)
(* There is no shared store: every node keeps its own copy of the task in  *)
(* tasks.json, and each operation on it loads the file, changes the copy   *)
(* and saves it, with awaits in between.  Such an operation is two steps   *)
(* here, a read that adds an update with its snapshot to held[e], and a    *)
(* save that writes the changed snapshot back.  env is the set of the      *)
(* environment's liberties that a behaviour may take:                      *)
(*   "late"     claims may take longer than Delay or be lost               *)
(*   "overlap"  two updates of one tasks.json may overlap                  *)
(*   "publish"  task.publish may reach a node after a claim does           *)
(*   "skew"     the clocks of two nodes may differ                         *)
(*   "crash"    a node may restart                                         *)
(***************************************************************************)
EXTENDS Integers, FiniteSets

CONSTANTS Executors,    \* ids, ordered as localeCompare orders them
          Window,       \* window_ms, in ticks
          Delay,        \* bound on the transit of a timely claim, in ticks
          MaxTries,     \* bound: claim windows an executor opens
          MaxRestarts,  \* bound: restarts in a behaviour
          MaxSkew,      \* Date.now() of two nodes differs by at most MaxSkew
          Envs          \* the environments to explore

ASSUME TaskClaimAssumption ==
    /\ Executors \subseteq Nat /\ IsFiniteSet(Executors)
    /\ Window \in Nat /\ Delay \in Nat /\ MaxTries \in Nat /\ MaxSkew \in Nat /\ MaxRestarts \in Nat
    /\ \A env \in Envs : env \subseteq {"late", "overlap", "publish", "skew", "crash"}

VARIABLES
    env,       \* what the environment may do, fixed at the start
    now,       \* real time
    table,     \* table[e]: the task in e's tasks.json
    held,      \* updates of table[e] that have read and not yet saved
    pc,        \* where e's loop is
    ts,        \* claim_ts of e's current window
    wake,      \* end of e's current window
    tries,     \* windows e has opened
    restarts,  \* restarts so far
    claimNet,  \* claims in transit
    resultNet, \* results in transit
    result,    \* at the creator: task_result_received and from whom, or None
    executed   \* history: how often e ran executeTask

context == <<env, restarts>>
window == <<ts, wake, tries>>
net == <<claimNet, resultNet, result>>
vars == <<context, now, table, held, pc, window, net, executed>>

None == -1
(* "done" stands for completed and failed, which are treated alike here. *)
Statuses == {"absent", "published", "accepted", "running", "done"}
Claim(e, t) == [by |-> e, ts |-> t]
Claims == [by : Executors, ts : Nat]
Copies == [status : Statuses, claims : SUBSET Claims, invalid : BOOLEAN, sent : BOOLEAN]
Absent == [status |-> "absent", claims |-> {}, invalid |-> FALSE, sent |-> FALSE]
Published == [Absent EXCEPT !.status = "published"]

Init ==
    /\ env \in Envs
    /\ now = 0
    /\ table = [e \in Executors |-> IF "publish" \in env THEN Absent ELSE Published]
    /\ held = [e \in Executors |-> {}]
    /\ pc = [e \in Executors |-> "idle"]
    /\ ts = [e \in Executors |-> 0]
    /\ wake = [e \in Executors |-> 0]
    /\ tries = [e \in Executors |-> 0]
    /\ restarts = 0
    /\ claimNet = {}
    /\ resultNet = {}
    /\ result = None
    /\ executed = [e \in Executors |-> 0]

-----------------------------------------------------------------------------
(* The order of claims: by claim_ts, then by node id. *)
Before_Latest(c, d) == c.ts > d.ts \/ (c.ts = d.ts /\ c.by <= d.by)  \* mutant
Before(c, d) == c.ts < d.ts \/ (c.ts = d.ts /\ c.by <= d.by)

(* pickWinnerFromClaims, and the loop's own sort of the claims it reads. *)
Winner(claims) == (CHOOSE c \in claims : \A d \in claims : Before(c, d)).by

(* What an update does to the copy of the task it read. *)
AddClaim_Replace(t, c) == [t EXCEPT !.claims = {c}]                       \* mutant
AddClaim(t, c) == [t EXCEPT !.claims = @ \cup {c}]

ReceiveClaim_Any(e, t, c) ==  \* mutant: any late claim invalidates
    [AddClaim(t, c) EXCEPT !.invalid = @ \/ t.status = "running"]

ReceiveClaim(e, t, c) ==
    LET seen == AddClaim(t, c)
    IN [seen EXCEPT !.invalid = @ \/ (t.status = "running" /\ Winner(seen.claims) # e)]

Updated(e, u) ==
    CASE u.op = "publish"  -> [u.snap EXCEPT !.status = "published"]
      [] u.op = "own"      -> AddClaim(u.snap, Claim(e, ts[e]))
      [] u.op = "claim"    -> ReceiveClaim(e, u.snap, u.claim)
      [] u.op = "recover"  -> [u.snap EXCEPT !.status = "published"]
      [] u.op = "accept"   -> [u.snap EXCEPT !.status = "accepted"]
      [] u.op = "run"      -> [u.snap EXCEPT !.status = "running"]
      [] u.op = "complete" -> [u.snap EXCEPT !.status = "done"]
      [] u.op = "sent"     -> [u.snap EXCEPT !.sent = TRUE]

Free(e) == "overlap" \in env \/ held[e] = {}

(* loadTasks of an operation of e's loop, or of one of its handlers. *)
ReadWith(e, u) == Free(e) /\ held' = [held EXCEPT ![e] = @ \cup {u}]
Read(e, op) == ReadWith(e, [op |-> op, snap |-> table[e]])

(* saveTasks of the operation that e's loop has in progress. *)
Save(e, op) ==
    \E u \in held[e] :
        /\ u.op = op
        /\ table' = [table EXCEPT ![e] = Updated(e, u)]
        /\ held' = [held EXCEPT ![e] = @ \ {u}]

Goto(e, from, to) == pc[e] = from /\ pc' = [pc EXCEPT ![e] = to]

-----------------------------------------------------------------------------
(* recoverStuckTasks at the start of a tick: the lease of an execution that *)
(* a restart interrupted has expired.                                       *)
Stuck_Done(e) == table[e].status \in {"accepted", "running", "done"}  \* mutant
Stuck(e) == table[e].status \in {"accepted", "running"}

RecoverRead(e) ==
    /\ Stuck(e)
    /\ Goto(e, "idle", "recover")
    /\ Read(e, "recover")
    /\ UNCHANGED <<context, now, table, window, net, executed>>

RecoverSave(e) ==
    /\ Goto(e, "recover", "idle")
    /\ Save(e, "recover")
    /\ UNCHANGED <<context, now, window, net, executed>>

SendResult(e) == resultNet' = resultNet \cup {e}

(* tickTaskNetworkOutboundV0_1, part 2: the result is sent from the table,  *)
(* then task_result_sent is saved.                                          *)
HasResult_Any(e) == table[e].status # "absent" /\ ~table[e].sent  \* mutant
HasResult(e) == table[e].status = "done" /\ ~table[e].invalid /\ ~table[e].sent

OutboundRead(e) ==
    /\ HasResult(e)
    /\ Goto(e, "idle", "outbound")
    /\ Read(e, "sent")
    /\ SendResult(e)
    /\ UNCHANGED <<context, now, table, window, claimNet, result, executed>>

OutboundSave(e) ==
    /\ Goto(e, "outbound", "idle")
    /\ Save(e, "sent")
    /\ UNCHANGED <<context, now, window, net, executed>>

(* The loop picked the task and opens a claim window: it takes claim_ts and *)
(* reads the table to persist its own claim.                                *)
OpenWindow(e) ==
    /\ table[e].status = "published"
    /\ tries[e] < MaxTries
    /\ Goto(e, "idle", "claiming")
    /\ \E skew \in 0..(IF "skew" \in env THEN MaxSkew ELSE 0) :
           ts' = [ts EXCEPT ![e] = now + skew]
    /\ tries' = [tries EXCEPT ![e] = @ + 1]
    /\ Read(e, "own")
    /\ UNCHANGED <<context, now, table, wake, net, executed>>

(* The claim is saved, broadcast to the known peers, and the loop sleeps.   *)
Due == IF "late" \in env THEN 0 ELSE now + Delay
BroadcastClaim(e) ==
    /\ Goto(e, "claiming", "window")
    /\ Save(e, "own")
    /\ claimNet' = claimNet \cup {[to |-> f, claim |-> Claim(e, ts[e]), due |-> Due]
                                  : f \in Executors \ {e}}
    /\ wake' = [wake EXCEPT ![e] = now + Window]
    /\ UNCHANGED <<context, now, ts, tries, resultNet, result, executed>>

(* The window is over: the best claim in the table decides.                 *)
WinnerSeenBy_Others(e) ==  \* mutant: the own claim does not take part
    LET others == {c \in table[e].claims : c.by # e}
    IN IF others = {} THEN e ELSE Winner(others)

WinnerSeenBy(e) == IF table[e].claims = {} THEN e ELSE Winner(table[e].claims)

CloseWindow(e) ==
    /\ now >= wake[e]
    /\ Goto(e, "window", IF WinnerSeenBy(e) = e THEN "won" ELSE "idle")
    /\ UNCHANGED <<context, now, table, held, window, net, executed>>

(* acceptTask: only a published task is accepted.                           *)
AcceptRead(e) ==
    /\ table[e].status = "published"
    /\ Goto(e, "won", "accepting")
    /\ Read(e, "accept")
    /\ UNCHANGED <<context, now, table, window, net, executed>>

AcceptRefused(e) ==
    /\ table[e].status # "published"
    /\ Goto(e, "won", "idle")
    /\ UNCHANGED <<context, now, table, held, window, net, executed>>

(* The task.claim that follows carries no claim_ts and changes no receiver. *)
AcceptSave(e) ==
    /\ Goto(e, "accepting", "accepted")
    /\ Save(e, "accept")
    /\ UNCHANGED <<context, now, window, net, executed>>

(* The loop re-checks assigned_to, which only its own acceptTask wrote, and *)
(* calls markRunning, whose error it ignores.                               *)
RunRead(e) ==
    /\ table[e].status = "accepted"
    /\ Goto(e, "accepted", "starting")
    /\ Read(e, "run")
    /\ UNCHANGED <<context, now, table, window, net, executed>>

RunSave(e) ==
    /\ Goto(e, "starting", "executing")
    /\ Save(e, "run")
    /\ UNCHANGED <<context, now, window, net, executed>>

RunRefused(e) ==
    /\ table[e].status # "accepted"
    /\ Goto(e, "accepted", "executing")
    /\ UNCHANGED <<context, now, table, held, window, net, executed>>

(* executeTask, then completeTask or failTask.                              *)
ExecuteTask(e) ==
    /\ Goto(e, "executing", "executed")
    /\ executed' = [executed EXCEPT ![e] = @ + 1]
    /\ UNCHANGED <<context, now, table, held, window, net>>

CompleteRead(e) ==
    /\ Goto(e, "executed", "completing")
    /\ Read(e, "complete")
    /\ UNCHANGED <<context, now, table, window, net, executed>>

CompleteSave(e) ==
    /\ Goto(e, "completing", "completed")
    /\ Save(e, "complete")
    /\ UNCHANGED <<context, now, window, net, executed>>

(* The loop sends the result itself, whatever invalid_result says.          *)
LoopSendsResult(e) ==
    /\ Goto(e, "completed", "idle")
    /\ SendResult(e)
    /\ UNCHANGED <<context, now, table, held, window, claimNet, result, executed>>

-----------------------------------------------------------------------------
(* task.publish: the task is added unless the table already has it.         *)
PublishArrives(e) ==
    /\ "publish" \in env
    /\ table[e].status = "absent"
    /\ ~\E u \in held[e] : u.op = "publish"
    /\ Read(e, "publish")
    /\ UNCHANGED <<context, now, table, pc, window, net, executed>>

PublishSaved(e) ==
    /\ Save(e, "publish")
    /\ UNCHANGED <<context, now, pc, window, net, executed>>

(* task.claim: dropped when the task is not in the table.                   *)
ClaimArrives(e) ==
    \E m \in claimNet :
        /\ m.to = e
        /\ claimNet' = claimNet \ {m}
        /\ IF table[e].status = "absent" THEN Free(e) /\ UNCHANGED held
           ELSE ReadWith(e, [op |-> "claim", claim |-> m.claim, snap |-> table[e]])
        /\ UNCHANGED <<context, now, table, pc, window, resultNet, result, executed>>

ClaimSaved(e) ==
    /\ Save(e, "claim")
    /\ UNCHANGED <<context, now, pc, window, net, executed>>

(* The relay has no route to the target, or the socket is dead.             *)
ClaimLost ==
    /\ "late" \in env
    /\ \E m \in claimNet : claimNet' = claimNet \ {m}
    /\ UNCHANGED <<context, now, table, held, pc, window, resultNet, result, executed>>

(* task.result at the creator: the first one is kept, later ones are        *)
(* duplicates.  The message may be delivered twice (both paths send it).    *)
ResultArrives ==
    \E e \in resultNet :
        /\ resultNet' = resultNet \ {e}
        /\ result' = IF result # None THEN result ELSE e
        /\ UNCHANGED <<context, now, table, held, pc, window, claimNet, executed>>

(* A restart: the loop and the updates in progress are gone, the file stays. *)
Restart(e) ==
    /\ "crash" \in env
    /\ restarts < MaxRestarts
    /\ restarts' = restarts + 1
    /\ pc' = [pc EXCEPT ![e] = "idle"]
    /\ held' = [held EXCEPT ![e] = {}]
    /\ UNCHANGED <<now, table, window, net, executed, env>>

(* Time matters only while a window is open.  When claims are timely, a     *)
(* claim in transit and an update in progress finish before it passes them. *)
Overdue == \/ \E m \in claimNet : m.due <= now
           \/ \E e \in Executors : held[e] # {}
Tick ==
    /\ \E e \in Executors : pc[e] = "window" /\ now < wake[e]
    /\ "late" \in env \/ ~Overdue
    /\ now' = now + 1
    /\ UNCHANGED <<context, table, held, pc, window, net, executed>>

Loop(e) ==
    \/ RecoverRead(e) \/ RecoverSave(e) \/ OutboundRead(e) \/ OutboundSave(e)
    \/ OpenWindow(e) \/ BroadcastClaim(e) \/ CloseWindow(e)
    \/ AcceptRead(e) \/ AcceptRefused(e) \/ AcceptSave(e)
    \/ RunRead(e) \/ RunSave(e) \/ RunRefused(e)
    \/ ExecuteTask(e) \/ CompleteRead(e) \/ CompleteSave(e) \/ LoopSendsResult(e)

Handler(e) == \/ PublishArrives(e) \/ PublishSaved(e)
              \/ ClaimArrives(e) \/ ClaimSaved(e)

Next ==
    \/ \E e \in Executors : Loop(e) \/ Handler(e) \/ Restart(e)
    \/ ClaimLost \/ ResultArrives \/ Tick

(* Timers fire, promises settle and the relay forwards what it is sent.     *)
Fairness ==
    /\ \A e \in Executors : WF_vars(Loop(e)) /\ WF_vars(Handler(e))
    /\ WF_vars(ResultArrives)
    /\ WF_vars(Tick)

Spec == Init /\ [][Next]_vars
FairSpec == Spec /\ Fairness

-----------------------------------------------------------------------------
(* Every variable has its type. *)
TypeOK ==
    /\ now \in Nat
    /\ table \in [Executors -> Copies]
    /\ \A e \in Executors : \A u \in held[e] : u.snap \in Copies
    /\ ts \in [Executors -> Nat] /\ wake \in [Executors -> Nat]
    /\ tries \in [Executors -> 0..MaxTries]
    /\ \A m \in claimNet : m.to \in Executors /\ m.claim \in Claims
    /\ resultNet \subseteq Executors
    /\ result \in Executors \cup {None}
    /\ executed \in [Executors -> Nat]

ExecutedBy == {e \in Executors : executed[e] > 0}

(* Arbitration of a broadcast task: one node executes it, whichever way     *)
(* windows, claims and retries interleave, provided clocks agree, claims    *)
(* are delivered within the window and updates of tasks.json do not overlap *)
OneExecutorWhenTimely == env = {} => Cardinality(ExecutedBy) <= 1

(* The same without the proviso, as the arbitration's validation script     *)
(* states it (winners.length === 1).                                        *)
OneExecutor == Cardinality(ExecutedBy) <= 1

(* Under the same proviso a retry of a loser, whose claim reaches the       *)
(* winner while it runs, does not mark the winner's result invalid.         *)
TimelyWinnerStaysValid == env = {} => \A e \in Executors : ~table[e].invalid

(* However late, lost or skewed claims are, a node executes the task once:  *)
(* no handler and no later tick takes a completed task back.                *)
ExecutesOnce ==
    env \cap {"overlap", "crash"} = {} => \A e \in Executors : executed[e] <= 1

(* While updates of one file do not overlap, a saved claim stays, through   *)
(* every change of status, retry and restart: arbitration may rely on it.   *)
ClaimsNeverLost ==
    [][\A e \in Executors :
         "overlap" \notin env => table[e].claims \subseteq table'[e].claims]_vars

(* The creator records only results of nodes that executed the task.        *)
ResultWasExecuted == result # None => result \in ExecutedBy

(* "Late-claim loser: do not emit task.result"                              *)
LateLoserSilent ==
    [][\A e \in Executors : e \in resultNet' \ resultNet => ~table[e].invalid]_vars

(* Some node always considers itself the winner, even when claims are lost: *)
(* the task is executed and its result reaches the creator.                 *)
ResultReturned == env \cap {"overlap", "crash"} = {} ~> result # None

(* Arbitration as far as it goes: one executor and no invalid result while  *)
(* the network is timely, and in every environment without overlaps and     *)
(* crashes at most one execution per node and no result from nowhere.       *)
ArbitrationSound ==
    /\ TypeOK
    /\ OneExecutorWhenTimely /\ TimelyWinnerStaysValid
    /\ ExecutesOnce /\ ResultWasExecuted
=============================================================================
