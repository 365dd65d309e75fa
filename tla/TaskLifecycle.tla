--------------------------- MODULE TaskLifecycle ---------------------------
(***************************************************************************)
(* One task in the tables of several nodes that tell each other about it   *)
(* by A2A_TASK_PUBLISHED, A2A_TASK_ACCEPTED, A2A_TASK_RESULT and the sync  *)
(* protocol (src/tasks/taskReceiver, taskClaim, taskSync), each with the   *)
(* tick of src/runtime/agentRuntimeLoop.mjs that recovers stuck tasks and  *)
(* executes open ones.  A handler is one step here: TaskStore shows what   *)
(* overlapping handlers do to one table.  Messages may be lost, repeated   *)
(* and late, and nodes crash.                                              *)
(***************************************************************************)
EXTENDS Naturals

CONSTANTS
    Nodes,
    Workers,       \* the nodes whose capabilities match the task
    SyncPeer,      \* the task_sync_peer_id of each node, or None
    None,
    MaxCrashes,    \* bound: crashes in all
    MaxSyncs,      \* bound: sync requests in all
    MaxMessages    \* bound: ACCEPTED and RESULT messages in all

VARIABLES
    table,         \* each node's record of the task, or None
    pc,            \* where the tick of each node is
    sent,          \* ACCEPTED and RESULT messages under way
    response,      \* the sync response under way to each node, or None
    crashes, syncs, messages

lifecycleVars == <<table, pc, sent, response, crashes, syncs, messages>>

Task == [status : {"published", "accepted", "running", "completed", "failed"},
         holder : Nodes \cup {None},
         result : Nodes \cup {None},       \* who computed it
         stamp : 0..1]                     \* created_at; a placeholder's is later
Done == {"completed", "failed"}
Open == {"accepted", "running"}
Known(n) == table[n] # None
Status(n) == IF Known(n) THEN table[n].status ELSE "unknown"
Put(n, t) == table' = [table EXCEPT ![n] = t]

Init ==
    /\ table = [n \in Nodes |-> None]
    /\ pc = [n \in Nodes |-> "idle"]
    /\ sent = {}
    /\ response = [n \in Nodes |-> None]
    /\ crashes = 0 /\ syncs = 0 /\ messages = 0

-----------------------------------------------------------------------------
(* publishTask by the creator, and receiveTaskPublished by a peer: a task   *)
(* that is known already is left as it is.                                  *)
Published == [status |-> "published", holder |-> None, result |-> None, stamp |-> 0]
ReceivePublished(n) ==
    /\ ~Known(n)
    /\ Put(n, Published)
    /\ UNCHANGED <<pc, sent, response, crashes, syncs, messages>>

(* buildTaskAcceptedPayload and buildTaskResultMessage from the table.      *)
ResultMessage(n) == <<"RESULT", n, Status(n)>>
SendTaskMessage(n) ==
    /\ messages < MaxMessages /\ messages' = messages + 1
    /\ \/ /\ Status(n) = "accepted" /\ table[n].holder = n
          /\ sent' = sent \cup {<<"ACCEPTED", n, "accepted">>}
       \/ /\ Status(n) \in Done
          /\ sent' = sent \cup {ResultMessage(n)}
    /\ UNCHANGED <<table, pc, response, crashes, syncs>>

(* A message is lost. *)
LoseTaskMessage ==
    /\ \E m \in sent : sent' = sent \ {m}
    /\ UNCHANGED <<table, pc, response, crashes, syncs, messages>>

(* receiveTaskAccepted: a placeholder if the task is unknown; a completed   *)
(* task is kept, a failed one is open again.                                *)
Claimable_Always(n) == TRUE                                          \* mutant
Claimable(n) == Status(n) # "completed"
Claimed(n, m) ==
    IF Known(n)
      THEN [table[n] EXCEPT !.holder = m,
              !.status = IF @ = "running" /\ table[n].holder = m THEN @ ELSE "accepted"]
      ELSE [Published EXCEPT !.status = "accepted", !.holder = m, !.stamp = 1]
ReceiveAccepted(n) ==
    /\ \E m \in Nodes \ {n} :
         LET message == <<"ACCEPTED", m, "accepted">>
         IN /\ message \in sent /\ sent' = sent \ {message}
            /\ IF Claimable(n) THEN Put(n, Claimed(n, m)) ELSE UNCHANGED table
    /\ UNCHANGED <<pc, response, crashes, syncs, messages>>

(* receiveTaskResult, with handleDuplicateResult: a completed task keeps    *)
(* its result, whether the other one is the same or not.                    *)
Resulted_Swapped(n, m, final) ==                                     \* mutant
    [(IF Known(n) THEN table[n] ELSE Published) EXCEPT !.status = m, !.result = final]
Resulted(n, m, final) ==
    LET known == IF Known(n) THEN table[n] ELSE [Published EXCEPT !.holder = m, !.stamp = 1]
    IN [known EXCEPT !.status = final, !.result = m]
ReceiveResult(n) ==
    /\ \E m \in Nodes \ {n}, final \in Done :
         LET message == <<"RESULT", m, final>>
         IN /\ message \in sent /\ sent' = sent \ {message}
            /\ IF Status(n) = "completed" THEN UNCHANGED table
                                          ELSE Put(n, Resulted(n, m, final))
    /\ UNCHANGED <<pc, response, crashes, syncs, messages>>

(* sendTaskSyncRequest and buildTaskSyncResponse: the table of the peer as  *)
(* it is when the peer answers.                                             *)
SyncResponse(n) == table[SyncPeer[n]]
Sync(n) ==
    /\ SyncPeer[n] # None /\ syncs < MaxSyncs
    /\ response' = [response EXCEPT ![n] = SyncResponse(n)]
    /\ syncs' = syncs + 1
    /\ UNCHANGED <<table, pc, sent, crashes, messages>>

Rank(status) == CASE status = "published" -> 1 [] status = "accepted" -> 2
                  [] status = "running" -> 3 [] status \in Done -> 4
Replaces_AnyStatus(new, old) ==                                      \* mutant
    new.status # old.status \/ new.stamp > old.stamp
Replaces(new, old) ==
    \/ Rank(new.status) > Rank(old.status)
    \/ new.stamp > old.stamp /\ ~(Rank(old.status) = 4 /\ Rank(new.status) < 4)

(* mergeTasksIntoStore *)
MergeTasks(n) ==
    /\ response[n] # None
    /\ response' = [response EXCEPT ![n] = None]
    /\ IF ~Known(n) \/ Replaces(response[n], table[n])
         THEN Put(n, response[n]) ELSE UNCHANGED table
    /\ UNCHANGED <<pc, sent, crashes, syncs, messages>>

-----------------------------------------------------------------------------
(* recoverStuckTasks, at the start of a tick.  An open task always has a    *)
(* lease; it is released once the lease has expired, or when the holder is  *)
(* not in the peer table, or not on the relay: either may be so or not.     *)
MayRelease_NeverRunning == {"accepted"}                              \* mutant
MayRelease == {"accepted", "running"}
Release(n) ==
    /\ pc[n] = "idle" /\ Status(n) \in MayRelease
    /\ pc' = [pc EXCEPT ![n] = "pick"]
    /\ Put(n, [table[n] EXCEPT !.status = "published", !.holder = None])
    /\ UNCHANGED <<sent, response, crashes, syncs, messages>>
NothingStuck(n) ==
    /\ pc[n] = "idle"
    /\ pc' = [pc EXCEPT ![n] = "pick"]
    /\ UNCHANGED <<table, sent, response, crashes, syncs, messages>>

(* pickOldestPublished with the matcher (a published task has no lease);    *)
(* then the node sleeps.                                                    *)
Pick(n) ==
    /\ pc[n] = "pick"
    /\ LET picks == n \in Workers /\ Status(n) = "published"
       IN pc' = [pc EXCEPT ![n] = IF picks THEN "accept" ELSE "idle"]
    /\ UNCHANGED <<table, sent, response, crashes, syncs, messages>>

(* acceptTask *)
Accept(n) ==
    /\ pc[n] = "accept"
    /\ IF Status(n) = "published"
         THEN /\ Put(n, [table[n] EXCEPT !.status = "accepted", !.holder = n])
              /\ pc' = [pc EXCEPT ![n] = "run"]
         ELSE /\ pc' = [pc EXCEPT ![n] = "idle"]
              /\ UNCHANGED table
    /\ UNCHANGED <<sent, response, crashes, syncs, messages>>

(* The second look at the owner, and markRunning, whose refusal is ignored. *)
Run(n) ==
    /\ pc[n] = "run"
    /\ IF table[n].holder \notin {n, None}
         THEN pc' = [pc EXCEPT ![n] = "idle"] /\ UNCHANGED table
         ELSE /\ pc' = [pc EXCEPT ![n] = "execute"]
              /\ IF Status(n) = "accepted"
                   THEN Put(n, [table[n] EXCEPT !.status = "running"])
                   ELSE UNCHANGED table
    /\ UNCHANGED <<sent, response, crashes, syncs, messages>>

(* completeTask or failTask, whatever the table says by now. *)
Finish(n) ==
    /\ pc[n] = "execute"
    /\ pc' = [pc EXCEPT ![n] = "idle"]
    /\ \/ Put(n, [table[n] EXCEPT !.status = "completed", !.result = n])
       \/ Put(n, [table[n] EXCEPT !.status = "failed"])
    /\ UNCHANGED <<sent, response, crashes, syncs, messages>>

Tick(n) == Release(n) \/ NothingStuck(n) \/ Pick(n) \/ Accept(n) \/ Run(n) \/ Finish(n)

(* The process dies; its table is on disk. *)
Crash(n) ==
    /\ crashes < MaxCrashes /\ pc[n] # "idle"
    /\ crashes' = crashes + 1
    /\ pc' = [pc EXCEPT ![n] = "idle"]
    /\ UNCHANGED <<table, sent, response, syncs, messages>>

Next ==
    \/ \E n \in Nodes :
         \/ ReceivePublished(n) \/ SendTaskMessage(n) \/ ReceiveAccepted(n)
         \/ ReceiveResult(n) \/ MergeTasks(n) \/ Sync(n)
         \/ Tick(n) \/ Crash(n)
    \/ LoseTaskMessage

-----------------------------------------------------------------------------
(* Every variable has its type. *)
TypeOK ==
    /\ table \in [Nodes -> Task \cup {None}]
    /\ pc \in [Nodes -> {"idle", "pick", "accept", "run", "execute"}]
    /\ sent \subseteq {"ACCEPTED", "RESULT"} \X Nodes \X (Done \cup {"accepted"})
    /\ response \in [Nodes -> Task \cup {None}]
    /\ crashes \in 0..MaxCrashes /\ syncs \in 0..MaxSyncs
    /\ messages \in 0..MaxMessages

(* No message, no sync and no recovery opens a completed task again; only   *)
(* a result for the same task may still take its place.                     *)
NeverReopened(n) == Status(n) = "completed" => table'[n].status \in Done

(* A task that a node may execute is finished somewhere in the end, over    *)
(* lost holders, expired leases and claims of others.                       *)
TaskFinishes ==
    \A n \in Workers : Known(n) ~> (\E m \in Nodes : Status(m) \in Done)
=============================================================================
