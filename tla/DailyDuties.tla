---------------------------- MODULE DailyDuties ----------------------------
(***************************************************************************)
(* What one tick of src/runtime/agentRuntimeLoop.mjs does besides the      *)
(* claims (TaskClaim) and the messages (TaskLifecycle): the one-time join  *)
(* signal, the radar, the tasks that the node makes for itself, and the    *)
(* choice among them.  The state of the loop is in memory and in           *)
(* runtime_state.json; a write may fail unnoticed, and the process dies    *)
(* between any two steps.  Sent things are never taken back.               *)
(***************************************************************************)
EXTENDS Naturals, Sequences, SequencesExt

CONSTANTS
    MaxTasks,      \* bound: tasks made in all
    MaxDays,       \* bound: times that 24 hours pass
    MaxDeaths      \* bound: deaths of the process in all

VARIABLES
    pc,            \* the duty that comes next
    mem, disk,     \* state, and runtime_state.json
    tasks,         \* tasks.json: in the order of the file
    picked,        \* the task the tick has chosen
    radar,         \* radar.latest.json: none, empty, or with stories
    days, deaths,
    joins, radars, \* history: join signals in all, radars in this day,
    deathsToday, everDelivered

dutyVars == <<pc, mem, disk, tasks, picked, radar, days, deaths,
              joins, radars, deathsToday, everDelivered>>

Ages == {"never", "recent", "old"}
State == [generated : Ages, aggregated : Ages, delivered : Ages,
          first : BOOLEAN, joined : BOOLEAN]
(* due24h *)
Due(age) == age # "recent"

Init ==
    /\ pc = "recover"
    /\ mem = [generated |-> "never", aggregated |-> "never", delivered |-> "never",
              first |-> FALSE, joined |-> FALSE]
    /\ disk = mem
    /\ tasks = <<>> /\ picked = 0
    /\ radar = "none"
    /\ days = 0 /\ deaths = 0
    /\ joins = 0 /\ radars = 0 /\ deathsToday = 0 /\ everDelivered = FALSE

history == <<joins, radars, deathsToday, everDelivered>>
bounds == <<days, deaths>>

(* mem becomes s, and saveRuntimeState may fail. *)
Remember(s) == mem' = s /\ disk' \in {disk, s}
Entry(id, status) == [id |-> id, status |-> status]
NewId == 1 + Cardinality({tasks[i].id : i \in DOMAIN tasks})

-----------------------------------------------------------------------------
(* recoverStuckTasks: some of the open tasks are released. *)
Open == {"accepted", "running"}
RecoverTasks ==
    /\ pc = "recover" /\ pc' = "join"
    /\ \E released \in SUBSET {i \in DOMAIN tasks : tasks[i].status \in Open} :
         tasks' = [i \in DOMAIN tasks |->
                    IF i \in released THEN Entry(tasks[i].id, "published") ELSE tasks[i]]
    /\ UNCHANGED <<mem, disk, picked, radar, bounds, history>>

(* The join signal: nothing is remembered if the send fails. *)
AfterJoin == [mem EXCEPT !.joined = TRUE]
Join ==
    /\ pc = "join" /\ pc' = "pending"
    /\ \/ ~mem.joined /\ joins' = joins + 1 /\ Remember(AfterJoin)
       \/ UNCHANGED <<mem, disk, joins>>
    /\ UNCHANGED <<tasks, picked, radar, bounds, radars, deathsToday, everDelivered>>

(* What a successful delivery leaves, in both places of the code.           *)
AfterDelivery_FirstOnly == [mem EXCEPT !.first = TRUE]               \* mutant
AfterDelivery == [mem EXCEPT !.delivered = "recent", !.first = TRUE]
Deliver ==
    /\ radars' = radars + 1 /\ everDelivered' = TRUE
    /\ Remember(AfterDelivery)
    /\ UNCHANGED <<joins, deathsToday>>

(* A radar that was generated and never delivered. *)
Pending ==
    /\ pc = "pending" /\ pc' = "bootstrap"
    /\ \/ ~mem.first /\ mem.delivered = "never" /\ radar = "stories" /\ Deliver
       \/ UNCHANGED <<mem, disk, history>>
    /\ UNCHANGED <<tasks, picked, radar, bounds>>

(* The first three tasks of a node that has none. *)
FirstTasks == [id \in 1..(IF MaxTasks < 3 THEN MaxTasks ELSE 3) |-> Entry(id, "published")]
Bootstrap ==
    /\ pc = "bootstrap" /\ pc' = "generate"
    /\ tasks' = IF ~mem.first /\ tasks = <<>> THEN FirstTasks ELSE tasks
    /\ UNCHANGED <<mem, disk, picked, radar, bounds, history>>

(* generateTasksOnce pushes a new task on table.tasks and on existing,      *)
(* which are the same array; nothing is made for a topic that it has made a *)
(* task for in the last day.                                                *)
Pushed == tasks \o <<Entry(NewId, "published"), Entry(NewId, "published")>>
Generate ==
    /\ pc = "generate" /\ pc' = "aggregate"
    /\ IF Due(mem.generated)
         THEN \/ /\ tasks' \in {tasks} \cup IF NewId <= MaxTasks THEN {Pushed} ELSE {}
                 /\ Remember([mem EXCEPT !.generated = "recent"])
              \/ UNCHANGED <<tasks, mem, disk>>
         ELSE UNCHANGED <<tasks, mem, disk>>
    /\ UNCHANGED <<picked, radar, bounds, history>>

(* aggregateExperience; a failure is tried again with the next tick.        *)
Aggregate ==
    /\ pc = "aggregate"
    /\ \/ /\ Due(mem.aggregated)
          /\ Remember([mem EXCEPT !.aggregated = "recent"])
          /\ pc' = "radar"
       \/ pc' = "pick" /\ UNCHANGED <<mem, disk>>
    /\ UNCHANGED <<tasks, picked, radar, bounds, history>>

(* generateRadar. *)
GenerateRadar ==
    /\ pc = "radar"
    /\ \/ radar' \in {"empty", "stories"} /\ pc' = "deliver"
       \/ UNCHANGED radar /\ pc' = "pick"
    /\ UNCHANGED <<mem, disk, tasks, picked, bounds, history>>

(* Delivered if it has stories and none was delivered in the last day.      *)
MayDeliver == radar = "stories" /\ Due(mem.delivered)
DeliverRadar ==
    /\ pc = "deliver" /\ pc' = "pick"
    /\ (MayDeliver /\ Deliver) \/ UNCHANGED <<mem, disk, history>>
    /\ UNCHANGED <<tasks, picked, radar, bounds>>

-----------------------------------------------------------------------------
(* pickOldestPublished picks the newest; acceptTask takes the first entry   *)
(* with that id, whichever was meant.                                       *)
Candidates == {tasks[i].id : i \in {j \in DOMAIN tasks : tasks[j].status = "published"}}
FirstOf(id) == SelectInSeq(tasks, LAMBDA t : t.id = id)
SetStatus(id, status) == tasks' = [tasks EXCEPT ![FirstOf(id)].status = status]

PickTask ==
    /\ pc = "pick"
    /\ IF Candidates = {}
         THEN pc' = "recover" /\ UNCHANGED picked
         ELSE /\ picked' = CHOOSE id \in Candidates : \A other \in Candidates : other <= id
              /\ pc' = "accept"
    /\ UNCHANGED <<mem, disk, tasks, radar, bounds, history>>

AcceptTask ==
    /\ pc = "accept"
    /\ IF tasks[FirstOf(picked)].status = "published"
         THEN SetStatus(picked, "accepted") /\ pc' = "run"
         ELSE UNCHANGED tasks /\ pc' = "recover"
    /\ UNCHANGED <<mem, disk, picked, radar, bounds, history>>

(* markRunning, then executeTask. *)
RunTask ==
    /\ pc = "run" /\ pc' = "finish"
    /\ SetStatus(picked, "running")
    /\ UNCHANGED <<mem, disk, picked, radar, bounds, history>>

FinishTask ==
    /\ pc = "finish" /\ pc' = "recover"
    /\ SetStatus(picked, "completed") \/ SetStatus(picked, "failed")
    /\ UNCHANGED <<mem, disk, picked, radar, bounds, history>>

(* A task comes from elsewhere: a script or another node publishes it.      *)
TaskArrives ==
    /\ NewId <= MaxTasks
    /\ tasks' = Append(tasks, Entry(NewId, "published"))
    /\ UNCHANGED <<pc, mem, disk, picked, radar, bounds, history>>

(* A day passes since everything that is recent. *)
Older(s) ==
    LET older(age) == IF age = "recent" THEN "old" ELSE age
    IN [s EXCEPT !.generated = older(@), !.aggregated = older(@), !.delivered = older(@)]
DayPasses ==
    /\ days < MaxDays /\ days' = days + 1
    /\ mem' = Older(mem) /\ disk' = Older(disk)
    /\ radars' = 0 /\ deathsToday' = 0
    /\ UNCHANGED <<pc, tasks, picked, radar, deaths, joins, everDelivered>>

(* The process dies and loadRuntimeState reads what was saved. *)
Die ==
    /\ deaths < MaxDeaths /\ deaths' = deaths + 1 /\ deathsToday' = deathsToday + 1
    /\ mem' = disk /\ pc' = "recover"
    /\ UNCHANGED <<disk, tasks, picked, radar, days, joins, radars, everDelivered>>

DutyTick ==
    \/ RecoverTasks \/ Join \/ Pending \/ Bootstrap \/ Generate \/ Aggregate
    \/ GenerateRadar \/ DeliverRadar \/ PickTask \/ AcceptTask \/ RunTask \/ FinishTask

Next == DutyTick \/ TaskArrives \/ DayPasses \/ Die

-----------------------------------------------------------------------------
(* Every variable has its type. *)
TypeOK ==
    /\ pc \in {"recover", "join", "pending", "bootstrap", "generate", "aggregate",
               "radar", "deliver", "pick", "accept", "run", "finish"}
    /\ mem \in State /\ disk \in State
    /\ \A i \in DOMAIN tasks :
         tasks[i].id \in 1..MaxTasks /\ tasks[i].status \in Open \cup {"published", "completed", "failed"}
    /\ picked \in 0..MaxTasks
    /\ radar \in {"none", "empty", "stories"}
    /\ days \in 0..MaxDays /\ deaths \in 0..MaxDeaths

(* The owner is told of the join once, and of a radar once in a day, but    *)
(* for what a death between the send and the save brings again; and the     *)
(* first radar counts as sent only once one was.                            *)
ToldOnce ==
    /\ joins <= 1 + deaths
    /\ radars <= 1 + deathsToday
    /\ mem.first \/ disk.first => everDelivered
=============================================================================
