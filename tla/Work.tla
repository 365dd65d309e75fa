-------------------------------- MODULE Work --------------------------------
(* What nodes do with the network and what keeps them going, one part at a  *)
(* time: part chooses the component that runs, and the others stay as they  *)
(* are.  The components share no state, so what is shown of each of them    *)
(* here is what it does on its own.                                         *)
EXTENDS Naturals, Sequences, FiniteSets

CONSTANTS
    Tries,                                              \* RemoteExecution
    MaxTasks, MaxDays, MaxDeaths,                       \* DailyDuties
    Versions, Bad, MaxRetries, MaxKills,                \* AutoUpgrade
    Machines, MaxBoots, MaxFaults, MaxMoves,            \* NodeIdentity
    Pickers, Offers, Source, MaxClock, MaxCycles,       \* OfferMarket
    MaxCrashes, HourCap, CompetitionCap,
    MaxTime, MaxRewards, MaxIds, Day,                   \* Strategy
    ThresholdSteps, WeightSteps,
    Dialogues, MaxRestarts,                             \* Dialogue
    MaxHandshakes,                                      \* Acquaintance
    Nodes, Workers, SyncPeer,                           \* TaskLifecycle
    MaxNodeCrashes, MaxSyncs, MaxMessages,
    Pids, MaxDaemonDeaths,                              \* Supervision
    None

VARIABLES
    part,
    request, friend, taken, reply, received, runs, strangerRan,
    reachable, linked, call, result, arrived,
    duty, mem, disk, tasks, picked, radar, days, deaths,
    joins, radars, deathsToday, everDelivered,
    legacy, step, code, loaded, phase, current, retries, target, previous,
    treeLock, strategy, backup, kills, accepted, attempts,
    machine, mode, systemd, file, boot, writes, holder, cloned, boots, faults, moves,
    used, carried, last,
    alone, now, latest, earliest, doing, todo, seen, job, stamp, amount, copy, push,
    ledger, index, behind, won, cycles, faultsOfMarket,
    window, rewards, earnings, state, timeline, ids, open,
    flow, at, inbox, subscribed, saved, sent, lastTurn, answering, answers, askerUp, peerUp, lives,
    memory, tmp, loadedRank, written, live, pending, due, shaken,
    table, pc, posted, response, crashes, syncs, messages,
    supervised, unit, stage, lock, watching, overlapped, gateway, plugin, files, action,
    age, restarts, rest, daemonDeaths

remote == <<request, friend, taken, reply, received, runs, strangerRan,
            reachable, linked, call, result, arrived>>
duties == <<duty, mem, disk, tasks, picked, radar, days, deaths,
            joins, radars, deathsToday, everDelivered>>
upgrade == <<legacy, step, code, loaded, phase, current, retries, target, previous,
             treeLock, strategy, backup, kills, accepted, attempts>>
identity == <<machine, mode, systemd, file, boot, writes, holder, cloned, boots, faults, moves,
              used, carried, last>>
market == <<alone, now, latest, earliest, doing, todo, seen, job, stamp, amount, copy, push,
            ledger, index, behind, won, cycles, faultsOfMarket>>
pricing == <<window, rewards, earnings, state, timeline, ids, open>>
dialogue == <<flow, at, inbox, subscribed, saved, sent, lastTurn, answering, answers,
              askerUp, peerUp, lives>>
acquaintance == <<memory, tmp, loadedRank, written, live, pending, due, shaken>>
lifecycle == <<table, pc, posted, response, crashes, syncs, messages>>
supervision == <<supervised, unit, stage, lock, watching, overlapped, gateway, plugin, files,
                 action, age, restarts, rest, daemonDeaths>>
work == <<remote, duties, upgrade, identity>>
society == <<market, pricing, dialogue, acquaintance>>
life == <<lifecycle, supervision>>
vars == <<part, work, society, life>>


ASSUME BoundsAreNumbers ==
    {MaxTasks, MaxDays, MaxDeaths, MaxRetries, MaxKills, MaxBoots, MaxFaults, MaxMoves, MaxClock,
     MaxCycles, MaxCrashes, HourCap, CompetitionCap, MaxTime, MaxRewards, MaxIds, Day,
     ThresholdSteps, WeightSteps, MaxRestarts, MaxHandshakes, MaxNodeCrashes, MaxSyncs,
     MaxMessages, MaxDaemonDeaths} \subseteq Nat
(* The node starts with the first version, and on some machine; finitely    *)
(* many pickers run; a node synchronises with another one.                  *)
ASSUME NamesAreNodes ==
    /\ 1 \in Versions /\ Machines # {} /\ IsFiniteSet(Pickers)
    /\ SyncPeer \in [Nodes -> Nodes \cup {None}]
(* null is nothing else. *)
ASSUME NoneIsNothing ==
    /\ None \notin Nat /\ None \notin Nodes /\ None \notin Pids /\ None \notin Offers
    /\ None \notin [at : Nat, base : Nat, id : Nat]            \* a pending adjustment
    /\ None \notin [ts : Nat, by : Pickers \cup {Source}]        \* an executed offer
    /\ None \notin Seq(Nat) \cup Seq(Machines)                 \* the files of an identity
    /\ None \notin ({"host"} \X Nat) \cup ({"id"} \X Machines \X Seq(Nat))

R == INSTANCE RemoteExecution WITH pc <- call
D == INSTANCE DailyDuties WITH pc <- duty
U == INSTANCE AutoUpgrade WITH lock <- treeLock
I == INSTANCE NodeIdentity WITH pc <- boot, todo <- writes
M == INSTANCE OfferMarket WITH at <- doing, crashes <- faultsOfMarket
S == INSTANCE Strategy WITH now <- window
G == INSTANCE Dialogue WITH restarts <- lives
A == INSTANCE Acquaintance WITH copy <- loadedRank
L == INSTANCE TaskLifecycle WITH MaxCrashes <- MaxNodeCrashes, sent <- posted
V == INSTANCE Supervision WITH
       MaxDeaths <- MaxDaemonDeaths, systemd <- supervised, deaths <- daemonDeaths

Parts == {"remote", "duties", "upgrade", "identity", "market", "pricing", "dialogue",
          "acquaintance", "lifecycle", "supervision"}

(* A component that does not run needs one initial state only.              *)
Init ==
    /\ part \in Parts
    /\ R!Init /\ D!Init /\ S!Init /\ G!Init /\ A!Init
    /\ U!Init /\ (part # "upgrade" => ~legacy)
    /\ I!Init /\ (part # "identity" =>
                    /\ machine = (CHOOSE m \in Machines : TRUE)
                    /\ mode = "none" /\ ~systemd /\ file["node_id"] = None)
    /\ M!Init /\ (part # "market" => alone /\ ledger["value"] = <<>>)
    /\ L!Init
    /\ V!Init /\ (part # "supervision" => ~supervised /\ files)

WorkRuns(p) == part = p /\ UNCHANGED <<part, society, life>>
RemoteRuns == WorkRuns("remote") /\ UNCHANGED <<duties, upgrade, identity>>
DutiesRun == WorkRuns("duties") /\ UNCHANGED <<remote, upgrade, identity>>
UpgradeRuns == WorkRuns("upgrade") /\ UNCHANGED <<remote, duties, identity>>
IdentityRuns == WorkRuns("identity") /\ UNCHANGED <<remote, duties, upgrade>>
SocietyRuns(p) == part = p /\ UNCHANGED <<part, work, life>>
MarketRuns == SocietyRuns("market") /\ UNCHANGED <<pricing, dialogue, acquaintance>>
PricingRuns == SocietyRuns("pricing") /\ UNCHANGED <<market, dialogue, acquaintance>>
DialogueRuns == SocietyRuns("dialogue") /\ UNCHANGED <<market, pricing, acquaintance>>
AcquaintanceRuns == SocietyRuns("acquaintance") /\ UNCHANGED <<market, pricing, dialogue>>
LifeRuns(p) == part = p /\ UNCHANGED <<part, work, society>>
LifecycleRuns == LifeRuns("lifecycle") /\ UNCHANGED supervision
SupervisionRuns == LifeRuns("supervision") /\ UNCHANGED lifecycle

Next ==
    \/ RemoteRuns /\ R!Next
    \/ DutiesRun /\ D!Next
    \/ UpgradeRuns /\ U!Next
    \/ IdentityRuns /\ I!Next
    \/ MarketRuns /\ M!Next
    \/ PricingRuns /\ S!Next
    \/ DialogueRuns /\ G!Next
    \/ AcquaintanceRuns /\ A!Next
    \/ LifecycleRuns /\ L!Next
    \/ SupervisionRuns /\ V!Next

Spec == Init /\ [][Next]_vars

-----------------------------------------------------------------------------
(* Every variable of every component has its type. *)
TypesOK ==
    /\ R!TypeOK /\ D!TypeOK /\ U!TypeOK /\ I!TypeOK
    /\ M!TypeOK /\ S!TypeOK /\ G!TypeOK /\ A!TypeOK /\ L!TypeOK /\ V!TypeOK

(* A capability never runs for a stranger nor twice for one call, and A     *)
(* reads success only for a call that ran.                                  *)
RunsForFriendsOnce == R!RunsForFriendsOnce

(* The owner hears of the join once and of a radar once in a day, but for   *)
(* what a death between send and save repeats.                              *)
ToldOnce == D!ToldOnce

(* Only verified versions are tried, not too often; no process exits into a *)
(* version that failed; the strategy survives.                              *)
UpgradeSafe == U!UpgradeSafe

(* Two machines never run under one id, the holder is the network's id, and *)
(* on one machine a node keeps its id through every failure.                *)
KeepsIdentity == [][I!OneMachinePerId' /\ I!KeepsIdentity(last, last')]_vars

(* Pickers of one process win an offer once and are paid for it once; those *)
(* of several processes are each paid once.                                 *)
MarketFair == M!OneWinner /\ M!PaidOnce

(* A source gives no more than its cap, and an index is the sum of its      *)
(* ledger.                                                                  *)
BooksBalance == M!BooksBalance

(* An adjustment of the strategy can be taken back until it is judged.      *)
Reversible == S!Reversible

(* A transcript is saved of complete dialogues only, and no activity turn   *)
(* is answered twice in one life.                                           *)
DialogueSound == G!DialogueSound

(* What is known of a peer falls only where updates overlap.                *)
NothingUnlearned == [][A!NothingUnlearned]_vars

(* No message, sync or recovery opens a completed task again.               *)
NeverReopened == [][\A n \in Nodes : L!NeverReopened(n)]_vars

(* Daemons that did not start at one moment never run together, and no      *)
(* check restarts the gateway twice.                                        *)
OneDaemon == V!OneDaemon
=============================================================================
