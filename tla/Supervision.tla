---------------------------- MODULE Supervision ----------------------------
(***************************************************************************)
(* What keeps a daemon running: systemd or scripts/supervisor_watchdog.mjs *)
(* start one when there is none, the lock of scripts/run_agent_loop.mjs    *)
(* makes a second one leave, and the daemon's own recovery check           *)
(* (src/runtime/autoRecovery.mjs) restarts the gateway it sends through.   *)
(* A daemon is its process id, and ids come again after a process died.    *)
(***************************************************************************)
EXTENDS Naturals, FiniteSets

CONSTANTS Pids, None, MaxDeaths

VARIABLES
    systemd, unit, \* systemd supervises, and the watchdog leaves; its own process
    stage,         \* of each process: "absent", "reading", "writing", "running"
    lock,          \* data/daemon.lock
    watching,      \* the watchdog counted no daemon and starts one
    overlapped,    \* history: two daemons were between reading and writing the lock
    gateway, plugin, files,    \* environment: all three well or not
    action, age,   \* last_recovery_action, checks since last_recovery_action_at
    restarts,      \* history: gateway restarts in the last check
    rest,          \* history: checks since the last restart of the gateway
    deaths         \* bound: deaths, and starts by others

supervisionVars == <<systemd, unit, stage, lock, watching, overlapped, gateway, plugin, files, action,
                     age, restarts, rest, deaths>>
recovery == <<gateway, plugin, files, action, age, restarts, rest>>

Alive == {p \in Pids : stage[p] # "absent"}
Running == {p \in Pids : stage[p] = "running"}
Starting == {p \in Pids : stage[p] \in {"reading", "writing"}}

Init ==
    /\ systemd \in BOOLEAN /\ unit = None
    /\ stage = [p \in Pids |-> "absent"] /\ lock = None
    /\ watching = FALSE /\ overlapped = FALSE
    /\ gateway = TRUE /\ plugin = TRUE /\ files \in BOOLEAN
    /\ action = None /\ age = 3 /\ restarts = 0 /\ rest = 3
    /\ deaths = 0

-----------------------------------------------------------------------------
Spawn(p, others) ==
    /\ stage[p] = "absent"
    /\ stage' = [q \in Pids |-> IF q = p THEN "reading" ELSE IF q \in others THEN stage[q] ELSE "absent"]
    /\ overlapped' = (overlapped \/ Starting \cap others # {})

(* systemd starts its process when it has ended, and kills every other      *)
(* daemon before.                                                           *)
SystemdStarts(p) ==
    /\ systemd /\ unit = None
    /\ Spawn(p, {}) /\ unit' = p
    /\ UNCHANGED <<systemd, lock, watching, recovery, deaths>>

(* The watchdog counts with ps, which may fail, and starts one if the count *)
(* is zero; something else may have started one in between.                 *)
NoneCounted == Alive = {}
Counts ==
    /\ ~systemd /\ ~watching
    /\ watching' = NoneCounted
    /\ UNCHANGED <<systemd, unit, stage, lock, overlapped, recovery, deaths>>
WatchdogStarts(p) ==
    /\ watching /\ watching' = FALSE
    /\ Spawn(p, Pids)
    /\ UNCHANGED <<systemd, unit, lock, recovery, deaths>>
(* An operator, or a daemon that upgraded itself the old way.               *)
OtherStarts(p) ==
    /\ deaths < MaxDeaths /\ deaths' = deaths + 1
    /\ Spawn(p, Pids)
    /\ UNCHANGED <<systemd, unit, lock, watching, recovery>>

Left(p) == IF unit = p THEN None ELSE unit

(* The lock: held if its process is alive and is a daemon, which the        *)
(* process that reads it is itself when it has come to the same id.         *)
HeldBy_NotLooked(p) == FALSE                                         \* mutant
HeldBy_Stale(p) == lock # None                                        \* mutant
HeldBy(p) == lock # None /\ stage[lock] # "absent"
ReadLock(p) ==
    /\ stage[p] = "reading"
    /\ stage' = [stage EXCEPT ![p] = IF HeldBy(p) THEN "absent" ELSE "writing"]
    /\ unit' = IF HeldBy(p) THEN Left(p) ELSE unit
    /\ UNCHANGED <<systemd, lock, watching, overlapped, recovery, deaths>>
WriteLock(p) ==
    /\ stage[p] = "writing"
    /\ stage' = [stage EXCEPT ![p] = "running"] /\ lock' = p
    /\ UNCHANGED <<systemd, unit, watching, overlapped, recovery, deaths>>

(* A death; in the middle of a write it leaves an empty file, which reads   *)
(* as no lock.                                                              *)
Dies(p) ==
    /\ stage[p] # "absent" /\ deaths < MaxDeaths /\ deaths' = deaths + 1
    /\ stage' = [stage EXCEPT ![p] = "absent"] /\ unit' = Left(p)
    /\ lock' \in IF stage[p] = "writing" THEN {lock, None} ELSE {lock}
    /\ UNCHANGED <<systemd, watching, overlapped, recovery>>

-----------------------------------------------------------------------------
(* One recovery check, every ten minutes of a daemon: the gateway, then the *)
(* plugin, then the number of daemons.  The time of the last action and its *)
(* name come from different places: an error sets only the time.            *)
Recent(name, last) == last.action = name /\ last.age < 3
Acted(name) == [action |-> name, age |-> 0]
Errs(last) == [last EXCEPT !.age = 0]

GatewayPart(last) == ~gateway /\ ~Recent("GATEWAY_RESTARTED", last)
(* A restart for the plugin, unless the gateway was restarted just now.     *)
PluginPart(last, wanted) == wanted /\ ~plugin /\ ~Recent("PLUGIN_RESYNCED", last)
PluginRestarts_Always(before) == TRUE                                \* mutant
PluginRestarts(before) == ~before

Aged(n) == IF n < 3 THEN n + 1 ELSE 3
Recover(p) ==
    /\ stage[p] = "running"
    /\ \E came, listed, counted \in BOOLEAN :   \* after the restart; the CLI and ps work
         LET last0 == [action |-> action, age |-> Aged(age)]
             first == GatewayPart(last0)
             last1 == IF ~first THEN last0
                      ELSE IF came THEN Acted("GATEWAY_RESTARTED") ELSE Errs(Acted("GATEWAY_RESTARTED"))
             resync == PluginPart(last1, listed)
             second == resync /\ files /\ PluginRestarts(first)
             last2 == IF ~resync THEN last1 ELSE IF files THEN Acted("PLUGIN_RESYNCED") ELSE Errs(last1)
             missing == ~counted /\ ~Recent("DAEMON_RESTARTED", last2)
             last3 == IF missing THEN Acted("DAEMON_RESTARTED") ELSE last2
         IN /\ action' = last3.action /\ age' = last3.age
            /\ restarts' = (IF first THEN 1 ELSE 0) + (IF second THEN 1 ELSE 0)
            /\ rest' = IF restarts' > 0 THEN 0 ELSE Aged(rest)
            /\ gateway' = IF restarts' > 0 THEN came ELSE gateway
            /\ plugin' = (plugin \/ (resync /\ files))
            /\ IF missing /\ Cardinality(Alive) < 2
                 THEN \E q \in Pids : Spawn(q, Pids)
                 ELSE UNCHANGED <<stage, overlapped>>
    /\ UNCHANGED <<systemd, unit, lock, watching, files, deaths>>

(* What fails around it.                                                    *)
GatewayFails == gateway /\ gateway' = FALSE /\ UNCHANGED <<systemd, unit, stage, lock, watching, overlapped,
                                                plugin, files, action, age, restarts, rest, deaths>>
PluginFails == plugin /\ plugin' = FALSE /\ UNCHANGED <<systemd, unit, stage, lock, watching, overlapped,
                                                gateway, files, action, age, restarts, rest, deaths>>

Next ==
    \/ Counts \/ GatewayFails \/ PluginFails
    \/ \E p \in Pids :
         \/ SystemdStarts(p) \/ WatchdogStarts(p) \/ OtherStarts(p) \/ ReadLock(p) \/ WriteLock(p)
         \/ Dies(p) \/ Recover(p)

-----------------------------------------------------------------------------
(* Every variable has its type. *)
TypeOK ==
    /\ stage \in [Pids -> {"absent", "reading", "writing", "running"}]
    /\ lock \in Pids \cup {None} /\ watching \in BOOLEAN
    /\ action \in {None, "GATEWAY_RESTARTED", "PLUGIN_RESYNCED", "DAEMON_RESTARTED"}
    /\ age \in 0..3 /\ rest \in 0..3 /\ restarts \in 0..2

(* Daemons that did not start at the same moment never run together, and no *)
(* check restarts the gateway twice.                                        *)
OneDaemon ==
    /\ ~overlapped => Cardinality(Running) <= 1
    /\ restarts <= 1

(* A daemon runs again after every death, and it does not stop trying to    *)
(* restart a gateway that is down, if the plugin files are where they       *)
(* should be: without them each check fails and takes the time of the last  *)
(* restart for now.                                                         *)
DaemonReturns == []<>(Running # {})
GatewayRetried == files => []<>(gateway \/ rest = 0)
=============================================================================
