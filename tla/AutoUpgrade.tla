---------------------------- MODULE AutoUpgrade ----------------------------
(***************************************************************************)
(* A node that upgrades itself in place: the check of each tick in         *)
(* src/runtime/upgrade/autoUpgradeV0_3_2.mjs and, where the environment    *)
(* turns that off, the older src/runtime/autoUpgrade.mjs.  Both check out  *)
(* another version in the working tree of the process that runs, test it   *)
(* and take it back if it fails.  Every command may fail, and the process  *)
(* may be killed between any two of them; systemd starts it again.         *)
(***************************************************************************)
EXTENDS Naturals

CONSTANTS
    Versions,      \* stable tags in their order
    Bad,           \* the versions that never pass a health check
    MaxRetries,    \* AUTO_UPGRADE_MAX_RETRIES
    MaxKills       \* bound: kills of the process

VARIABLES
    legacy,        \* AUTO_UPGRADE_V0_3_2_ENABLED is not "true"
    step,          \* where the check is
    code, loaded,  \* the version in the working tree, and the one that runs
    phase, current, retries,   \* upgrade_state.json: state, current_version, retry_count
    target, previous,          \* target_version and previous_ref of this attempt
    lock,          \* upgrade.lock, of the older check
    strategy,      \* strategy_state.json, a tracked file: "own" or "shipped"
    backup,        \* what backupCriticalFiles has of it, or "none"
    kills, accepted, attempts  \* history: the targets that were verified, and
                               \* the attempts since one succeeded or the node was up to date

upgradeVars == <<legacy, step, code, loaded, phase, current, retries, target, previous,
                 lock, strategy, backup, kills, accepted, attempts>>
tree == <<code, strategy>>
file == <<phase, current, retries>>
attempt == <<target, previous, backup>>
fixed == <<legacy, loaded, kills>>

Init ==
    /\ legacy \in BOOLEAN
    /\ step = "idle"
    /\ code = 1 /\ loaded = 1
    /\ phase = "steady" /\ current = 0 /\ retries = 0       \* 0: no stable tag
    /\ target = 0 /\ previous = 0
    /\ lock = FALSE
    /\ strategy = "own" /\ backup = "none"
    /\ kills = 0 /\ accepted = {} /\ attempts = 0

-----------------------------------------------------------------------------
(* What a check finds: an override, a version of skill.md when there is no  *)
(* manifest, or a manifest, which must be signed (verifyReleaseManifest),   *)
(* match the hash of skill.md and accept the local version.                 *)
Sources == {"override", "skill.md", "manifest", "unsigned manifest",
            "manifest of another skill.md", "manifest for newer nodes", "nothing"}
Trusted_AnyManifest(source) == source # "nothing"                    \* mutant
Trusted(source) == source \in {"override", "skill.md", "manifest"}
Genuine == {"override", "skill.md", "manifest"}

(* The local version: what the state file says, else the tag checked out.   *)
Local == IF current # 0 THEN current ELSE code

(* From the schedule to the decision, with AUTO_UPGRADE_ENABLED; a state    *)
(* that an attempt has left unfinished stops every later check.             *)
InProgress == {"upgrading", "rollback"}
CheckV032 ==
    /\ step = "idle" /\ ~legacy /\ phase \notin InProgress
    /\ \E source \in Sources, found \in Versions :
         LET newer == Trusted(source) /\ found > Local
             goes == newer /\ retries < MaxRetries
         IN /\ current' = IF Trusted(source) THEN Local ELSE current
            /\ retries' = IF Trusted(source) /\ ~newer THEN 0 ELSE retries
            /\ attempts' = IF Trusted(source) /\ ~newer THEN 0
                           ELSE IF goes THEN attempts + 1 ELSE attempts
            /\ phase' = IF goes THEN "upgrading" ELSE IF newer THEN "upgrade_needed" ELSE "steady"
            /\ IF goes
                 THEN /\ target' = found /\ previous' = code /\ backup' = "none"
                      /\ accepted' = IF source \in Genuine THEN {found} ELSE {}
                      /\ step' = "backup"
                 ELSE UNCHANGED <<attempt, accepted, step>>
    /\ UNCHANGED <<fixed, tree, lock>>

(* The older check: only tags, only a newer patch of the same family, and   *)
(* never while there is a lock.                                             *)
CheckLegacy ==
    /\ step = "idle" /\ legacy /\ ~lock
    /\ \E found \in Versions :
         /\ found > code
         /\ target' = found /\ accepted' = {found}
    /\ previous' = code /\ backup' = "none" /\ lock' = TRUE
    /\ step' = "checkout"
    /\ UNCHANGED <<fixed, tree, file, attempts>>

(* backupCriticalFiles; a failure is only logged. *)
Backup ==
    /\ step = "backup" /\ step' = "checkout"
    /\ backup' \in {strategy, "none"}
    /\ UNCHANGED <<fixed, tree, file, target, previous, lock, accepted, attempts>>

(* git fetch, git checkout -f and npm install: checkout may do its work     *)
(* before a later command fails.                                            *)
Checkout ==
    /\ step = "checkout"
    /\ \/ code' = target /\ strategy' = "shipped" /\ step' \in {"restore", "failed"}
       \/ UNCHANGED tree /\ step' = "failed"
    /\ UNCHANGED <<fixed, file, attempt, lock, accepted, attempts>>

(* restoreCriticalFiles, after either checkout.                             *)
Restored_Never == strategy                                           \* mutant
Restored == IF backup = "none" THEN strategy ELSE backup
Restore ==
    /\ step \in {"restore", "restore back"}
    /\ strategy' = Restored
    /\ step' = IF step = "restore" THEN "health" ELSE "health back"
    /\ UNCHANGED <<fixed, code, file, attempt, lock, accepted, attempts>>

(* postUpgradeHealthCheck, and healthCheck: a good version may fail too.    *)
Healthy == code \notin Bad
Done ==
    /\ step = "health" /\ Healthy /\ ~legacy
    /\ phase' = "upgraded" /\ current' = target /\ retries' = 0
    /\ step' = "exit" /\ attempts' = 0
    /\ UNCHANGED <<fixed, tree, attempt, lock, accepted>>
(* The older check means to exit too, but the name it asks is not defined,  *)
(* and the error is caught: the old code goes on in the new tree.           *)
DoneLegacy ==
    /\ step = "health" /\ Healthy /\ legacy
    /\ lock' = FALSE /\ step' = "idle"
    /\ UNCHANGED <<fixed, tree, file, attempt, accepted, attempts>>
Unhealthy ==
    /\ step = "health" /\ step' = "failed"
    /\ UNCHANGED <<fixed, tree, file, attempt, lock, accepted, attempts>>

(* The state is written as failed, then as rollback.                        *)
Failed_NotCounted == UNCHANGED <<retries, current>>                  \* mutant
Failed == retries' = retries + 1 /\ UNCHANGED current
WriteFailed ==
    /\ step = "failed" /\ ~legacy
    /\ phase' = "failed" /\ Failed /\ step' = "rolling"
    /\ UNCHANGED <<fixed, tree, attempt, lock, accepted, attempts>>
WriteRollback ==
    /\ step = "rolling"
    /\ phase' = "rollback" /\ step' = "rollback"
    /\ UNCHANGED <<fixed, tree, current, retries, attempt, lock, accepted, attempts>>

(* The checkout of previous_ref, which overwrites tracked files again; a    *)
(* failure ends the attempt for good.                                       *)
Rollback ==
    /\ step = "rollback"
    /\ \/ code' = previous /\ strategy' = "shipped" /\ step' \in {"restore back", "idle"}
       \/ UNCHANGED tree /\ step' = "idle"
    /\ UNCHANGED <<fixed, file, attempt, lock, accepted, attempts>>
RolledBack_Unchecked == TRUE                                         \* mutant
RolledBack == Healthy
EndRollback ==
    /\ step = "health back"
    /\ \/ RolledBack /\ phase' = "failed" /\ current' = previous /\ step' = "exit"
       \/ step' = "idle" /\ UNCHANGED <<phase, current>>
    /\ UNCHANGED <<fixed, tree, retries, attempt, lock, accepted, attempts>>
(* The older one takes the checkout back, or not, and goes on.              *)
RollbackLegacy ==
    /\ step = "failed" /\ legacy
    /\ \/ code' = previous /\ strategy' = "shipped"
       \/ UNCHANGED tree
    /\ lock' = FALSE /\ step' = "idle"
    /\ UNCHANGED <<fixed, file, attempt, accepted, attempts>>

(* process.exit, and the start of whatever is in the tree.                  *)
Restart ==
    /\ step = "exit"
    /\ loaded' = code /\ step' = "idle"
    /\ UNCHANGED <<legacy, tree, file, attempt, lock, kills, accepted, attempts>>
Kill ==
    /\ kills < MaxKills /\ kills' = kills + 1
    /\ loaded' = code /\ step' = "idle"
    /\ UNCHANGED <<legacy, tree, file, attempt, lock, accepted, attempts>>

Next ==
    \/ CheckV032 \/ CheckLegacy \/ Backup \/ Checkout \/ Restore \/ Done \/ DoneLegacy
    \/ Unhealthy \/ WriteFailed \/ WriteRollback \/ Rollback \/ EndRollback
    \/ RollbackLegacy \/ Restart \/ Kill

-----------------------------------------------------------------------------
(* Every variable has its type. *)
TypeOK ==
    /\ legacy \in BOOLEAN /\ lock \in BOOLEAN
    /\ step \in {"idle", "backup", "checkout", "restore", "health", "failed", "rolling",
                 "rollback", "restore back", "health back", "exit"}
    /\ code \in Versions /\ loaded \in Versions
    /\ phase \in InProgress \cup {"steady", "upgrade_needed", "upgraded", "failed"}
    /\ current \in Versions \cup {0} /\ retries \in 0..MaxRetries
    /\ target \in Versions \cup {0} /\ previous \in Versions \cup {0}
    /\ strategy \in {"own", "shipped"} /\ backup \in {"own", "shipped", "none"}

(* Only a verified version is tried, at most MaxRetries times in a row;     *)
(* a process that was not killed never exits into a version that failed     *)
(* its health check, and, unless the rollback failed, runs on only in the   *)
(* tree it was started from; and an attempt whose backup succeeded gives    *)
(* the strategy back, whatever fails, unless the rollback does.             *)
UpgradeSafe ==
    /\ step \in {"checkout", "health"} => target \in accepted
    /\ ~legacy /\ retries = MaxRetries => step \notin {"checkout", "health"}
    /\ ~legacy => attempts <= MaxRetries + kills
    /\ step = "exit" => code \notin Bad
    /\ kills = 0 /\ ~legacy /\ step = "idle" /\ phase # "rollback" => loaded = code
    /\ step = "exit" /\ backup = "own" => strategy = "own"
=============================================================================
