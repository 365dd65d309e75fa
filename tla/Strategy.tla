------------------------------ MODULE Strategy ------------------------------
(***************************************************************************)
(* How a node changes its prices (src/strategy, src/analytics): rewards    *)
(* become earnings when somebody rebuilds them, and every run of           *)
(* scripts/strategy_evolve.mjs evaluates the last adjustment, makes one or *)
(* does nothing.  A run is synchronous, and runs do not overlap.  Time     *)
(* counts evaluation windows.                                              *)
(***************************************************************************)
EXTENDS Integers, FiniteSets

CONSTANTS None, MaxTime, MaxRewards, MaxIds,
          Day,                           \* windows in a day
          ThresholdSteps, WeightSteps    \* 1.0 in steps of 0.1, 0.2 in steps of 0.05

VARIABLES
    now,
    rewards,       \* reward_ledger.jsonl: when the identity was rewarded
    earnings,      \* earnings_analytics.json
    state,         \* strategy_state.json
    timeline,      \* strategy_timeline.jsonl
    ids, open      \* history: adjustments, those without an evaluation

strategyVars == <<now, rewards, earnings, state, timeline, ids, open>>

Init ==
    /\ now = 0 /\ rewards = {} /\ earnings = None
    /\ state = [params |-> [threshold |-> 0, task |-> 0, channel |-> 0], last |-> None,
                rollback |-> None, pending |-> None]
    /\ timeline = {} /\ ids = 0 /\ open = {}

(* The environment: time, and rewards that are credited.                    *)
WindowPasses ==
    /\ now < MaxTime /\ now' = now + 1
    /\ UNCHANGED <<rewards, earnings, state, timeline, ids, open>>
Rewarded ==
    /\ now \notin rewards /\ Cardinality(rewards) < MaxRewards
    /\ rewards' = rewards \cup {now}
    /\ UNCHANGED <<now, earnings, state, timeline, ids, open>>

(* What the ledger says of the last day and the day before.                 *)
Within(from, to) == Cardinality({t \in rewards : now - t \in from..to})
RebuildEarnings ==
    /\ earnings' = IF rewards = {} THEN None
                   ELSE [last |-> Within(0, Day), prev |-> Within(Day + 1, 2 * Day),
                         credited |-> Cardinality(rewards)]
    /\ UNCHANGED <<now, rewards, state, timeline, ids, open>>

-----------------------------------------------------------------------------
Pending == state.pending
Cooling == state.last # None /\ now - state.last < 1
Due_Later == Pending # None /\ now - Pending.at > 1                  \* mutant
Due == Pending # None /\ now - Pending.at >= 1
Worse == 10 * earnings.last < 9 * Pending.base
Under == earnings.last < earnings.prev

(* The write comes before the line in the timeline, which may fail.         *)
Save(st, line) == state' = st /\ timeline' \in {timeline, timeline \cup {line}}

Result == IF 10 * earnings.last > 11 * Pending.base THEN "improved"
          ELSE IF Worse THEN "degraded" ELSE "flat"
RolledBack == [state EXCEPT !.params = state.rollback, !.last = now, !.pending = None]
Kept == [state EXCEPT !.pending = None]
Evaluate ==
    /\ ~Cooling /\ earnings # None /\ Due
    /\ Save(IF Worse THEN RolledBack ELSE Kept,
            [id |-> Pending.id, what |-> IF Worse THEN "rolled_back" ELSE "kept", result |-> Result])
    /\ open' = open \ {Pending.id}
    /\ UNCHANGED <<now, rewards, earnings, ids>>

(* The market favours a higher or a lower threshold, or the best task gets  *)
(* more weight; one of the others has its turn only where there is no task: *)
(* a channel, or what a market leader that is far enough ahead would do.    *)
Clamp_Never(x, n) == x                                               \* mutant
Clamp(x, n) == IF x > n THEN n ELSE IF x < -n THEN -n ELSE x
Shifted(p, step) == [p EXCEPT !.threshold = Clamp(@ + step, ThresholdSteps)]
Reinforced(p, what) == [p EXCEPT ![what] = Clamp(@ + 1, WeightSteps)]
ImitationHint(p, lean) ==
    IF earnings.credited < 3 \/ ~Under THEN {}
    ELSE IF lean # 0 THEN {p, Shifted(p, lean)} ELSE {p, Reinforced(p, "task"), Reinforced(p, "channel")}
Proposals(p, lean) ==
    IF lean # 0 THEN {Shifted(p, lean)}
    ELSE IF earnings.credited > 0 THEN {Reinforced(p, "task")} ELSE ImitationHint(p, lean)

Adjust ==
    /\ ~Cooling /\ earnings # None /\ ~Due /\ Under /\ ids < MaxIds
    /\ \E lean \in {-1, 0, 1} : \E params \in Proposals(state.params, lean) :
         Save([params |-> params, last |-> now, rollback |-> state.params,
               pending |-> [at |-> now, base |-> earnings.last, id |-> ids + 1]],
              [id |-> ids + 1, what |-> "adjustment", result |-> "none"])
    /\ ids' = ids + 1 /\ open' = open \cup {ids'}
    /\ UNCHANGED <<now, rewards, earnings>>

Next == WindowPasses \/ Rewarded \/ RebuildEarnings \/ Evaluate \/ Adjust

-----------------------------------------------------------------------------
(* Every variable has its type. *)
TypeOK ==
    /\ now \in 0..MaxTime /\ ids \in 0..MaxIds /\ open \subseteq 1..MaxIds
    /\ state.params.threshold \in -ThresholdSteps..ThresholdSteps
    /\ state.params.task \in 0..WeightSteps

(* No adjustment is made on one that was not evaluated; what is pending can *)
(* be taken back and is one step in one direction; and no adjustment is     *)
(* judged twice.                                                            *)
Steps(a, b) == IF a > b THEN a - b ELSE b - a
Reversible ==
    /\ open \subseteq (IF Pending = None THEN {} ELSE {Pending.id})
    /\ Pending # None =>
         LET p == state.params q == state.rollback
         IN Steps(p.threshold, q.threshold) + Steps(p.task, q.task) + Steps(p.channel, q.channel) <= 1
    /\ \A x, y \in timeline :
         x.id = y.id /\ x.what # "adjustment" /\ y.what # "adjustment" => x = y
=============================================================================
