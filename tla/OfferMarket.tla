---------------------------- MODULE OfferMarket ----------------------------
(***************************************************************************)
(* Pickers that pull offers from data/offer_feed.jsonl and the ledgers     *)
(* they post to (src/market, src/routing/openOfferRouter.mjs, src/value,   *)
(* src/reward, src/reputation).  The file system calls are synchronous:    *)
(* pickers of one process give way only at an await, those of several      *)
(* processes at every call.  Every offer is worth one.                     *)
(***************************************************************************)
EXTENDS Integers, Sequences, SequencesExt

CONSTANTS Pickers, Offers, Source, None, MaxClock, MaxCycles, MaxCrashes,
          HourCap,       \* what a source may give in an hour
          CompetitionCap \* competition events of one identity that count in an hour

VARIABLES
    alone,         \* the pickers are in one process
    now,
    latest,        \* of each offer: the first event with the greatest ts
    earliest,      \* of each offer: the first offer_executed with the smallest ts
    at,            \* of each picker: what it does next
    todo, seen,    \* of each picker: offers to try, as they were discovered
    job, stamp,    \* of each picker: its offer, the ts of its offer_executed
    amount, copy,  \* of each picker: what it posts, the index as it was read
    push,          \* the router: <<what it waits for, offer>>
    ledger, index, \* of reputation, value and reward: the file and the sums kept beside it
    behind,        \* history: indexes a crash left behind
    won,           \* history: <<picker, offer>> in the order they won
    cycles, crashes            \* bounds

marketVars == <<alone, now, latest, earliest, at, todo, seen, job, stamp, amount, copy, push,
                ledger, index, behind, won, cycles, crashes>>
feed == <<now, latest, earliest>>
books == <<amount, copy, ledger, index, behind>>
lists == <<todo, seen>>
bounds == <<cycles, crashes>>

Ledgers == {"reputation", "value", "reward"}
Accounts == Pickers \cup {Source}
Zero == [a \in Accounts |-> 0]

(* The entries of an account in a ledger, and what they come to.            *)
Of(l, a) == SelectSeq(ledger[l], LAMBDA e : e.account = a)
Total(entries, a) ==
    LET upTo[i \in 0..Len(entries)] ==
          IF i = 0 THEN 0
          ELSE upTo[i - 1] + (IF entries[i].account = a THEN entries[i].amount ELSE 0)
    IN  upTo[Len(entries)]
SumOf(l, a) == Total(ledger[l], a)

(* Earlier offers of this hour may be in the books, as many as a source may *)
(* give, and one win of each picker.                                        *)
Before(l) == IF l = "value"
               THEN [i \in 1..HourCap |-> [account |-> Source, offer |-> None, amount |-> 1]]
             ELSE SetToSeq({[account |-> p, offer |-> None, amount |-> 5] : p \in Pickers})
Init ==
    /\ alone \in BOOLEAN /\ now = 0
    /\ latest = [o \in Offers |-> [ts |-> 0, source |-> TRUE, task |-> TRUE]]
    /\ earliest = [o \in Offers |-> None]
    /\ at = [p \in Pickers |-> "idle"] /\ todo = [p \in Pickers |-> {}]
    /\ seen = [p \in Pickers |-> latest] /\ job = [p \in Pickers |-> None]
    /\ stamp = [p \in Pickers |-> 0] /\ amount = [p \in Pickers |-> 0]
    /\ copy = [p \in Pickers |-> Zero] /\ push = None
    /\ \/ ledger = [l \in Ledgers |-> <<>>]
       \/ ledger = [l \in Ledgers |-> IF l = "reward" THEN <<>> ELSE Before(l)]
    /\ index = [l \in Ledgers |-> [a \in Accounts |-> SumOf(l, a)]]
    /\ behind = {} /\ won = <<>> /\ cycles = 0 /\ crashes = 0

-----------------------------------------------------------------------------
(* A picker of the same process runs only while the others wait.            *)
Waits == {"idle", "listed", "hooked"}
May(p) == alone => \A q \in Pickers \ {p} : at[q] \in Waits

Later(old, ts, source, task) ==
    IF ts > old.ts THEN [ts |-> ts, source |-> source, task |-> task] ELSE old
Told(old, ts, p, o) == Later(old, ts, seen[p][o].source, seen[p][o].task)

Discover(p) ==
    /\ May(p) /\ at[p] = "idle" /\ cycles < MaxCycles /\ cycles' = cycles + 1
    /\ todo' = [todo EXCEPT ![p] = {o \in Offers : earliest[o] = None}]
    /\ seen' = [seen EXCEPT ![p] = latest] /\ at' = [at EXCEPT ![p] = "listed"]
    /\ UNCHANGED <<alone, feed, job, stamp, books, push, won, crashes>>

(* Interest, which names neither source nor task, then the decision, which  *)
(* names the task, then the attempt; the clock goes on in between.          *)
Skip(p) == at' = [at EXCEPT ![p] = IF todo'[p] = {} THEN "idle" ELSE "trying"]
Try(p) ==
    /\ May(p) /\ at[p] \in {"listed", "trying"}
    /\ \/ /\ todo[p] = {} /\ UNCHANGED <<feed, todo, job>> /\ Skip(p)
       \/ \E o \in todo[p], t \in now..MaxClock, u \in now..MaxClock :
            LET l1 == Later(latest[o], now, FALSE, FALSE)
                l2 == Later(l1, t, FALSE, TRUE)
            IN /\ t <= u /\ todo' = [todo EXCEPT ![p] = @ \ {o}]
               /\ \/ /\ ~seen[p][o].task              \* unsupported
                     /\ latest' = [latest EXCEPT ![o] = l1] /\ Skip(p)
                     /\ now' = t /\ UNCHANGED job
                  \/ /\ seen[p][o].task               \* too little, or too much to do
                     /\ latest' = [latest EXCEPT ![o] = l2] /\ Skip(p)
                     /\ now' = t /\ UNCHANGED job
                  \/ /\ seen[p][o].task
                     /\ latest' = [latest EXCEPT ![o] = Told(l2, u, p, o)]
                     /\ now' = u /\ at' = [at EXCEPT ![p] = "hooked"]
                     /\ job' = [job EXCEPT ![p] = o]
            /\ UNCHANGED earliest
    /\ UNCHANGED <<alone, seen, stamp, books, push, won, bounds>>

(* A win counts five times a loss.                                          *)
Reports(p, sign) ==
    /\ amount' = [amount EXCEPT ![p] = sign] /\ at' = [at EXCEPT ![p] = "reputation_check"]
    /\ latest' = [latest EXCEPT ![job[p]] = Told(@, now, p, job[p])]
Lost(p) == Reports(p, -1)
Taken_Never(o) == FALSE                                              \* mutant
Taken(o) == earliest[o] # None
Check(p) ==
    /\ May(p) /\ at[p] = "hooked"
    /\ IF Taken(job[p]) THEN Lost(p)
       ELSE at' = [at EXCEPT ![p] = "stamp"] /\ UNCHANGED <<latest, amount>>
    /\ UNCHANGED <<alone, now, earliest, lists, job, stamp, copy, push, ledger, index, behind, won, bounds>>
Stamp(p) ==
    /\ May(p) /\ at[p] = "stamp"
    /\ stamp' = [stamp EXCEPT ![p] = now] /\ at' = [at EXCEPT ![p] = "append"]
    /\ UNCHANGED <<alone, feed, lists, job, books, push, won, bounds>>

Earlier(old, ts, who) == IF old = None \/ ts < old.ts THEN [ts |-> ts, by |-> who] ELSE old
Append2Feed(p) ==
    /\ May(p) /\ at[p] = "append" /\ at' = [at EXCEPT ![p] = "judge"]
    /\ earliest' = [earliest EXCEPT ![job[p]] = Earlier(@, stamp[p], p)]
    /\ stamp' = [stamp EXCEPT ![p] = 0]
    /\ latest' = [latest EXCEPT ![job[p]] = Told(@, stamp[p], p, job[p])]
    /\ UNCHANGED <<alone, now, lists, job, books, push, won, bounds>>
Judge(p) ==
    /\ May(p) /\ at[p] = "judge"
    /\ IF earliest[job[p]].by = p
         THEN Reports(p, 5) /\ won' = Append(won, <<p, job[p]>>)
         ELSE Lost(p) /\ UNCHANGED won
    /\ UNCHANGED <<alone, now, earliest, lists, job, stamp, copy, push, ledger, index, behind, bounds>>

-----------------------------------------------------------------------------
(* Every posting reads its ledger, appends to it, reads the index beside it *)
(* and writes that.  Reputation comes first; a winner then gives the source *)
(* of the offer its value, if the offer still names it, and takes as much.  *)
Account(l, p) == IF l = "value" THEN Source ELSE p
IsWin(p) == won # <<>> /\ \E i \in DOMAIN won : won[i] = <<p, job[p]>>
Paid(p) == \E i \in DOMAIN ledger["reward"] :
              ledger["reward"][i].account = p /\ ledger["reward"][i].offer = job[p]

(* Where a picker is while it posts.                                        *)
Checking == [reputation |-> "reputation_check", value |-> "value_check", reward |-> "reward_check"]
Appending == [reputation |-> "reputation_append", value |-> "value_append", reward |-> "reward_append"]
Loading == [reputation |-> "reputation_load", value |-> "value_load", reward |-> "reward_load"]
Saving == [reputation |-> "reputation_save", value |-> "value_save", reward |-> "reward_save"]

(* What follows a posting of l with this amount.                            *)
After_Anyone(p, l, v) ==                                             \* mutant
    CASE l = "reputation" -> IF seen[p][job[p]].source THEN "value_check" ELSE "idle"
      [] l = "value" /\ v > 0 -> "reward_check"
      [] OTHER -> "idle"
After(p, l, v) ==
    IF l = "reputation" /\ IsWin(p)
      THEN IF seen[p][job[p]].source THEN "value_check" ELSE "idle"
    ELSE IF l = "reputation" THEN IF todo[p] = {} THEN "idle" ELSE "trying"
    ELSE IF l = "value" /\ v > 0 THEN "reward_check" ELSE "idle"

Counted(p) == Len(Of("reputation", p)) < CompetitionCap
PostedAmount_Uncapped(p, l) == amount[p]                             \* mutant
PostedAmount(p, l) ==
    CASE l = "reputation" -> IF Counted(p) THEN amount[p] ELSE 0
      [] l = "value" -> IF SumOf(l, Source) + 1 > HourCap THEN 0 ELSE 1
      [] OTHER -> amount[p]
CheckPosting(p, l) ==
    /\ at[p] = Checking[l]
    /\ IF l = "reward" /\ Paid(p)
         THEN at' = [at EXCEPT ![p] = "idle"] /\ UNCHANGED amount
         ELSE /\ amount' = [amount EXCEPT ![p] = PostedAmount(p, l)]
              /\ at' = [at EXCEPT ![p] = Appending[l]]
    /\ UNCHANGED <<copy, ledger, index>>

Limited(p, l) == l = "reputation" /\ amount[p] = 0
AppendPosting(p, l) ==
    /\ at[p] = Appending[l]
    /\ ledger' = [ledger EXCEPT ![l] =
                    Append(@, [account |-> Account(l, p), offer |-> job[p], amount |-> amount[p]])]
    /\ at' = [at EXCEPT ![p] = IF Limited(p, l) THEN After(p, l, 0) ELSE Loading[l]]
    /\ UNCHANGED <<amount, copy, index>>
LoadIndex(p, l) ==
    /\ at[p] = Loading[l]
    /\ copy' = [copy EXCEPT ![p] = index[l]] /\ at' = [at EXCEPT ![p] = Saving[l]]
    /\ UNCHANGED <<amount, ledger, index>>
SaveIndex(p, l) ==
    /\ at[p] = Saving[l]
    /\ index' = [index EXCEPT ![l] = [copy[p] EXCEPT ![Account(l, p)] = @ + amount[p]]]
    /\ at' = [at EXCEPT ![p] = After(p, l, amount[p])] /\ copy' = [copy EXCEPT ![p] = Zero]
    /\ UNCHANGED <<amount, ledger>>
Post(p, l) ==
    /\ May(p)
    /\ CheckPosting(p, l) \/ AppendPosting(p, l) \/ LoadIndex(p, l) \/ SaveIndex(p, l)
    /\ UNCHANGED <<alone, feed, lists, job, stamp, push, behind, won, bounds>>

(* An operator rebuilds an index while the pickers rest.                    *)
Rebuild(l) ==
    /\ l \in behind /\ behind' = behind \ {l}
    /\ \A p \in Pickers : at[p] \in Waits
    /\ index' = [index EXCEPT ![l] = [a \in Accounts |-> SumOf(l, a)]]
    /\ UNCHANGED <<alone, feed, at, lists, job, stamp, amount, copy, push, ledger, won, bounds>>

-----------------------------------------------------------------------------
(* The router sends an offer to one candidate after another and lets the    *)
(* first that accepts execute it; it does not look at the feed.             *)
Says(o, source) == latest' = [latest EXCEPT ![o] = Later(@, now, source, TRUE)]
Route(o) ==
    /\ push = None /\ push' = <<"answer", o>> /\ Says(o, TRUE)
    /\ alone => \A p \in Pickers : at[p] \in Waits
    /\ UNCHANGED <<alone, now, earliest, at, lists, job, stamp, books, won, bounds>>
Answered ==
    /\ push # None /\ push[1] \in {"answer", "execution"}
    /\ alone => \A p \in Pickers : at[p] \in Waits
    /\ Says(push[2], TRUE)
    /\ \/ /\ push[1] = "answer"            \* expired or rejected by all, or accepted
          /\ push' \in {<<"ended">>, <<"execution", push[2]>>} /\ UNCHANGED earliest
       \/ /\ push[1] = "execution" /\ push' = <<"ended">>
          /\ earliest' \in {earliest,
                            [earliest EXCEPT ![push[2]] = Earlier(@, now, Source)]}
    /\ UNCHANGED <<alone, now, at, lists, job, stamp, books, won, bounds>>

(* The clock of the machine is set; a process dies.                         *)
ClockSet ==
    /\ now' \in 0..MaxClock \ {now} /\ crashes < MaxCrashes /\ crashes' = crashes + 1
    /\ UNCHANGED <<alone, latest, earliest, at, lists, job, stamp, books, push, won, cycles>>
Die(p) ==
    /\ at[p] # "idle" /\ crashes < MaxCrashes /\ crashes' = crashes + 1
    /\ at' = [q \in Pickers |-> IF alone \/ q = p THEN "idle" ELSE at[q]]
    /\ behind' = behind \cup
         {l \in Ledgers : \E q \in Pickers :
            (q = p \/ alone) /\ at[q] \in {Loading[l], Saving[l]}}
    /\ UNCHANGED <<alone, feed, lists, job, stamp, amount, copy, push, ledger, index, won, cycles>>

Picks(p) ==
    \/ Discover(p) \/ Try(p) \/ Check(p) \/ Stamp(p) \/ Append2Feed(p) \/ Judge(p)
    \/ \E l \in Ledgers : Post(p, l)
Next ==
    \/ \E p \in Pickers : Picks(p) \/ Die(p)
    \/ \E l \in Ledgers : Rebuild(l)
    \/ \E o \in Offers : Route(o)
    \/ Answered \/ ClockSet

-----------------------------------------------------------------------------
(* Every variable has its type. *)
TypeOK ==
    /\ now \in 0..MaxClock /\ behind \subseteq Ledgers
    /\ \A o \in Offers : earliest[o] = None \/ earliest[o].by \in Accounts
    /\ \A p \in Pickers : todo[p] \subseteq Offers /\ job[p] \in Offers \cup {None}

(* Pickers of one process win an offer once and are paid for it once,       *)
(* whatever the clock says, routes and deaths do; in several processes an   *)
(* identity is still paid once for an offer.                                *)
OneWinner == alone => \A i, j \in DOMAIN won : won[i][2] = won[j][2] => i = j
PaidOnce ==
    \A i, j \in DOMAIN ledger["reward"] :
        /\ ledger["reward"][i].offer = ledger["reward"][j].offer
        /\ alone \/ ledger["reward"][i].account = ledger["reward"][j].account
        => i = j

(* What a source gives in an hour is capped, and every index is the sum of  *)
(* its ledger, but for those a crash left behind.                           *)
BooksBalance ==
    /\ alone => SumOf("value", Source) <= HourCap
    /\ alone /\ (\A p \in Pickers : at[p] \in Waits) =>
         \A l \in Ledgers \ behind : index[l] = [a \in Accounts |-> SumOf(l, a)]
=============================================================================
