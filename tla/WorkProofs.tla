----------------------------- MODULE WorkProofs -----------------------------
(***************************************************************************)
(* Proofs about the parts of Work, for any sets of calls, tasks, versions, *)
(* pickers, dialogues, nodes and daemons, and any bounds.  The inductive   *)
(* invariant of a part says how far its steps have come and what has been  *)
(* done by then: a property that counts deeds (calls, messages, attempts,  *)
(* payments, answers) follows from the deed being on record before the     *)
(* step that could repeat it.                                              *)
(***************************************************************************)
EXTENDS Work, Integers, FiniteSetTheorems, SequenceTheorems, WellFoundedInduction, TLAPS

(* Nothing arrives before the last step of the call that sends it, which no *)
(* call repeats; and an answer of success comes from a run.                 *)
RemoteInv ==
    /\ R!TypeOK
    /\ RunsForFriendsOnce
    /\ \A c \in R!Asks \cup R!Answers :
         /\ arrived[c] # {} => call[c] = "done"
         /\ \A v, w \in arrived[c] : v = w
    /\ \A t \in Tries, way \in R!T!Ways : <<t, way>> \in taken => way \in arrived[<<"request", t>>]
    /\ \A t \in Tries : reply[t] = "ok" => runs # {}
    /\ \A t \in Tries : reply[t] = "none" => call[<<"result", t>>] = "idle"

(* A message more than deaths account for is one that memory knows of.      *)
DutiesInv ==
    /\ D!TypeOK
    /\ tasks \in Seq([id : 1..MaxTasks, status : D!Open \cup {"published", "completed", "failed"}])
    /\ joins \in Nat /\ radars \in Nat /\ deathsToday \in Nat
    /\ joins <= deaths + (IF mem.joined THEN 1 ELSE 0)
    /\ radars <= deathsToday + (IF mem.delivered = "recent" THEN 1 ELSE 0)
    /\ mem.first \/ disk.first => everDelivered

(* An attempt that has not counted as failed yet is one of those allowed,   *)
(* and a backup that succeeded is back before the health is looked at.      *)
Trying == step \in {"backup", "checkout", "restore", "health", "failed"}
UpgradeInv ==
    /\ U!TypeOK
    /\ attempts \in Nat /\ kills \in Nat
    /\ step # "idle" => target \in Versions /\ previous \in Versions
    /\ step \in {"backup", "checkout", "restore", "health"} => target \in accepted
    /\ ~legacy /\ Trying => retries < MaxRetries
    /\ ~legacy => attempts <= retries + kills + (IF Trying THEN 1 ELSE 0)
    /\ step = "exit" => code \notin Bad
    /\ step \in {"rollback", "restore back", "health back"} => phase = "rollback"
    /\ kills = 0 /\ ~legacy /\ step = "idle" /\ phase # "rollback" => loaded = code
    /\ step \in {"health", "health back", "exit"} /\ backup = "own" => strategy = "own"

(* What may be in the files.  An id that ran belongs to the machine where   *)
(* it ran: as long as it is in node_id, the fingerprint of that machine is  *)
(* beside it (or the id is known to have moved without one), so another     *)
(* machine makes a new seed before it makes a new id; and while the seed of *)
(* an id that ran is in node_seed, the id is in node_id.                    *)
Seeds == {<<n>> : n \in 0..MaxBoots}
NodeIds == ({"host"} \X (0..MaxBoots)) \cup ({"id"} \X Machines \X Seeds)
Prints == {<<m>> : m \in Machines}
Keys == {"key"} \X (0..MaxBoots) \X {1, 2}
AgentIds == {<<"given">>} \cup ({"of"} \X (Keys \cup Seeds))
Value(f) ==
    CASE f = "node_seed" -> Seeds [] f = "node_fingerprint" -> Prints
      [] f \in {"node_id", "NODE_ID"} -> NodeIds [] f = "agent_keypair" -> Keys
      [] OTHER -> AgentIds
IdentityTypes ==
    /\ machine \in Machines /\ DOMAIN file = I!Files
    /\ \A f \in I!Files : file[f] \in Value(f) \cup {None, I!Empty}
    /\ file["NODE_ID"] # I!Empty
    /\ boot \in {"down", "started", "booting", "running"} /\ boots \in 0..MaxBoots
    /\ used \subseteq Machines \X NodeIds
    /\ DOMAIN last = {"id", "agent"}
FileSound ==
    /\ file["node_id"] = None => used = {}
    /\ \A n \in 0..MaxBoots : file["node_id"] = <<"host", n>> => n <= boots
    /\ \A m \in Machines, n \in 0..MaxBoots : file["node_id"] = <<"id", m, <<n>>>> => n <= boots
    /\ \A n \in 0..MaxBoots : file["node_seed"] = <<n>> => n <= boots
UsedSound ==
    /\ \A u \in used : \A m \in Machines, n \in 0..MaxBoots :
         u[2] = <<"id", m, <<n>>>> => n <= boots /\ (boot \in {"started", "booting"} => n < boots)
    /\ \A u \in used : \A m \in Machines : u[2] = <<"id", m, file["node_seed"]>> => file["node_id"] = u[2]
    /\ \A u \in used :
         u[2] \notin carried /\ file["node_id"] = u[2] =>
           \/ machine = u[1] /\ ~I!Clone
           \/ file["node_fingerprint"] = <<u[1]>>
    /\ \A u, v \in used : u[2] = v[2] /\ u[1] # v[1] => u[2] \in carried
LastSound ==
    /\ last.id # None => file["node_id"] = last.id /\ last.id \in NodeIds /\ ~I!Clone
    /\ last.agent # None => file["agent_id"] = last.agent /\ last.agent # I!Empty
(* How far a start has come, and what it has left to write, in this order.  *)
Rank == [node_seed |-> 1, node_id |-> 2, node_fingerprint |-> 3, NODE_ID |-> 4,
         agent_keypair |-> 5, agent_id |-> 5]
Entry == UNION {{f} \X Value(f) : f \in I!Files}
Goes(v, w) == Rank[v[1]] < Rank[w[1]] \/ Rank[w[1]] = 5
InOrder(list) == \A i, j \in DOMAIN list : i < j => Goes(list[i], list[j])
Entries(list) == {list[i] : i \in DOMAIN list}
Before(s, t) == \A v \in Entries(s), w \in Entries(t) : Goes(v, w)
Left(f) == \E w \in Entries(writes) : w[1] = f
StartSound ==
    /\ boot = "started" =>
         /\ file["NODE_ID"] = None /\ holder = file["node_id"] /\ holder # None
         /\ file["node_id"] = <<"host", boots>> => last.id = None
    /\ boot = "booting" =>
         /\ file["NODE_ID"] # None =>
              /\ file["NODE_ID"] = file["node_id"] /\ ~I!Clone
              /\ \A w \in Entries(writes) : Rank[w[1]] = 5
         /\ ~cloned => ~I!Clone
    /\ boot \in {"booting", "running"} /\ ~cloned /\ holder # I!Empty =>
         file["NODE_ID"] \in {None, holder}
    /\ boot = "running" => holder # I!Empty
WritesSound ==
    /\ writes \in Seq(Entry) /\ InOrder(writes)
    /\ Len(writes) <= 7 /\ (writes # <<>> => boot = "booting")
    /\ \A v \in Seeds : <<"node_seed", v>> \in Entries(writes) => v = <<boots>>
    /\ \A v \in NodeIds : <<"node_id", v>> \in Entries(writes) =>
         /\ v = <<"id", machine, IF Left("node_seed") THEN <<boots>> ELSE file["node_seed"]>>
         /\ \A u \in used : u[2] # v
         /\ last.id = None
         /\ I!Read("node_id") = None \/ Left("node_seed") \/ file["node_seed"] = <<boots>>
    /\ \A v \in Prints : <<"node_fingerprint", v>> \in Entries(writes) => v = <<machine>>
    /\ \A v \in NodeIds : <<"NODE_ID", v>> \in Entries(writes) =>
         /\ IF Left("node_id") THEN <<"node_id", v>> \in Entries(writes) ELSE file["node_id"] = v
         /\ Left("node_fingerprint") \/ ~I!Clone
         /\ ~cloned /\ holder # I!Empty => v = holder
    /\ Left("agent_id") => last.agent = None
    /\ Left("node_fingerprint") /\ ~Left("node_id") /\ I!Clone => \A u \in used : u[2] # file["node_id"]
IdentityInv == IdentityTypes /\ FileSound /\ UsedSound /\ LastSound /\ StartSound /\ WritesSound

(* The pickers of one process are alone with an offer from the look at the  *)
(* feed to the verdict, nobody has won an offer that was not executed, and  *)
(* only winners are paid.                                                   *)
Posts == {"value_check", "value_append", "value_load", "value_save",
          "reward_check", "reward_append", "reward_load", "reward_save"}
Stages == {"idle", "listed", "trying", "hooked", "stamp", "append", "judge", "reputation_check",
           "reputation_append", "reputation_load", "reputation_save"} \cup Posts
Rewarded == ledger["reward"]
MarketTypes ==
    /\ M!TypeOK
    /\ doing \in [Pickers -> Stages]
    /\ todo \in [Pickers -> SUBSET Offers]
    /\ job \in [Pickers -> Offers \cup {None}]
    /\ stamp \in [Pickers -> Nat] /\ amount \in [Pickers -> Int]
    /\ won \in Seq(Pickers \X Offers)
    /\ DOMAIN earliest = Offers /\ DOMAIN ledger = M!Ledgers
    /\ Rewarded \in Seq([account : M!Accounts, offer : Offers \cup {None}, amount : Int])
Picking(p) ==
    /\ doing[p] \notin {"idle", "listed", "trying"} => job[p] \in Offers
    /\ doing[p] = "judge" => earliest[job[p]] # None
    /\ doing[p] \in Posts => M!IsWin(p)
    /\ doing[p] = "reward_append" => ~M!Paid(p)
    /\ alone /\ doing[p] \in {"stamp", "append"} => earliest[job[p]] = None
    /\ alone /\ doing[p] = "judge" => \A i \in DOMAIN won : won[i][2] # job[p]
OneAtWork == alone => \A p, q \in Pickers : doing[p] \notin M!Waits /\ doing[q] \notin M!Waits => p = q
WonIsExecuted == alone => \A i \in DOMAIN won : earliest[won[i][2]] # None
PaidHasWon ==
    \A i \in DOMAIN Rewarded : \E j \in DOMAIN won : won[j] = <<Rewarded[i].account, Rewarded[i].offer>>
MarketInv ==
    /\ MarketTypes
    /\ \A p \in Pickers : Picking(p)
    /\ OneAtWork /\ WonIsExecuted /\ PaidHasWon
    /\ M!OneWinner /\ M!PaidOnce

(* What is pending is the last adjustment, made from the parameters that it *)
(* would bring back; no line of the timeline has judged it.                 *)
Params == [threshold : -ThresholdSteps..ThresholdSteps, task : 0..WeightSteps, channel : 0..WeightSteps]
PricingInv ==
    /\ S!TypeOK
    /\ Reversible
    /\ state.params \in Params
    /\ state.last = None \/ state.last \in 0..window
    /\ DOMAIN state = {"params", "last", "rollback", "pending"}
    /\ rewards \subseteq 0..window
    /\ earnings = None \/ earnings.last \in Nat
    /\ state.pending # None =>
         /\ state.rollback \in Params
         /\ state.last = state.pending.at /\ state.last # None
         /\ state.pending.id \in 1..ids
         /\ \A x \in timeline : x.id = state.pending.id => x.what = "adjustment"
    /\ \A x \in timeline : x.id \in 1..ids

(* The runner is as far as the turns that were sent, what lies in its inbox *)
(* was sent, and the receiver has answered no activity turn it has not      *)
(* noted.                                                                   *)
SentBy == [x \in G!Turns |->
    CASE x \in {"none", "connected", "failed"} -> {} [] x = "sent_1" -> {1} [] x = "took_2" -> 1..2
      [] x = "sent_3" -> 1..3 [] x = "took_4" -> 1..4 [] x = "sent_5" -> 1..5 [] OTHER -> 1..6]
DialogueInv ==
    /\ G!TypeOK
    /\ DialogueSound
    /\ answering \subseteq sent
    /\ \A d \in Dialogues :
         /\ \A turn \in SentBy[at[d]] : <<d, turn>> \in sent
         /\ \A turn \in inbox[d] : <<d, turn>> \in sent
         /\ at[d] = "none" => \A turn \in 1..6 : <<d, turn>> \notin sent
         /\ \A turn \in G!Asks : answers[d][turn] > 0 => <<d, turn>> \in sent
         /\ flow[d] = "activity" =>
              \A turn \in G!Asks :
                /\ turn > lastTurn[d] => <<d, turn>> \notin answering /\ answers[d][turn] = 0
                /\ <<d, turn>> \in answering => answers[d][turn] = 0

(* The temporary file is what an update that is going to rename it wrote.   *)
AcquaintanceInv ==
    /\ A!TypeOK
    /\ \A u \in written : ~A!Idle(u)
    /\ tmp # None => \E u \in written : tmp = A!Upgraded(loadedRank[u], A!Target(u))
    /\ live # "shaking" => "shake" \notin written
    /\ live # "discovering" => A!Idle("discover")
    /\ live # "engaging" => A!Idle("engage")
    /\ live \notin {"sending", "shaking"} => A!Idle("shake")

(* A tick that runs the task has it in its table. *)
LifecycleInv ==
    /\ L!TypeOK
    /\ \A n \in Nodes : pc[n] \in {"run", "execute"} => table[n] \in L!Task

(* While no two daemons start at one moment, one that runs has the lock,    *)
(* and none runs while another is about to write it.                        *)
SupervisionInv ==
    /\ V!TypeOK
    /\ restarts <= 1
    /\ ~overlapped =>
         /\ \A p, q \in V!Starting : p = q
         /\ \A p \in V!Running : lock = p
         /\ \A p \in Pids : stage[p] = "writing" => V!Running = {}

-----------------------------------------------------------------------------
(* Remote execution.                                                        *)
LEMMA RemoteInit == ASSUME R!Init PROVE RemoteInv
  BY DEF R!Init, R!T!Init, RemoteInv, R!TypeOK, R!T!TypeOK, RunsForFriendsOnce, R!RunsForFriendsOnce,
     R!Replies, R!Asks, R!Answers

(* The calls of a transport one by one.                                     *)
Carried ==
    \A c \in R!Asks \cup R!Answers :
        /\ arrived[c] # {} => call[c] = "done"
        /\ \A v, w \in arrived[c] : v = w

LEMMA SendingStep ==
    ASSUME R!T!TypeOK, Carried, NEW c \in R!Asks \cup R!Answers, R!T!Sending(c) \/ R!T!Execute(c)
    PROVE  /\ R!T!TypeOK' /\ Carried'
           /\ \A d \in R!Asks \cup R!Answers :
                arrived[d] \subseteq arrived'[d] /\ (d # c => call'[d] = call[d])
           /\ R!T!Sending(c) => call[c] # "idle"
<1>1. CASE R!T!Execute(c)
  <2>1. /\ call' = [call EXCEPT ![c] = "probe"] /\ call[c] = "idle"
        /\ UNCHANGED <<reachable, linked, result, arrived>>
    BY <1>1 DEF R!T!Execute, R!T!Goto
  <2>2. R!T!TypeOK'
    BY <2>1 DEF R!T!TypeOK
  <2>3. /\ Carried'
        /\ \A d \in R!Asks \cup R!Answers : arrived[d] \subseteq arrived'[d] /\ (d # c => call'[d] = call[d])
    BY <2>1 DEF R!T!TypeOK, Carried
  <2>4. ~R!T!Sending(c)
    BY <2>1 DEF R!T!Sending, R!T!Decide, R!T!SendDirect, R!T!Connect, R!T!SendRelay
  <2> QED BY <2>2, <2>3, <2>4
<1>2. CASE R!T!Decide(c)
  BY <1>2 DEF R!T!Decide, R!T!Goto, R!T!Returns, R!T!Selected, R!T!Probed, R!T!TypeOK, R!T!Errors, Carried
<1>3. CASE R!T!SendDirect(c)
  BY <1>3 DEF R!T!SendDirect, R!T!Failed, R!T!Goto, R!T!Returns, R!T!TypeOK, R!T!Errors, R!T!Ways, Carried
<1>4. CASE R!T!Connect(c)
  BY <1>4 DEF R!T!Connect, R!T!Goto, R!T!TypeOK, Carried
<1>5. CASE R!T!SendRelay(c)
  BY <1>5 DEF R!T!SendRelay, R!T!Goto, R!T!Returns, R!T!TypeOK, R!T!Errors, R!T!Ways, Carried
<1>6. R!T!Sending(c) => call[c] # "idle"
  BY DEF R!T!Sending, R!T!Decide, R!T!SendDirect, R!T!Connect, R!T!SendRelay
<1> QED BY <1>1, <1>2, <1>3, <1>4, <1>5, <1>6 DEF R!T!Sending

LEMMA ServeStep ==
    ASSUME RemoteInv, NEW t \in Tries, NEW way \in R!T!Ways, R!Serve(t, way)
    PROVE  RemoteInv'
<1>1. PICK out \in R!Handled :
        /\ reply' = [reply EXCEPT ![t] = out]
        /\ runs' = IF R!Ran(out) THEN runs \cup {<<t, way>>} ELSE runs
        /\ strangerRan' = (strangerRan \/ (R!Ran(out) /\ (~friend \/ request = "other friend")))
  BY DEF R!Serve
<1>2. /\ way \in arrived[<<"request", t>>] /\ <<t, way>> \notin taken
      /\ taken' = taken \cup {<<t, way>>}
      /\ UNCHANGED <<request, friend, received>>
  BY DEF R!Serve
<1>3. /\ R!T!TypeOK' /\ Carried'
      /\ \A d \in R!Asks \cup R!Answers :
           arrived[d] \subseteq arrived'[d] /\ (d # <<"result", t>> => call'[d] = call[d])
  <2>1. CASE R!T!Execute(<<"result", t>>)
    BY <2>1, SendingStep DEF RemoteInv, R!TypeOK, Carried, R!Answers
  <2>2. CASE UNCHANGED <<reachable, linked, call, result, arrived>>
    BY <2>2 DEF RemoteInv, R!TypeOK, R!T!TypeOK, Carried
  <2> QED BY <2>1, <2>2 DEF R!Serve, R!SendResult, R!transportVars
<1>4. out \in R!Replies /\ (out = "ok" => R!Ran(out))
  BY <1>1 DEF R!Handled, R!Refusal, R!Executed, R!Adapted, R!Replies, R!Ran
<1>5. R!Ran(out) => friend /\ request # "other friend"
  BY <1>1 DEF R!Handled, R!Refusal, R!Ran, R!Adapted, RemoteInv, R!TypeOK
<1>6. <<"request", t>> \in R!Asks
  BY DEF R!Asks
<1>7. R!TypeOK'
  <2>1. ~strangerRan'
    BY <1>1, <1>5 DEF RemoteInv, RunsForFriendsOnce, R!RunsForFriendsOnce
  <2>2. taken' \subseteq Tries \X R!T!Ways
    BY <1>2 DEF RemoteInv, R!TypeOK
  <2>3. runs' \subseteq taken'
    BY <1>1, <1>2 DEF RemoteInv, R!TypeOK
  <2>4. reply' \in [Tries -> {"none"} \cup R!Replies]
    BY <1>1, <1>4 DEF RemoteInv, R!TypeOK
  <2>5. request' \in {"none"} \cup R!Cases /\ received' \subseteq R!Replies
    BY <1>2 DEF RemoteInv, R!TypeOK
  <2>6. strangerRan' = FALSE
    <3>1. strangerRan \in BOOLEAN /\ ~strangerRan
      BY DEF RemoteInv, R!TypeOK, RunsForFriendsOnce, R!RunsForFriendsOnce
    <3>2. ~(R!Ran(out) /\ (~friend \/ request = "other friend"))
      BY <1>5
    <3> QED BY <1>1, <3>1, <3>2
  <2>7. strangerRan' \in BOOLEAN /\ friend' \in BOOLEAN
    <3>1. friend \in BOOLEAN /\ friend' = friend
      BY <1>2 DEF RemoteInv, R!TypeOK
    <3> QED BY <2>6, <3>1
  <2> QED BY <1>3, <2>2, <2>3, <2>4, <2>5, <2>7 DEF R!TypeOK
<1>8. ~strangerRan'
  BY <1>1, <1>5 DEF RemoteInv, RunsForFriendsOnce, R!RunsForFriendsOnce
<1>9. \A u \in Tries, w \in R!T!Ways : <<u, w>> \in taken' => w \in arrived'[<<"request", u>>]
  BY <1>2, <1>3 DEF RemoteInv, R!Asks
<1>10. \A u \in Tries : \A v, w \in R!T!Ways : {<<u, v>>, <<u, w>>} \subseteq runs' => v = w
  <2>1. SUFFICES ASSUME NEW u \in Tries, NEW v \in R!T!Ways, NEW w \in R!T!Ways,
                        <<u, v>> \in runs', <<u, w>> \in runs'
                 PROVE  v = w
    OBVIOUS
  <2>2. v \in arrived'[<<"request", u>>] /\ w \in arrived'[<<"request", u>>]
    BY <1>7, <1>9, <2>1 DEF R!TypeOK
  <2> QED BY <1>3, <2>2 DEF Carried, R!Asks
<1>11. runs \subseteq runs' /\ (out = "ok" => runs' # {})
  BY <1>1, <1>4
<1>r. /\ reply \in [Tries -> {"none"} \cup R!Replies]
      /\ reply'[t] = out /\ \A u \in Tries \ {t} : reply'[u] = reply[u]
  <2>1. reply \in [Tries -> {"none"} \cup R!Replies]
    BY DEF RemoteInv, R!TypeOK
  <2> QED BY <1>1, <2>1
<1>12. \A u \in Tries : reply'[u] = "ok" => runs' # {}
  <2>1. SUFFICES ASSUME NEW u \in Tries, reply'[u] = "ok" PROVE runs' # {}
    OBVIOUS
  <2>2. CASE u = t
    BY <1>r, <1>11, <2>1, <2>2
  <2>3. CASE u # t
    <3>1. reply'[u] = reply[u]
      BY <1>r, <2>3
    <3> QED BY <1>11, <2>1, <3>1 DEF RemoteInv
  <2> QED BY <2>2, <2>3
<1>13. "ok" \in received' => runs' # {}
  BY <1>2, <1>11 DEF RemoteInv, RunsForFriendsOnce, R!RunsForFriendsOnce
<1>14. \A u \in Tries : reply'[u] = "none" => call'[<<"result", u>>] = "idle"
  <2>1. SUFFICES ASSUME NEW u \in Tries, reply'[u] = "none"
                 PROVE  call'[<<"result", u>>] = "idle"
    OBVIOUS
  <2>2. u # t
    BY <1>4, <1>r, <2>1 DEF R!Replies
  <2>3. call[<<"result", u>>] = "idle"
    BY <1>r, <2>1, <2>2 DEF RemoteInv
  <2>4. <<"result", u>> \in R!Answers /\ <<"result", u>> # <<"result", t>>
    BY <2>2 DEF R!Answers
  <2> QED BY <1>3, <2>3, <2>4
<1> QED BY <1>3, <1>7, <1>8, <1>9, <1>10, <1>12, <1>13, <1>14
        DEF RemoteInv, Carried, RunsForFriendsOnce, R!RunsForFriendsOnce

LEMMA RemoteStep == ASSUME RemoteInv, [R!Next]_remote PROVE RemoteInv'
<1> USE DEF RunsForFriendsOnce
<1>1. ASSUME NEW t \in Tries, R!Invoke(t) PROVE RemoteInv'
  <2>1. /\ R!T!TypeOK' /\ Carried'
        /\ \A d \in R!Asks \cup R!Answers :
             arrived[d] \subseteq arrived'[d] /\ (d # <<"request", t>> => call'[d] = call[d])
    BY <1>1, SendingStep DEF R!Invoke, R!SendInvocation, RemoteInv, R!TypeOK, Carried, R!Asks
  <2>2. request' \in {"none"} \cup R!Cases
    BY <1>1 DEF R!Invoke, R!Built, RemoteInv, R!TypeOK, R!Cases
  <2>3. UNCHANGED <<friend, taken, reply, received, runs, strangerRan>>
    BY <1>1 DEF R!Invoke
  <2> QED BY <2>1, <2>2, <2>3 DEF RemoteInv, R!TypeOK, Carried, R!RunsForFriendsOnce, R!Asks, R!Answers
<1>2. ASSUME NEW t \in Tries, R!Accept(t) PROVE RemoteInv'
  <2>1. received' \subseteq R!Replies
    <3>1. reply[t] \in R!Replies
      BY <1>2 DEF R!Accept, RemoteInv, R!TypeOK, R!Answers
    <3> QED BY <1>2, <3>1 DEF R!Accept, R!Received, RemoteInv, R!TypeOK
  <2> QED BY <1>2, <2>1 DEF R!Accept, R!Received, R!transportVars, RemoteInv, R!TypeOK, R!T!TypeOK,
                            R!RunsForFriendsOnce
<1>3. ASSUME NEW t \in Tries, NEW way \in R!T!Ways, R!Serve(t, way) PROVE RemoteInv'
  BY <1>3, ServeStep
<1>4. CASE R!ChangeFriendship
  BY <1>4 DEF R!ChangeFriendship, R!transportVars, RemoteInv, R!TypeOK, R!T!TypeOK, R!RunsForFriendsOnce
<1>5. ASSUME R!T!TransportEnvironment, UNCHANGED <<request, friend, taken, reply, received, runs, strangerRan>>
      PROVE  RemoteInv'
  <2>1. R!T!TypeOK' /\ UNCHANGED <<call, result, arrived>>
    BY <1>5 DEF R!T!TransportEnvironment, RemoteInv, R!TypeOK, R!T!TypeOK
  <2> QED BY <1>5, <2>1 DEF RemoteInv, R!TypeOK, R!RunsForFriendsOnce
<1>6. ASSUME NEW c \in R!Asks \cup R!Answers, R!T!Sending(c),
             UNCHANGED <<request, friend, taken, reply, received, runs, strangerRan>>
      PROVE  RemoteInv'
  <2>1. /\ R!T!TypeOK' /\ Carried' /\ call[c] # "idle"
        /\ \A d \in R!Asks \cup R!Answers :
             arrived[d] \subseteq arrived'[d] /\ (d # c => call'[d] = call[d])
    BY <1>6, SendingStep DEF RemoteInv, R!TypeOK, Carried
  <2> QED BY <1>6, <2>1 DEF RemoteInv, R!TypeOK, Carried, R!RunsForFriendsOnce, R!Asks, R!Answers
<1>7. CASE UNCHANGED remote
  BY <1>7 DEF remote, RemoteInv, R!TypeOK, R!T!TypeOK, R!RunsForFriendsOnce
<1> QED BY <1>1, <1>2, <1>3, <1>4, <1>5, <1>6, <1>7 DEF R!Next, R!remoteOnly

-----------------------------------------------------------------------------
LEMMA AreNumbers ==
    /\ MaxTasks \in Nat /\ MaxDays \in Nat /\ MaxDeaths \in Nat
    /\ MaxRetries \in Nat /\ MaxKills \in Nat
    /\ MaxBoots \in Nat /\ MaxFaults \in Nat /\ MaxMoves \in Nat
    /\ MaxClock \in Nat /\ MaxCycles \in Nat /\ MaxCrashes \in Nat
    /\ HourCap \in Nat /\ CompetitionCap \in Nat
    /\ MaxTime \in Nat /\ MaxRewards \in Nat /\ MaxIds \in Nat /\ Day \in Nat
    /\ ThresholdSteps \in Nat /\ WeightSteps \in Nat /\ MaxRestarts \in Nat
    /\ MaxHandshakes \in Nat /\ MaxNodeCrashes \in Nat /\ MaxSyncs \in Nat
    /\ MaxMessages \in Nat /\ MaxDaemonDeaths \in Nat
  BY BoundsAreNumbers

-----------------------------------------------------------------------------
(* Upgrade.                                                                 *)
LEMMA UpgradeInit == ASSUME U!Init PROVE UpgradeInv
<1>1. legacy \in BOOLEAN /\ treeLock \in BOOLEAN
  BY DEF U!Init
<1>2. U!TypeOK
  BY <1>1, AreNumbers, NamesAreNodes DEF U!Init, U!TypeOK, U!InProgress
<1>3. ~Trying /\ attempts = 0 /\ retries = 0 /\ kills = 0 /\ step = "idle" /\ loaded = code
  BY DEF U!Init, Trying
<1> QED BY <1>2, <1>3 DEF UpgradeInv

LEMMA UpgradeNumbers ==
    ASSUME UpgradeInv
    PROVE  /\ attempts \in Nat /\ retries \in Nat /\ kills \in Nat
           /\ ~legacy => attempts <= retries + kills + (IF Trying THEN 1 ELSE 0)
<1>1. /\ attempts \in Nat /\ retries \in 0..MaxRetries /\ kills \in Nat
      /\ ~legacy => attempts <= retries + kills + (IF Trying THEN 1 ELSE 0)
  BY DEF UpgradeInv, U!TypeOK
<1> QED BY <1>1, AreNumbers

LEMMA UpgradeStep == ASSUME UpgradeInv, [U!Next]_upgrade PROVE UpgradeInv'
<1> USE AreNumbers DEF UpgradeInv, U!TypeOK, U!InProgress, Trying, U!fixed, U!tree, U!file, U!attempt
<1>1. CASE U!CheckV032
  <2>1. /\ step = "idle" /\ ~legacy /\ phase \notin U!InProgress
        /\ UNCHANGED <<legacy, loaded, kills, code, strategy, treeLock>>
    BY <1>1 DEF U!CheckV032
  <2>2. PICK source \in U!Sources, found \in Versions :
          LET newer == U!Trusted(source) /\ found > U!Local
              goes == newer /\ retries < MaxRetries
          IN /\ current' = IF U!Trusted(source) THEN U!Local ELSE current
             /\ retries' = IF U!Trusted(source) /\ ~newer THEN 0 ELSE retries
             /\ attempts' = IF U!Trusted(source) /\ ~newer THEN 0
                            ELSE IF goes THEN attempts + 1 ELSE attempts
             /\ phase' = IF goes THEN "upgrading" ELSE IF newer THEN "upgrade_needed" ELSE "steady"
             /\ IF goes
                  THEN /\ target' = found /\ previous' = code /\ backup' = "none"
                       /\ accepted' = IF source \in U!Genuine THEN {found} ELSE {}
                       /\ step' = "backup"
                  ELSE UNCHANGED <<target, previous, backup, accepted, step>>
    BY <1>1 DEF U!CheckV032
  <2>3. U!Local \in Versions
    BY DEF U!Local
  <2>4. CASE U!Trusted(source) /\ found > U!Local /\ retries < MaxRetries
    <3>1. /\ current' \in Versions /\ retries' = retries /\ attempts' = attempts + 1
          /\ phase' = "upgrading" /\ target' = found /\ previous' = code /\ backup' = "none"
          /\ accepted' = {found} /\ step' = "backup"
      BY <2>2, <2>3, <2>4 DEF U!Trusted, U!Genuine
    <3>2. U!TypeOK'
      BY <2>1, <3>1
    <3>3. Trying' /\ retries' < MaxRetries /\ attempts <= retries + kills
      BY <2>1, <2>4, <3>1
    <3> QED BY <2>1, <3>1, <3>2, <3>3
  <2>5. CASE ~(U!Trusted(source) /\ found > U!Local /\ retries < MaxRetries)
    <3>1. /\ current' \in Versions \cup {0}
          /\ (retries' = 0 /\ attempts' = 0) \/ UNCHANGED <<retries, attempts>>
          /\ phase' \in {"upgrade_needed", "steady"}
          /\ UNCHANGED <<target, previous, backup, accepted, step>>
      BY <2>2, <2>3, <2>5
    <3>2. U!TypeOK'
      BY <2>1, <3>1
    <3>3. ~Trying' /\ attempts' <= retries' + kills' /\ attempts' \in Nat /\ kills' \in Nat
      <4>1. ~Trying /\ ~Trying' /\ kills' = kills
        BY <2>1, <3>1
      <4> HIDE DEF UpgradeInv, U!TypeOK
      <4>2. attempts <= retries + kills
        BY <2>1, <4>1, UpgradeNumbers
      <4> QED BY <3>1, <4>1, <4>2, UpgradeNumbers
    <3>4. kills' = 0 /\ phase' # "rollback" => loaded' = code'
      BY <2>1, <3>1
    <3>5. step' = "idle" /\ ~legacy'
      BY <2>1, <3>1
    <3> HIDE DEF UpgradeInv, U!TypeOK, Trying
    <3>6. retries' \in Nat
      BY <3>1, UpgradeNumbers
    <3>7. attempts' <= retries' + kills' + (IF Trying' THEN 1 ELSE 0)
      <4>1. (IF Trying' THEN 1 ELSE 0) = 0
        BY <3>3
      <4>2. retries' + kills' + 0 = retries' + kills'
        BY <3>3, <3>6
      <4> QED BY <4>1, <4>2, <3>3
    <3> QED BY <3>2, <3>3, <3>4, <3>5, <3>7 DEF UpgradeInv
  <2> QED BY <2>4, <2>5
<1>2. CASE U!CheckLegacy
  BY <1>2 DEF U!CheckLegacy
<1>3. CASE U!Backup
  BY <1>3 DEF U!Backup
<1>4. CASE U!Checkout
  <2>1. CASE code' = target /\ strategy' = "shipped" /\ step' \in {"restore", "failed"}
    BY <1>4, <2>1 DEF U!Checkout
  <2>2. CASE code' = code /\ strategy' = strategy /\ step' = "failed"
    BY <1>4, <2>2 DEF U!Checkout
  <2> QED BY <1>4, <2>1, <2>2 DEF U!Checkout
<1>5. CASE U!Restore
  <2>1. strategy' \in {"own", "shipped"} /\ (backup = "own" => strategy' = "own")
    BY <1>5 DEF U!Restore, U!Restored
  <2>2. CASE step = "restore"
    BY <1>5, <2>1, <2>2 DEF U!Restore
  <2>3. CASE step = "restore back"
    BY <1>5, <2>1, <2>3 DEF U!Restore
  <2> QED BY <1>5, <2>2, <2>3 DEF U!Restore
<1>6. CASE U!Done
  <2>1. U!TypeOK'
    BY <1>6 DEF U!Done
  <2>2. ~legacy /\ step = "health" /\ step' = "exit" /\ attempts' = 0 /\ retries' = 0 /\ kills' = kills
    BY <1>6 DEF U!Done
  <2>3. ~Trying' /\ attempts' <= retries' + kills' /\ attempts' \in Nat /\ kills' \in Nat
    BY <2>1, <2>2
  <2> QED BY <1>6, <2>1, <2>2, <2>3 DEF U!Done, U!Healthy
<1>7. CASE U!DoneLegacy
  BY <1>7 DEF U!DoneLegacy
<1>8. CASE U!Unhealthy
  BY <1>8 DEF U!Unhealthy
<1>9. CASE U!WriteFailed
  <2>1. ~legacy /\ step = "failed" /\ step' = "rolling" /\ retries' = retries + 1
        /\ attempts' = attempts /\ kills' = kills
    BY <1>9 DEF U!WriteFailed, U!Failed
  <2>2. Trying /\ retries < MaxRetries
    BY <2>1
  <2>3. U!TypeOK'
    BY <1>9, <2>1, <2>2 DEF U!WriteFailed, U!Failed
  <2>4. ~Trying' /\ attempts' <= retries' + kills'
    BY <2>1, <2>2, <2>3
  <2> QED BY <1>9, <2>1, <2>3, <2>4 DEF U!WriteFailed, U!Failed
<1>10. CASE U!WriteRollback
  BY <1>10 DEF U!WriteRollback
<1>11. CASE U!Rollback
  BY <1>11 DEF U!Rollback
<1>12. CASE U!EndRollback
  BY <1>12 DEF U!EndRollback, U!RolledBack, U!Healthy
<1>13. CASE U!RollbackLegacy
  BY <1>13 DEF U!RollbackLegacy
<1>14. CASE U!Restart
  BY <1>14 DEF U!Restart
<1>15. CASE U!Kill
  <2>1. kills < MaxKills /\ kills' = kills + 1 /\ step' = "idle" /\ loaded' = code
        /\ UNCHANGED <<legacy, code, strategy, phase, current, retries, target, previous, backup,
                        treeLock, accepted, attempts>>
    BY <1>15 DEF U!Kill
  <2>2. U!TypeOK'
    BY <2>1, ZenonT(30)
  <2>3. ~Trying' /\ step' = "idle"
    BY <2>1
  <2>4. ~legacy => attempts' <= retries' + kills'
    <3> HIDE DEF UpgradeInv, U!TypeOK, Trying
    <3> QED BY <2>1, UpgradeNumbers
  <2>5. attempts' \in Nat /\ retries' \in Nat /\ kills' \in Nat \ {0}
    <3> HIDE DEF UpgradeInv, U!TypeOK, Trying
    <3> QED BY <2>1, UpgradeNumbers
  <2> HIDE DEF U!TypeOK, UpgradeInv, Trying
  <2>6. attempts' <= retries' + kills' + (IF Trying' THEN 1 ELSE 0) \/ legacy'
    BY <2>1, <2>3, <2>4, <2>5
  <2> QED BY <2>2, <2>3, <2>5, <2>6 DEF UpgradeInv
<1>16. CASE UNCHANGED upgrade
  <2>1. UNCHANGED <<legacy, step, code, loaded, phase, current, retries, target, previous,
                     treeLock, strategy, backup, kills, accepted, attempts>>
    BY <1>16 DEF upgrade
  <2>2. U!TypeOK'
    BY <2>1, ZenonT(30)
  <2>3. Trying' <=> Trying
    BY <2>1
  <2> QED BY <2>1, <2>2, <2>3
<1> QED BY <1>1, <1>2, <1>3, <1>4, <1>5, <1>6, <1>7, <1>8, <1>9, <1>10, <1>11, <1>12, <1>13, <1>14, <1>15, <1>16 DEF U!Next

LEMMA UpgradeIsSafe == UpgradeInv => UpgradeSafe
<1> SUFFICES ASSUME UpgradeInv PROVE UpgradeSafe
  OBVIOUS
<1>0. /\ retries \in 0..MaxRetries /\ attempts \in Nat /\ kills \in Nat
      /\ ~legacy /\ Trying => retries < MaxRetries
      /\ ~legacy => attempts <= retries + kills + (IF Trying THEN 1 ELSE 0)
  BY DEF UpgradeInv, U!TypeOK
<1>1. ~legacy /\ retries = MaxRetries => ~Trying
  BY <1>0, AreNumbers
<1>2. ~legacy => attempts <= MaxRetries + kills
  BY <1>0, AreNumbers
<1>3. step \in {"checkout", "health"} => Trying
  BY DEF Trying
<1> QED BY <1>1, <1>2, <1>3 DEF UpgradeInv, UpgradeSafe, U!UpgradeSafe

-----------------------------------------------------------------------------
(* Acquaintance.  An update that is saved brings what one that has written  *)
(* made of the record that it loaded.                                       *)
LEMMA AcquaintanceInit == ASSUME A!Init PROVE AcquaintanceInv
<1>1. pending \in BOOLEAN /\ due \in BOOLEAN
  BY DEF A!Init
<1>2. A!TypeOK
  BY <1>1, AreNumbers DEF A!Init, A!TypeOK, A!Rank, A!Updates
<1> QED BY <1>2 DEF A!Init, AcquaintanceInv, A!Idle, A!Updates

LEMMA SavedStep ==
    ASSUME AcquaintanceInv, NEW u \in A!Updates, A!Saved(u)
    PROVE  /\ memory' \in A!Rank /\ tmp' = None /\ u \in written /\ written' = written \ {u}
           /\ loadedRank' = [loadedRank EXCEPT ![u] = None]
           /\ A!NothingUnlearned
<1>1. /\ u \in written /\ written' = written \ {u} /\ tmp' = None
      /\ memory' = IF tmp # None THEN tmp ELSE memory
      /\ loadedRank' = [loadedRank EXCEPT ![u] = None]
  BY DEF A!Saved, A!Renames
<1>2. /\ memory \in A!Rank /\ tmp \in A!Rank \cup {None} /\ None \notin A!Rank
      /\ loadedRank \in [A!Updates -> A!Rank \cup {None}]
  BY NoneIsNothing DEF AcquaintanceInv, A!TypeOK, A!Rank
<1>3. memory' \in A!Rank
  BY <1>1, <1>2
<1>4. ASSUME A!Alone PROVE memory' >= memory
  <2>1. CASE tmp = None
    BY <1>1, <1>2, <2>1 DEF A!Rank
  <2>2. CASE tmp # None
    <3>1. PICK w \in written : tmp = A!Upgraded(loadedRank[w], A!Target(w))
      BY <2>2 DEF AcquaintanceInv
    <3>2. PICK v \in A!Updates : loadedRank[v] = memory /\ \A x \in A!Updates \ {v} : A!Idle(x)
      BY <1>4 DEF A!Alone
    <3>3. w = v
      BY <3>2 DEF AcquaintanceInv, A!TypeOK
    <3>4. A!Target(w) \in Nat
      BY <3>2, <3>3 DEF A!Target, A!Updates
    <3> QED BY <1>1, <1>2, <2>2, <3>1, <3>2, <3>3, <3>4 DEF A!Upgraded, A!Rank
  <2> QED BY <2>1, <2>2
<1> QED BY <1>1, <1>3, <1>4 DEF A!NothingUnlearned

LEMMA AcquaintanceStep ==
    ASSUME AcquaintanceInv, [A!Next]_acquaintance
    PROVE  AcquaintanceInv' /\ A!NothingUnlearned
<1> USE NoneIsNothing, AreNumbers DEF AcquaintanceInv, A!Goto, A!Idle, A!Rank
<1>1. ASSUME memory' = memory PROVE A!NothingUnlearned
  BY <1>1 DEF A!NothingUnlearned, A!TypeOK
<1>2. ASSUME NEW u \in A!Updates, A!Saved(u), pending' \in BOOLEAN, UNCHANGED <<due, shaken>>,
             \/ u = "discover" /\ live' = "gate"
             \/ u = "shake" /\ live' \in {"check", "idle"}
             \/ u = "engage" /\ live' = "idle"
             \/ u \in {"handshake", "profile", "interest"} /\ live' = live
      PROVE  AcquaintanceInv' /\ A!NothingUnlearned
  <2>1. A!TypeOK'
    <3>1. due' \in BOOLEAN /\ pending' \in BOOLEAN
      BY <1>2 DEF A!TypeOK
    <3> QED BY <1>2, <3>1, SavedStep DEF A!TypeOK
  <2>2. \A v \in written' : v # u /\ v \in written /\ loadedRank'[v] = loadedRank[v]
    BY <1>2, SavedStep DEF A!TypeOK
  <2> QED BY <1>2, <2>1, <2>2, SavedStep DEF A!TypeOK, A!Updates
<1>3. ASSUME NEW u \in A!Updates, loadedRank[u] = None, A!Load(u), UNCHANGED <<memory, tmp, written>>,
             live' \in {live, "discovering", "sending", "engaging"}, shaken' \in 0..MaxHandshakes,
             UNCHANGED <<pending, due>>,
             \/ u = "discover" /\ live = "idle" /\ live' = "discovering"
             \/ u = "shake" /\ live = "gate" /\ live' = "sending"
             \/ u = "engage" /\ live = "waiting" /\ live' = "engaging"
             \/ u \in {"handshake", "profile", "interest"} /\ live' = live
      PROVE  AcquaintanceInv' /\ A!NothingUnlearned
  <2>1. A!TypeOK'
    <3>1. due' \in BOOLEAN /\ pending' \in BOOLEAN
      BY <1>3 DEF A!TypeOK
    <3> QED BY <1>3, <3>1 DEF A!Load, A!TypeOK
  <2>2. \A v \in written : v # u /\ loadedRank'[v] = loadedRank[v]
    BY <1>3 DEF A!TypeOK, A!Load
  <2> QED BY <1>1, <1>3, <2>1, <2>2 DEF A!TypeOK, A!Load, A!Updates
<1>4. ASSUME UNCHANGED <<memory, tmp, written, shaken>>, due' \in BOOLEAN, pending' \in BOOLEAN,
             \/ UNCHANGED <<live, loadedRank>>
             \/ live = "gate" /\ live' = "check" /\ UNCHANGED loadedRank
             \/ live = "sending" /\ live' = "shaking" /\ UNCHANGED loadedRank
             \/ /\ live = "sending" /\ live' = "check"
                /\ loadedRank' = [loadedRank EXCEPT !["shake"] = None]
             \/ live \in {"check", "waiting"} /\ live' \in {"waiting", "idle"} /\ UNCHANGED loadedRank
      PROVE  AcquaintanceInv' /\ A!NothingUnlearned
  <2>1. A!TypeOK'
    BY <1>4 DEF A!TypeOK, A!Updates
  <2>2. \A v \in written : loadedRank'[v] = loadedRank[v]
    BY <1>4 DEF A!TypeOK
  <2> QED BY <1>1, <1>4, <2>1, <2>2 DEF A!TypeOK, A!Updates
<1>5. CASE A!StartRun
  BY <1>3, <1>5 DEF A!StartRun, A!TypeOK, A!Updates
<1>6. CASE A!Discovered
  BY <1>2, <1>6 DEF A!Discovered, A!TypeOK, A!Updates
<1>7. CASE A!Gate
  <2>1. CASE memory = 1
    BY <1>3, <1>7, <2>1 DEF A!Gate, A!TypeOK, A!Updates
  <2>2. CASE memory # 1
    BY <1>4, <1>7, <2>2 DEF A!Gate, A!TypeOK
  <2> QED BY <2>1, <2>2
<1>8. CASE A!SendHandshake
  BY <1>4, <1>8 DEF A!SendHandshake, A!TypeOK
<1>9. CASE A!Shook
  BY <1>2, <1>9 DEF A!Shook, A!TypeOK, A!Updates
<1>10. CASE A!Exchange
  BY <1>4, <1>10 DEF A!Exchange, A!TypeOK
<1>11. CASE A!Answered
  BY <1>3, <1>11 DEF A!Answered, A!TypeOK, A!Updates
<1>12. CASE A!TimeOut
  BY <1>4, <1>12 DEF A!TimeOut, A!TypeOK
<1>13. CASE A!Engaged
  <2>1. pending' \in BOOLEAN
    BY <1>13 DEF A!Engaged, A!Prompted, A!TypeOK
  <2> QED BY <1>2, <1>13, <2>1 DEF A!Engaged, A!Updates
<1>14. CASE A!SayYes
  BY <1>3, <1>14 DEF A!SayYes, A!TypeOK, A!Updates
<1>15. CASE A!MarkedInterested
  <2>1. pending' \in BOOLEAN
    BY <1>15 DEF A!MarkedInterested, A!TypeOK
  <2> QED BY <1>2, <1>15, <2>1 DEF A!MarkedInterested, A!Updates
<1>16. CASE A!SayNo
  BY <1>4, <1>16 DEF A!SayNo, A!TypeOK
<1>17. ASSUME NEW u \in A!Updates, A!Receive(u) PROVE AcquaintanceInv' /\ A!NothingUnlearned
  <2>1. u \in {"handshake", "profile"}
    BY <1>17 DEF A!Receive, A!Comes
  <2>2. /\ shaken \in 0..MaxHandshakes /\ MaxHandshakes \in Nat
        /\ u = "handshake" => shaken < MaxHandshakes
        /\ shaken' = IF u = "handshake" THEN shaken + 1 ELSE shaken
    <3>1. shaken \in 0..MaxHandshakes /\ MaxHandshakes \in Nat
      BY DEF A!TypeOK
    <3>2. shaken' = IF u = "handshake" THEN shaken + 1 ELSE shaken
      BY <1>17 DEF A!Receive
    <3>3. u = "handshake" => shaken < MaxHandshakes
      BY <1>17 DEF A!Receive, A!Comes
    <3> QED BY <3>1, <3>2, <3>3
  <2>3. shaken' \in 0..MaxHandshakes
    BY ONLY <2>2, SMT
  <2> QED BY <1>3, <1>17, <2>1, <2>3 DEF A!Receive
<1>18. ASSUME NEW u \in A!Updates, A!Applied(u) PROVE AcquaintanceInv' /\ A!NothingUnlearned
  BY <1>2, <1>18 DEF A!Applied, A!TypeOK
<1>19. ASSUME NEW u \in A!Updates, A!Write(u) PROVE AcquaintanceInv' /\ A!NothingUnlearned
  <2>1. /\ tmp' = A!Upgraded(loadedRank[u], A!Target(u)) /\ written' = written \cup {u}
        /\ UNCHANGED <<memory, loadedRank, live, pending, due, shaken>>
        /\ loadedRank[u] # None /\ (u = "shake" => live = "shaking")
    BY <1>19 DEF A!Write
  <2>2. A!Target(u) \in A!Rank
    BY DEF A!Target, A!Updates
  <2>3. tmp' \in A!Rank
    BY <2>1, <2>2 DEF A!Upgraded, A!TypeOK
  <2>4. A!TypeOK'
    <3>1. due' \in BOOLEAN /\ pending' \in BOOLEAN
      BY <2>1 DEF A!TypeOK
    <3> QED BY <2>1, <2>3, <3>1 DEF A!TypeOK
  <2>5. \E v \in written' : tmp' = A!Upgraded(loadedRank'[v], A!Target(v))
    BY <2>1
  <2> QED BY <1>1, <2>1, <2>4, <2>5
<1>20. CASE UNCHANGED acquaintance
  BY <1>4, <1>20 DEF acquaintance, A!TypeOK
<1> QED BY <1>5, <1>6, <1>7, <1>8, <1>9, <1>10, <1>11, <1>12, <1>13, <1>14, <1>15, <1>16, <1>17,
           <1>18, <1>19, <1>20 DEF A!Next, A!LiveStep

-----------------------------------------------------------------------------
(* Lifecycle of a task.                                                     *)
LEMMA LifecycleInit == ASSUME L!Init PROVE LifecycleInv
  BY AreNumbers DEF L!Init, LifecycleInv, L!TypeOK

LEMMA LifecycleStep ==
    ASSUME LifecycleInv, [L!Next]_lifecycle
    PROVE  LifecycleInv' /\ \A n \in Nodes : L!NeverReopened(n)
<1> USE AreNumbers DEF LifecycleInv, L!Status, L!Known, L!Done
<1>1. ASSUME UNCHANGED table, L!TypeOK',
             \A n \in Nodes : pc'[n] \in {"run", "execute"} => pc[n] \in {"run", "execute"}
      PROVE  LifecycleInv' /\ \A n \in Nodes : L!NeverReopened(n)
  BY <1>1 DEF L!NeverReopened
<1>2. ASSUME NEW n \in Nodes, NEW t \in L!Task, L!Put(n, t), L!TypeOK',
             L!Status(n) = "completed" => t.status \in L!Done,
             \A m \in Nodes \ {n} : pc'[m] = pc[m]
      PROVE  LifecycleInv' /\ \A m \in Nodes : L!NeverReopened(m)
  BY <1>2 DEF L!NeverReopened, L!Put, L!TypeOK
<1>3. ASSUME NEW n \in Nodes, NEW t \in L!Task, L!Put(n, t)
      PROVE  table' \in [Nodes -> L!Task \cup {None}]
  BY <1>3 DEF L!Put, L!TypeOK
<1>4. L!Published \in L!Task
  BY DEF L!Published, L!Task
<1>5. ASSUME NEW n \in Nodes, L!ReceivePublished(n)
      PROVE  LifecycleInv' /\ \A m \in Nodes : L!NeverReopened(m)
  <2>1. L!TypeOK'
    BY <1>3, <1>4, <1>5 DEF L!ReceivePublished, L!TypeOK
  <2> QED BY <1>2, <1>4, <1>5, <2>1 DEF L!ReceivePublished
<1>6. ASSUME NEW n \in Nodes, L!SendTaskMessage(n)
      PROVE  LifecycleInv' /\ \A m \in Nodes : L!NeverReopened(m)
  <2>1. L!TypeOK'
    BY <1>6 DEF L!SendTaskMessage, L!ResultMessage, L!TypeOK
  <2> QED BY <1>1, <1>6, <2>1 DEF L!SendTaskMessage
<1>7. CASE L!LoseTaskMessage
  <2>1. L!TypeOK'
    BY <1>7 DEF L!LoseTaskMessage, L!TypeOK
  <2> QED BY <1>1, <1>7, <2>1 DEF L!LoseTaskMessage
<1>8. ASSUME NEW n \in Nodes, L!ReceiveAccepted(n)
      PROVE  LifecycleInv' /\ \A m \in Nodes : L!NeverReopened(m)
  <2>1. PICK m \in Nodes \ {n} :
          /\ posted' \in SUBSET posted
          /\ IF L!Claimable(n) THEN L!Put(n, L!Claimed(n, m)) ELSE UNCHANGED table
    BY <1>8 DEF L!ReceiveAccepted
  <2>2. L!Claimed(n, m) \in L!Task
    <3>1. CASE L!Known(n)
      BY <3>1 DEF L!Claimed, L!Task, L!TypeOK
    <3>2. CASE ~L!Known(n)
      <4>1. L!Claimed(n, m) = [status |-> "accepted", holder |-> m, result |-> None, stamp |-> 1]
        BY <3>2 DEF L!Claimed, L!Published
      <4> QED BY <4>1 DEF L!Task
    <3> QED BY <3>1, <3>2
  <2>3. L!TypeOK'
    BY <1>3, <1>8, <2>1, <2>2 DEF L!ReceiveAccepted, L!TypeOK
  <2> QED BY <1>1, <1>2, <1>8, <2>1, <2>2, <2>3 DEF L!ReceiveAccepted, L!Claimable
<1>9. ASSUME NEW n \in Nodes, L!ReceiveResult(n)
      PROVE  LifecycleInv' /\ \A m \in Nodes : L!NeverReopened(m)
  <2>1. PICK m \in Nodes \ {n}, final \in L!Done :
          /\ posted' \in SUBSET posted
          /\ IF L!Status(n) = "completed" THEN UNCHANGED table ELSE L!Put(n, L!Resulted(n, m, final))
    BY <1>9 DEF L!ReceiveResult
  <2>2. L!Resulted(n, m, final) \in L!Task
    <3>1. CASE L!Known(n)
      BY <3>1 DEF L!Resulted, L!Task, L!TypeOK
    <3>2. CASE ~L!Known(n)
      <4> DEFINE known == [L!Published EXCEPT !.holder = m, !.stamp = 1]
      <4>1. known \in L!Task
        <5> DEFINE held == [L!Published EXCEPT !.holder = m]
        <5>1. held \in L!Task
          BY <1>4 DEF L!Task
        <5>2. known = [held EXCEPT !.stamp = 1]
          OBVIOUS
        <5> HIDE DEF held, known
        <5> QED BY <5>1, <5>2 DEF L!Task
      <4>2. L!Resulted(n, m, final) = [known EXCEPT !.status = final, !.result = m]
        BY <3>2 DEF L!Resulted
      <4> HIDE DEF known
      <4> QED BY <4>1, <4>2 DEF L!Task
    <3> QED BY <3>1, <3>2
  <2>3. L!TypeOK'
    BY <1>3, <1>9, <2>1, <2>2 DEF L!ReceiveResult, L!TypeOK
  <2> QED BY <1>1, <1>2, <1>9, <2>1, <2>2, <2>3 DEF L!ReceiveResult
<1>10. ASSUME NEW n \in Nodes, L!MergeTasks(n)
      PROVE  LifecycleInv' /\ \A m \in Nodes : L!NeverReopened(m)
  <2>1. response[n] \in L!Task
    BY <1>10 DEF L!MergeTasks, L!TypeOK
  <2>2. L!TypeOK'
    BY <1>3, <1>10, <2>1 DEF L!MergeTasks, L!TypeOK
  <2>3. ASSUME L!Status(n) = "completed", L!Replaces(response[n], table[n])
        PROVE  response[n].status \in L!Done
    BY <2>1, <2>3 DEF L!Replaces, L!Rank, L!Task
  <2> QED BY <1>1, <1>2, <1>10, <2>1, <2>2, <2>3 DEF L!MergeTasks
<1>11. ASSUME NEW n \in Nodes, L!Sync(n)
      PROVE  LifecycleInv' /\ \A m \in Nodes : L!NeverReopened(m)
  <2>1. SyncPeer[n] \in Nodes
    BY <1>11, NamesAreNodes DEF L!Sync
  <2>2. L!TypeOK'
    BY <1>11, <2>1 DEF L!Sync, L!SyncResponse, L!TypeOK
  <2> QED BY <1>1, <1>11, <2>2 DEF L!Sync
<1>12. ASSUME NEW n \in Nodes, L!Release(n)
      PROVE  LifecycleInv' /\ \A m \in Nodes : L!NeverReopened(m)
  <2> DEFINE t == [table[n] EXCEPT !.status = "published", !.holder = None]
  <2>1. t \in L!Task /\ L!Put(n, t)
    BY <1>12 DEF L!Release, L!MayRelease, L!Task, L!TypeOK
  <2>2. L!TypeOK'
    BY <1>3, <1>12, <2>1 DEF L!Release, L!TypeOK
  <2>3. L!Status(n) # "completed" /\ \A m \in Nodes \ {n} : pc'[m] = pc[m]
    BY <1>12 DEF L!Release, L!MayRelease, L!TypeOK
  <2> HIDE DEF t
  <2> QED BY <1>2, <2>1, <2>2, <2>3
<1>13. ASSUME NEW n \in Nodes, L!NothingStuck(n) \/ L!Pick(n) \/ L!Crash(n)
      PROVE  LifecycleInv' /\ \A m \in Nodes : L!NeverReopened(m)
  <2>1. L!TypeOK'
    BY <1>13 DEF L!NothingStuck, L!Pick, L!Crash, L!TypeOK
  <2>2. \A m \in Nodes : pc'[m] \in {"run", "execute"} => pc[m] \in {"run", "execute"}
    BY <1>13 DEF L!NothingStuck, L!Pick, L!Crash, L!TypeOK
  <2> QED BY <1>1, <1>13, <2>1, <2>2 DEF L!NothingStuck, L!Pick, L!Crash
<1>14. ASSUME NEW n \in Nodes, L!Accept(n)
      PROVE  LifecycleInv' /\ \A m \in Nodes : L!NeverReopened(m)
  <2>1. CASE L!Status(n) = "published"
    <3> DEFINE t == [table[n] EXCEPT !.status = "accepted", !.holder = n]
    <3>1. t \in L!Task /\ L!Put(n, t)
      BY <1>14, <2>1 DEF L!Accept, L!Task, L!TypeOK
    <3>2. L!TypeOK'
      BY <1>3, <1>14, <2>1, <3>1 DEF L!Accept, L!TypeOK
    <3>3. \A m \in Nodes \ {n} : pc'[m] = pc[m]
      BY <1>14, <2>1 DEF L!Accept, L!TypeOK
    <3> HIDE DEF t
    <3> QED BY <1>2, <2>1, <3>1, <3>2, <3>3
  <2>2. CASE L!Status(n) # "published"
    <3>1. L!TypeOK'
      BY <1>14, <2>2 DEF L!Accept, L!TypeOK
    <3>2. \A m \in Nodes : pc'[m] \in {"run", "execute"} => pc[m] \in {"run", "execute"}
      BY <1>14, <2>2 DEF L!Accept, L!TypeOK
    <3> QED BY <1>1, <1>14, <2>2, <3>1, <3>2 DEF L!Accept
  <2> QED BY <2>1, <2>2
<1>15. ASSUME NEW n \in Nodes, L!Run(n)
      PROVE  LifecycleInv' /\ \A m \in Nodes : L!NeverReopened(m)
  <2>1. \A m \in Nodes : pc'[m] \in {"run", "execute"} => pc[m] \in {"run", "execute"}
    BY <1>15 DEF L!Run, L!TypeOK
  <2>2. CASE UNCHANGED table
    <3>1. L!TypeOK'
      BY <1>15, <2>2 DEF L!Run, L!TypeOK
    <3> QED BY <1>1, <2>1, <2>2, <3>1
  <2>3. CASE ~UNCHANGED table
    <3> DEFINE t == [table[n] EXCEPT !.status = "running"]
    <3>1. t \in L!Task /\ L!Put(n, t) /\ L!Status(n) = "accepted"
      BY <1>15, <2>3 DEF L!Run, L!Task, L!TypeOK
    <3>2. L!TypeOK'
      BY <1>3, <1>15, <3>1 DEF L!Run, L!TypeOK
    <3>3. \A m \in Nodes \ {n} : pc'[m] = pc[m]
      BY <1>15 DEF L!Run, L!TypeOK
    <3> HIDE DEF t
    <3> QED BY <1>2, <3>1, <3>2, <3>3
  <2> QED BY <2>2, <2>3
<1>16. ASSUME NEW n \in Nodes, L!Finish(n)
      PROVE  LifecycleInv' /\ \A m \in Nodes : L!NeverReopened(m)
  <2>1. table[n] \in L!Task
    BY <1>16 DEF L!Finish
  <2>2. PICK t \in L!Task : L!Put(n, t) /\ t.status \in L!Done
    <3>1. /\ [table[n] EXCEPT !.status = "completed", !.result = n] \in L!Task
          /\ [table[n] EXCEPT !.status = "failed"] \in L!Task
      BY <2>1 DEF L!Task
    <3> QED BY <1>16, <2>1, <3>1 DEF L!Finish, L!Task
  <2>3. L!TypeOK'
    BY <1>3, <1>16, <2>2 DEF L!Finish, L!TypeOK
  <2>4. \A m \in Nodes \ {n} : pc'[m] = pc[m]
    BY <1>16 DEF L!Finish, L!TypeOK
  <2> QED BY <1>2, <2>2, <2>3, <2>4
<1>17. CASE UNCHANGED lifecycle
  <2>1. L!TypeOK'
    BY <1>17 DEF lifecycle, L!TypeOK
  <2> QED BY <1>1, <1>17, <2>1 DEF lifecycle
<1> QED BY <1>5, <1>6, <1>7, <1>8, <1>9, <1>10, <1>11, <1>12, <1>13, <1>14, <1>15, <1>16, <1>17
        DEF L!Next, L!Tick

-----------------------------------------------------------------------------
(* Supervision.                                                             *)
LEMMA SupervisionInit == ASSUME V!Init PROVE SupervisionInv
<1>1. V!TypeOK
  <2>1. watching \in BOOLEAN
    BY DEF V!Init
  <2> QED BY <2>1 DEF V!Init, V!TypeOK
<1> QED BY <1>1 DEF V!Init, SupervisionInv, V!Starting, V!Running

(* Starting a daemon, with or without the end of the others. *)
LEMMA SpawnStep ==
    ASSUME SupervisionInv, NEW p \in Pids, NEW others \in {{}, Pids}, V!Spawn(p, others), lock' = lock
    PROVE  /\ stage' \in [Pids -> {"absent", "reading", "writing", "running"}]
           /\ ~overlapped' =>
                /\ \A q, r \in V!Starting' : q = r
                /\ \A q \in V!Running' : lock' = q
                /\ \A q \in Pids : stage'[q] = "writing" => V!Running' = {}
<1>1. stage \in [Pids -> {"absent", "reading", "writing", "running"}]
  BY DEF SupervisionInv, V!TypeOK
<1>2. stage' = [q \in Pids |-> IF q = p THEN "reading" ELSE IF q \in others THEN stage[q] ELSE "absent"]
  BY DEF V!Spawn
<1>3. stage' \in [Pids -> {"absent", "reading", "writing", "running"}]
  BY <1>1, <1>2
<1>4. ASSUME ~overlapped' PROVE V!Starting' = {p} /\ V!Running' \subseteq V!Running /\ ~overlapped
  <2>1. ~overlapped /\ V!Starting \cap others = {}
    BY <1>4 DEF V!Spawn
  <2> QED BY <1>1, <1>2, <2>1 DEF V!Starting, V!Running
<1>5. ASSUME ~overlapped', NEW q \in Pids PROVE stage'[q] # "writing"
  BY <1>2, <1>4, <1>5 DEF V!Starting
<1> QED BY <1>3, <1>4, <1>5 DEF SupervisionInv

LEMMA SupervisionStep == ASSUME SupervisionInv, [V!Next]_supervision PROVE SupervisionInv'
<1> DEFINE Guarded ==
             ~overlapped =>
               /\ \A p, q \in V!Starting : p = q
               /\ \A p \in V!Running : lock = p
               /\ \A p \in Pids : stage[p] = "writing" => V!Running = {}
           Types ==
             /\ stage \in [Pids -> {"absent", "reading", "writing", "running"}]
             /\ lock \in Pids \cup {None}
           Checked ==
             /\ action \in {None, "GATEWAY_RESTARTED", "PLUGIN_RESYNCED", "DAEMON_RESTARTED"}
             /\ age \in 0..3 /\ rest \in 0..3 /\ restarts \in 0..1
<1>1. SupervisionInv <=> Guarded /\ Types /\ Checked /\ watching \in BOOLEAN
  BY DEF SupervisionInv, V!TypeOK
<1>2. SupervisionInv' <=> Guarded' /\ Types' /\ Checked' /\ (watching' \in BOOLEAN)
  BY DEF SupervisionInv, V!TypeOK
<1>3. ASSUME UNCHANGED <<stage, lock, overlapped>> PROVE Guarded' /\ Types'
  BY <1>1, <1>3 DEF V!Starting, V!Running
<1>4. ASSUME UNCHANGED <<action, age, rest, restarts>> PROVE Checked'
  BY <1>1, <1>4
<1>5. ASSUME NEW p \in Pids, V!SystemdStarts(p) PROVE SupervisionInv'
  <2>1. Guarded' /\ Types'
    BY <1>1, <1>5, SpawnStep DEF V!SystemdStarts
  <2>2. watching' \in BOOLEAN
    BY <1>1, <1>5 DEF V!SystemdStarts
  <2> QED BY <1>2, <1>4, <1>5, <2>1, <2>2 DEF V!SystemdStarts, V!recovery
<1>6. CASE V!Counts
  <2>1. watching' \in BOOLEAN
    BY <1>6 DEF V!Counts, V!NoneCounted
  <2> QED BY <1>2, <1>3, <1>4, <1>6, <2>1 DEF V!Counts, V!recovery
<1>7. ASSUME NEW p \in Pids, V!WatchdogStarts(p) PROVE SupervisionInv'
  <2>1. Guarded' /\ Types'
    BY <1>1, <1>7, SpawnStep DEF V!WatchdogStarts
  <2>2. watching' \in BOOLEAN
    BY <1>7 DEF V!WatchdogStarts
  <2> QED BY <1>2, <1>4, <1>7, <2>1, <2>2 DEF V!WatchdogStarts, V!recovery
<1>8. ASSUME NEW p \in Pids, V!OtherStarts(p) PROVE SupervisionInv'
  <2>1. Guarded' /\ Types'
    BY <1>1, <1>8, SpawnStep DEF V!OtherStarts
  <2>2. watching' \in BOOLEAN
    BY <1>1, <1>8 DEF V!OtherStarts
  <2> QED BY <1>2, <1>4, <1>8, <2>1, <2>2 DEF V!OtherStarts, V!recovery
<1>9. ASSUME NEW p \in Pids, V!ReadLock(p) PROVE SupervisionInv'
  <2>1. /\ stage[p] = "reading" /\ lock' = lock /\ overlapped' = overlapped
        /\ stage' = [stage EXCEPT ![p] = IF V!HeldBy(p) THEN "absent" ELSE "writing"]
    BY <1>9 DEF V!ReadLock
  <2>2. Types'
    BY <1>1, <2>1
  <2>3. Guarded'
    <3>1. SUFFICES ASSUME ~overlapped' PROVE Guarded'
      OBVIOUS
    <3>2. V!Starting' \subseteq V!Starting /\ V!Running' = V!Running
      BY <1>1, <2>1 DEF V!Starting, V!Running
    <3>3. ASSUME ~V!HeldBy(p), ~overlapped PROVE V!Running = {}
      BY <1>1, <3>3, NoneIsNothing DEF V!HeldBy, V!Running
    <3>4. ASSUME NEW q \in Pids, stage'[q] = "writing" PROVE V!Running = {}
      <4>1. q # p => stage[q] = "writing"
        BY <1>1, <2>1, <3>4
      <4>2. q = p => ~V!HeldBy(p)
        BY <1>1, <2>1, <3>4
      <4> QED BY <1>1, <2>1, <3>1, <3>3, <4>1, <4>2
    <3> QED BY <1>1, <2>1, <3>1, <3>2, <3>4
  <2>4. watching' \in BOOLEAN
    BY <1>1, <1>9 DEF V!ReadLock
  <2> QED BY <1>2, <1>4, <1>9, <2>2, <2>3, <2>4 DEF V!ReadLock, V!recovery
<1>10. ASSUME NEW p \in Pids, V!WriteLock(p) PROVE SupervisionInv'
  <2>1. /\ stage[p] = "writing" /\ lock' = p /\ overlapped' = overlapped
        /\ stage' = [stage EXCEPT ![p] = "running"]
    BY <1>10 DEF V!WriteLock
  <2>2. Types'
    BY <1>1, <2>1
  <2>3. ASSUME ~overlapped' PROVE V!Starting = {p} /\ V!Starting' = {} /\ V!Running' = {p}
    <3>1. V!Starting = {p} /\ V!Running = {}
      BY <1>1, <2>1, <2>3 DEF V!Starting
    <3> QED BY <1>1, <2>1, <3>1 DEF V!Starting, V!Running
  <2>4. Guarded'
    BY <2>1, <2>3 DEF V!Starting
  <2>5. watching' \in BOOLEAN
    BY <1>1, <1>10 DEF V!WriteLock
  <2> QED BY <1>2, <1>4, <1>10, <2>2, <2>4, <2>5 DEF V!WriteLock, V!recovery
<1>11. ASSUME NEW p \in Pids, V!Dies(p) PROVE SupervisionInv'
  <2>1. /\ stage' = [stage EXCEPT ![p] = "absent"] /\ overlapped' = overlapped
        /\ lock' = lock \/ (lock' = None /\ stage[p] = "writing")
    BY <1>11 DEF V!Dies
  <2>2. Types'
    BY <1>1, <2>1
  <2>3. V!Starting' \subseteq V!Starting /\ V!Running' \subseteq V!Running
    BY <1>1, <2>1 DEF V!Starting, V!Running
  <2>4. \A q \in Pids : stage'[q] = "writing" => stage[q] = "writing"
    BY <1>1, <2>1
  <2>5. Guarded'
    BY <1>1, <2>1, <2>3, <2>4
  <2>6. watching' \in BOOLEAN
    BY <1>1, <1>11 DEF V!Dies
  <2> QED BY <1>2, <1>4, <1>11, <2>2, <2>5, <2>6 DEF V!Dies, V!recovery
<1>12. ASSUME NEW p \in Pids, V!Recover(p) PROVE SupervisionInv'
  <2>1. lock' = lock /\ watching' = watching
    BY <1>12 DEF V!Recover
  <2>2. Guarded' /\ Types'
    <3>1. CASE \E q \in Pids : V!Spawn(q, Pids)
      BY <1>1, <2>1, <3>1, SpawnStep
    <3>2. CASE UNCHANGED <<stage, overlapped>>
      BY <1>3, <2>1, <3>2
    <3> QED BY <1>12, <3>1, <3>2 DEF V!Recover
  <2>3. Checked'
    BY <1>1, <1>12 DEF V!Recover, V!GatewayPart, V!PluginPart, V!PluginRestarts, V!Acted, V!Errs, V!Aged
  <2> QED BY <1>1, <1>2, <2>1, <2>2, <2>3
<1>13. CASE V!GatewayFails \/ V!PluginFails
  BY <1>1, <1>2, <1>3, <1>4, <1>13 DEF V!GatewayFails, V!PluginFails
<1>14. CASE UNCHANGED supervision
  BY <1>1, <1>2, <1>3, <1>4, <1>14 DEF supervision
<1> QED BY <1>5, <1>6, <1>7, <1>8, <1>9, <1>10, <1>11, <1>12, <1>13, <1>14 DEF V!Next

LEMMA SupervisionSafe == SupervisionInv => OneDaemon
<1> SUFFICES ASSUME SupervisionInv PROVE OneDaemon
  OBVIOUS
<1>1. ASSUME ~overlapped PROVE V!Cardinality(V!Running) <= 1
  <2>1. V!Running \subseteq {lock}
    BY <1>1 DEF SupervisionInv
  <2>2. Cardinality({lock}) = 1 /\ IsFiniteSet({lock})
    BY FS_Singleton
  <2>3. Cardinality(V!Running) <= Cardinality({lock}) /\ Cardinality(V!Running) \in Nat
    BY <2>1, <2>2, FS_Subset, FS_CardinalityType
  <2>4. V!Cardinality(V!Running) = Cardinality(V!Running)
    BY DEF Cardinality, V!Cardinality
  <2> QED BY <2>2, <2>3, <2>4
<1> QED BY <1>1 DEF SupervisionInv, OneDaemon, V!OneDaemon

-----------------------------------------------------------------------------
(* Dialogues.                                                               *)
LEMMA SentByTurns ==
    /\ SentBy["none"] = {} /\ SentBy["connected"] = {} /\ SentBy["failed"] = {}
    /\ SentBy["sent_1"] = {1} /\ SentBy["took_2"] = 1..2 /\ SentBy["sent_3"] = 1..3
    /\ SentBy["took_4"] = 1..4 /\ SentBy["sent_5"] = 1..5
    /\ SentBy["took_6"] = 1..6 /\ SentBy["done"] = 1..6
<1>1. SentBy["none"] = {} /\ SentBy["connected"] = {} /\ SentBy["failed"] = {}
  BY DEF SentBy, G!Turns
<1>2. /\ SentBy["sent_1"] = {1} /\ SentBy["took_2"] = 1..2 /\ SentBy["sent_3"] = 1..3
      /\ SentBy["took_4"] = 1..4 /\ SentBy["sent_5"] = 1..5
  BY DEF SentBy, G!Turns
<1>3. SentBy["took_6"] = 1..6 /\ SentBy["done"] = 1..6
  BY DEF SentBy, G!Turns
<1> QED BY <1>1, <1>2, <1>3

(* What the receiver of one dialogue has done. *)
Heard(d) ==
    /\ \A turn \in G!Asks : answers[d][turn] > 0 => <<d, turn>> \in sent
    /\ flow[d] = "activity" =>
         \A turn \in G!Asks :
           /\ answers[d][turn] < 2
           /\ turn > lastTurn[d] => <<d, turn>> \notin answering /\ answers[d][turn] = 0
           /\ <<d, turn>> \in answering => answers[d][turn] = 0
(* And how far its runner is. *)
Asked(d) ==
    /\ \A turn \in SentBy[at[d]] : <<d, turn>> \in sent
    /\ \A turn \in inbox[d] : <<d, turn>> \in sent
    /\ at[d] = "none" => \A turn \in 1..6 : <<d, turn>> \notin sent
    /\ d \in saved => \A turn \in 1..6 : <<d, turn>> \in sent

LEMMA DialogueParts ==
    /\ DialogueInv <=> /\ G!TypeOK /\ answering \subseteq sent
                       /\ \A d \in Dialogues : Heard(d) /\ Asked(d)
    /\ DialogueInv' <=> /\ G!TypeOK' /\ answering' \subseteq sent'
                        /\ \A d \in Dialogues : Heard(d)' /\ Asked(d)'
<1>1. DialogueInv <=> /\ G!TypeOK /\ answering \subseteq sent
                      /\ \A d \in Dialogues : Heard(d) /\ Asked(d)
  BY DEF DialogueInv, DialogueSound, G!DialogueSound, Heard, Asked
<1>2. DialogueInv' <=> /\ G!TypeOK' /\ answering' \subseteq sent'
                       /\ \A d \in Dialogues : Heard(d)' /\ Asked(d)'
  BY DEF DialogueInv, DialogueSound, G!DialogueSound, Heard, Asked
<1> QED BY <1>1, <1>2

LEMMA DialogueInit == ASSUME G!Init PROVE DialogueInv
<1>1. askerUp \in BOOLEAN /\ peerUp \in BOOLEAN
  BY DEF G!Init
<1>2. G!TypeOK
  BY <1>1, AreNumbers DEF G!Init, G!TypeOK, G!Flows, G!Turns, G!Asks
<1>3. ASSUME NEW d \in Dialogues PROVE Heard(d) /\ Asked(d)
  <2>1. /\ at[d] = "none" /\ inbox[d] = {} /\ saved = {} /\ sent = {} /\ flow[d] = "none"
        /\ \A turn \in G!Asks : answers[d][turn] = 0
    BY <1>3 DEF G!Init
  <2>2. SentBy[at[d]] = {}
    BY <2>1, SentByTurns
  <2> QED BY <2>1, <2>2 DEF Heard, Asked
<1> QED BY <1>2, <1>3, DialogueParts DEF G!Init

(* A step of the runner of d: the receiver is not touched, and what is sent *)
(* is sent for d.                                                           *)
LEMMA RunnerStep ==
    ASSUME DialogueInv, NEW d \in Dialogues, NEW x \in G!Turns \ {"none"},
           at' = [at EXCEPT ![d] = x], at[d] # "none",
           UNCHANGED <<flow, lastTurn, answering, answers, askerUp, peerUp, lives>>,
           sent \subseteq sent', sent' \subseteq Dialogues \X (1..6),
           \A y \in sent' : y \in sent \/ y[1] = d,
           \A turn \in SentBy[x] : <<d, turn>> \in sent',
           inbox' \in [Dialogues -> SUBSET {2, 4, 6}],
           \A e \in Dialogues : inbox'[e] \subseteq inbox[e],
           subscribed' \subseteq Dialogues, saved' \subseteq Dialogues,
           saved' \subseteq saved \cup {d}, d \in saved' => d \in saved \/ SentBy[x] = 1..6
    PROVE  DialogueInv'
<1>1. G!TypeOK'
  <2>1. G!TypeOK
    BY DEF DialogueInv
  <2>2. (askerUp \in BOOLEAN)' /\ (peerUp \in BOOLEAN)'
    BY <2>1 DEF G!TypeOK
  <2> QED BY <2>1, <2>2 DEF G!TypeOK
<1>2. ASSUME NEW e \in Dialogues PROVE Heard(e)'
  BY DialogueParts DEF Heard
<1>3. ASSUME NEW e \in Dialogues PROVE Asked(e)'
  <2>1. Asked(e) /\ at \in [Dialogues -> G!Turns]
    BY DialogueParts DEF G!TypeOK
  <2>2. CASE e = d
    BY <2>1, <2>2 DEF Asked
  <2>3. CASE e # d
    <3>1. at'[e] = at[e] /\ (e \in saved' => e \in saved)
      BY <2>1, <2>3
    <3>2. \A turn \in 1..6 : <<e, turn>> \in sent' => <<e, turn>> \in sent
      BY <2>3
    <3> QED BY <2>1, <3>1, <3>2 DEF Asked
  <2> QED BY <2>2, <2>3
<1> QED BY <1>1, <1>2, <1>3, DialogueParts

LEMMA LeaveStep ==
    ASSUME DialogueInv, NEW d \in Dialogues, at[d] # "none", G!Leave(d),
           UNCHANGED <<sent, lastTurn, answering, answers, askerUp, peerUp, lives>>
    PROVE  DialogueInv'
<1>1. subscribed' \subseteq Dialogues /\ saved' \subseteq Dialogues
      /\ inbox' \in [Dialogues -> SUBSET {2, 4, 6}] /\ sent' \subseteq Dialogues \X (1..6)
  BY DEF G!Leave, DialogueInv, G!TypeOK
<1>2. at' = [at EXCEPT ![d] = "failed"] /\ UNCHANGED <<flow, inbox, saved>>
  BY DEF G!Leave, G!Goto
<1>3. "failed" \in G!Turns \ {"none"}
  BY DEF G!Turns
<1> QED BY <1>1, <1>2, <1>3, SentByTurns, RunnerStep

LEMMA DialogueStep == ASSUME DialogueInv, [G!Next]_dialogue PROVE DialogueInv'
<1>t. G!TypeOK /\ answering \subseteq sent
  BY DialogueParts
<1>b. ASSUME UNCHANGED <<askerUp, peerUp>> PROVE askerUp' \in BOOLEAN /\ peerUp' \in BOOLEAN
  BY <1>t, <1>b DEF G!TypeOK
<1>1. ASSUME NEW d \in Dialogues, G!Start(d) PROVE DialogueInv'
  <2>1. PICK f \in G!Flows, x \in {"connected", "failed"} :
          flow' = [flow EXCEPT ![d] = f] /\ at' = [at EXCEPT ![d] = x]
    BY <1>1 DEF G!Start, G!Goto
  <2>2. /\ at[d] = "none" /\ subscribed' \in {subscribed, subscribed \cup {d}}
        /\ UNCHANGED <<inbox, saved, sent, lastTurn, answering, answers, askerUp, peerUp, lives>>
    BY <1>1 DEF G!Start, G!receiver, G!environment
  <2>3. G!TypeOK'
    BY <1>b, <1>t, <2>1, <2>2 DEF G!TypeOK, G!Turns
  <2>4. ASSUME NEW e \in Dialogues PROVE Heard(e)' /\ Asked(e)'
    <3>1. CASE e = d
      <4>1. flow'[e] = f /\ at'[e] = x /\ SentBy[x] = {}
        BY <1>t, <2>1, <3>1, SentByTurns DEF G!TypeOK
      <4>2. \A turn \in 1..6 : <<e, turn>> \notin sent
        BY DialogueParts, <2>2, <3>1 DEF Asked
      <4>3. \A turn \in G!Asks : answers[e][turn] = 0 /\ <<e, turn>> \notin answering
        <5>1. ASSUME NEW turn \in G!Asks PROVE answers[e][turn] \in 0..2 /\ turn \in 1..6
          BY <1>t DEF G!TypeOK, G!Asks
        <5> QED BY DialogueParts, <4>2, <5>1 DEF Heard
      <4>4. Heard(e)'
        BY DialogueParts, <2>2, <4>3 DEF Heard
      <4>5. Asked(e)'
        BY DialogueParts, <2>2, <4>1 DEF Asked
      <4> QED BY <4>4, <4>5
    <3>2. CASE e # d
      <4>1. flow'[e] = flow[e] /\ at'[e] = at[e]
        BY <1>t, <2>1, <3>2 DEF G!TypeOK
      <4> QED BY DialogueParts, <2>2, <4>1 DEF Heard, Asked
    <3> QED BY <3>1, <3>2
  <2> QED BY DialogueParts, <2>2, <2>3, <2>4
<1>2. ASSUME NEW d \in Dialogues, G!Ask(d) PROVE DialogueInv'
  <2>1. CASE at[d] \notin {"connected", "took_2", "took_4"}
    BY <1>2, <2>1 DEF G!Ask, G!NextTurn
  <2>2. CASE askerUp
    <3>1. PICK turn \in G!Asks, x \in {"sent_1", "sent_3", "sent_5"} :
            /\ \/ at[d] = "connected" /\ turn = 1 /\ x = "sent_1"
               \/ at[d] = "took_2" /\ turn = 3 /\ x = "sent_3"
               \/ at[d] = "took_4" /\ turn = 5 /\ x = "sent_5"
            /\ sent' = sent \cup {<<d, turn>>} /\ at' = [at EXCEPT ![d] = x]
            /\ UNCHANGED <<flow, inbox, subscribed, saved, lastTurn, answering, answers,
                           askerUp, peerUp, lives>>
      <4>1. UNCHANGED <<flow, inbox, subscribed, saved, lastTurn, answering, answers,
                        askerUp, peerUp, lives>>
        BY <1>2, <2>2 DEF G!Ask, G!receiver, G!environment
      <4>2. sent' = sent \cup {<<d, G!NextTurn(d)>>} /\ at' = [at EXCEPT ![d] = G!Sent(G!NextTurn(d))]
            /\ G!NextTurn(d) # 0
        BY <1>2, <2>2 DEF G!Ask, G!Goto
      <4>3. CASE at[d] = "connected"
        <5>1. G!NextTurn(d) = 1 /\ G!Sent(1) = "sent_1" /\ 1 \in G!Asks
          BY <4>3 DEF G!NextTurn, G!Sent, G!Asks
        <5> QED BY <4>1, <4>2, <4>3, <5>1
      <4>4. CASE at[d] = "took_2"
        <5>1. G!NextTurn(d) = 3 /\ G!Sent(3) = "sent_3" /\ 3 \in G!Asks
          BY <4>4 DEF G!NextTurn, G!Sent, G!Asks
        <5> QED BY <4>1, <4>2, <4>4, <5>1
      <4>5. CASE at[d] = "took_4"
        <5>1. G!NextTurn(d) = 5 /\ G!Sent(5) = "sent_5" /\ 5 \in G!Asks
          BY <4>5 DEF G!NextTurn, G!Sent, G!Asks
        <5> QED BY <4>1, <4>2, <4>5, <5>1
      <4> QED BY <4>2, <4>3, <4>4, <4>5 DEF G!NextTurn
    <3>2. \A k \in SentBy[at[d]] : <<d, k>> \in sent
      BY DialogueParts DEF Asked
    <3>3. \A k \in SentBy[x] : k \in SentBy[at[d]] \/ k = turn
      <4>1. CASE at[d] = "connected" /\ turn = 1 /\ x = "sent_1"
        BY <4>1, SentByTurns
      <4>2. CASE at[d] = "took_2" /\ turn = 3 /\ x = "sent_3"
        BY <4>2, SentByTurns
      <4>3. CASE at[d] = "took_4" /\ turn = 5 /\ x = "sent_5"
        BY <4>3, SentByTurns
      <4> QED BY <3>1, <4>1, <4>2, <4>3
    <3>4. x \in G!Turns \ {"none"} /\ turn \in 1..6 /\ at[d] # "none"
      <4>1. x \in G!Turns \ {"none"}
        BY DEF G!Turns
      <4>2. turn \in 1..6
        BY DEF G!Asks
      <4> QED BY <3>1, <4>1, <4>2
    <3>5. UNCHANGED <<inbox, subscribed, saved>> /\ sent' = sent \cup {<<d, turn>>}
      BY <3>1
    <3>6. /\ sent' \subseteq Dialogues \X (1..6) /\ inbox' \in [Dialogues -> SUBSET {2, 4, 6}]
          /\ subscribed' \subseteq Dialogues /\ saved' \subseteq Dialogues
      BY <1>t, <3>4, <3>5 DEF G!TypeOK
    <3>7. /\ \A k \in SentBy[x] : <<d, k>> \in sent'
          /\ sent \subseteq sent' /\ \A y \in sent' : y \in sent \/ y[1] = d
      BY <3>2, <3>3, <3>5
    <3>8. at' = [at EXCEPT ![d] = x]
          /\ UNCHANGED <<flow, lastTurn, answering, answers, askerUp, peerUp, lives>>
      BY <3>1
    <3> QED BY <3>4, <3>5, <3>6, <3>7, <3>8, RunnerStep
  <2>3. CASE ~askerUp /\ at[d] \in {"connected", "took_2", "took_4"}
    BY <1>2, <2>3, LeaveStep DEF G!Ask, G!receiver, G!environment
  <2> QED BY DialogueParts, <2>1, <2>2, <2>3
<1>3. ASSUME NEW d \in Dialogues, G!Take(d) PROVE DialogueInv'
  <2>1. /\ G!Matches(d) # {} /\ at' = [at EXCEPT ![d] = G!Took(G!Waits(d))]
        /\ inbox' = [inbox EXCEPT ![d] = @ \ G!Matches(d)]
        /\ UNCHANGED <<flow, subscribed, saved, sent, lastTurn, answering, answers,
                       askerUp, peerUp, lives>>
    BY <1>3 DEF G!Take, G!Goto, G!receiver, G!environment
  <2>2. G!Waits(d) \in inbox[d]
    BY <2>1 DEF G!Matches
  <2>3. PICK turn \in {2, 4, 6}, x \in {"took_2", "took_4", "took_6"} :
          /\ \/ at[d] = "sent_1" /\ turn = 2 /\ x = "took_2"
             \/ at[d] = "sent_3" /\ turn = 4 /\ x = "took_4"
             \/ at[d] = "sent_5" /\ turn = 6 /\ x = "took_6"
          /\ turn \in inbox[d] /\ at' = [at EXCEPT ![d] = x]
    <3>1. G!Waits(d) \in {2, 4, 6}
      BY <1>t, <2>2 DEF G!TypeOK
    <3>2. CASE G!Waits(d) = 2
      <4>1. at[d] = "sent_1" /\ G!Took(2) = "took_2"
        BY <3>2 DEF G!Waits, G!Took
      <4> QED BY <2>1, <2>2, <3>2, <4>1
    <3>3. CASE G!Waits(d) = 4
      <4>1. at[d] = "sent_3" /\ G!Took(4) = "took_4"
        BY <3>3 DEF G!Waits, G!Took
      <4> QED BY <2>1, <2>2, <3>3, <4>1
    <3>4. CASE G!Waits(d) = 6
      <4>1. at[d] = "sent_5" /\ G!Took(6) = "took_6"
        BY <3>4 DEF G!Waits, G!Took
      <4> QED BY <2>1, <2>2, <3>4, <4>1
    <3> QED BY <3>1, <3>2, <3>3, <3>4
  <2>4. <<d, turn>> \in sent /\ \A k \in SentBy[at[d]] : <<d, k>> \in sent
    BY DialogueParts, <2>3 DEF Asked
  <2>5. \A k \in SentBy[x] : k \in SentBy[at[d]] \/ k = turn
    <3>1. CASE at[d] = "sent_1" /\ turn = 2 /\ x = "took_2"
      BY <3>1, SentByTurns
    <3>2. CASE at[d] = "sent_3" /\ turn = 4 /\ x = "took_4"
      BY <3>2, SentByTurns
    <3>3. CASE at[d] = "sent_5" /\ turn = 6 /\ x = "took_6"
      BY <3>3, SentByTurns
    <3> QED BY <2>3, <3>1, <3>2, <3>3
  <2>6. x \in G!Turns \ {"none"} /\ at[d] # "none"
    BY <2>3 DEF G!Turns
  <2>7. /\ sent' \subseteq Dialogues \X (1..6) /\ subscribed' \subseteq Dialogues
        /\ saved' \subseteq Dialogues /\ inbox' \in [Dialogues -> SUBSET {2, 4, 6}]
        /\ \A e \in Dialogues : inbox'[e] \subseteq inbox[e]
    BY <1>t, <2>1 DEF G!TypeOK
  <2> QED BY DialogueParts, <2>1, <2>3, <2>4, <2>5, <2>6, <2>7, RunnerStep
<1>4. ASSUME NEW d \in Dialogues, G!TimeOut(d) PROVE DialogueInv'
  BY <1>4, LeaveStep DEF G!TimeOut, G!Waits, G!receiver, G!environment
<1>5. ASSUME NEW d \in Dialogues, G!Finish(d) PROVE DialogueInv'
  <2>1. CASE G!Leave(d)
    BY <1>5, <2>1, LeaveStep DEF G!Finish, G!receiver, G!environment
  <2>2. CASE ~G!Leave(d)
    <3>1. /\ saved' = saved \cup {d} /\ subscribed' = subscribed \ {d}
          /\ at' = [at EXCEPT ![d] = "done"] /\ at[d] = "took_6"
          /\ UNCHANGED <<flow, inbox, sent, lastTurn, answering, answers, askerUp, peerUp, lives>>
      BY <1>5, <2>2 DEF G!Finish, G!Goto, G!receiver, G!environment
    <3>2. \A k \in SentBy["done"] : <<d, k>> \in sent
      BY DialogueParts, <3>1, SentByTurns DEF Asked
    <3>3. "done" \in G!Turns \ {"none"}
      BY DEF G!Turns
    <3>4. /\ sent' \subseteq Dialogues \X (1..6) /\ subscribed' \subseteq Dialogues
          /\ saved' \subseteq Dialogues /\ inbox' \in [Dialogues -> SUBSET {2, 4, 6}]
      BY <1>t, <3>1 DEF G!TypeOK
    <3> QED BY <3>1, <3>2, <3>3, <3>4, SentByTurns, RunnerStep
  <2> QED BY DialogueParts, <2>1, <2>2
<1>6. ASSUME NEW d \in Dialogues, NEW turn \in 1..6, G!Deliver(d, turn) PROVE DialogueInv'
  <2>1. /\ <<d, turn>> \in sent /\ turn \in {2, 4, 6} /\ inbox' = [inbox EXCEPT ![d] = @ \cup {turn}]
        /\ UNCHANGED <<flow, at, subscribed, saved, sent, lastTurn, answering, answers,
                       askerUp, peerUp, lives>>
    BY <1>6 DEF G!Deliver, G!Asks, G!receiver, G!environment
  <2>2. G!TypeOK'
    BY <1>b, <1>t, <2>1 DEF G!TypeOK
  <2>3. ASSUME NEW e \in Dialogues PROVE Heard(e)' /\ Asked(e)'
    <3>1. Heard(e) /\ Asked(e)
      BY DialogueParts
    <3>2. Heard(e)'
      BY <2>1, <3>1 DEF Heard
    <3>3. \A k \in inbox'[e] : k \in inbox[e] \/ (e = d /\ k = turn)
      BY <1>t, <2>1 DEF G!TypeOK
    <3>4. \A k \in inbox'[e] : <<e, k>> \in sent
      BY <2>1, <3>1, <3>3 DEF Asked
    <3> QED BY <2>1, <3>1, <3>2, <3>4 DEF Asked
  <2> QED BY DialogueParts, <2>1, <2>2, <2>3
<1>7. ASSUME NEW d \in Dialogues, NEW turn \in 1..6, G!Receive(d, turn) PROVE DialogueInv'
  <2>1. /\ <<d, turn>> \in sent /\ turn \in G!Asks
        /\ flow[d] = "activity" => turn > lastTurn[d]
        /\ lastTurn' = IF flow[d] = "activity" THEN [lastTurn EXCEPT ![d] = turn] ELSE lastTurn
        /\ answering' = answering \cup {<<d, turn>>}
        /\ UNCHANGED <<flow, at, inbox, subscribed, saved, sent, answers, askerUp, peerUp, lives>>
    BY <1>7 DEF G!Receive, G!IsNew, G!Noted, G!asker, G!environment
  <2>2. G!TypeOK'
    BY <1>b, <1>t, <2>1 DEF G!TypeOK
  <2>3. ASSUME NEW e \in Dialogues PROVE Heard(e)' /\ Asked(e)'
    <3>1. Asked(e)'
      BY DialogueParts, <2>1 DEF Asked
    <3>2. CASE e = d /\ flow[d] = "activity"
      <4>1. /\ lastTurn'[e] = turn /\ turn > lastTurn[e] /\ turn \in Nat /\ lastTurn[e] \in Nat
            /\ \A k \in G!Asks : k \in Nat
        BY <1>t, <2>1, <3>2 DEF G!TypeOK, G!Asks
      <4>2. \A k \in G!Asks : k > turn => k > lastTurn[e]
        BY <4>1
      <4> QED BY DialogueParts, <2>1, <3>1, <3>2, <4>1, <4>2 DEF Heard
    <3>3. CASE e # d \/ flow[d] # "activity"
      BY DialogueParts, <1>t, <2>1, <3>1, <3>3 DEF Heard, G!TypeOK
    <3> QED BY <3>2, <3>3
  <2> QED BY DialogueParts, <2>1, <2>2, <2>3
<1>8. ASSUME NEW d \in Dialogues, NEW turn \in 1..6,
             G!AnswerActivity(d, turn) \/ G!AnswerExperience(d, turn)
      PROVE  DialogueInv'
  <2>1. /\ <<d, turn>> \in answering /\ answering' = answering \ {<<d, turn>>}
        /\ answers' = [answers EXCEPT ![d][turn] = IF @ < 2 THEN @ + 1 ELSE @]
        /\ sent' \in {sent, sent \cup {<<d, turn + 1>>}}
        /\ UNCHANGED <<flow, at, inbox, subscribed, saved, lastTurn, askerUp, peerUp, lives>>
    BY <1>8 DEF G!AnswerActivity, G!AnswerExperience, G!Replied, G!asker, G!environment
  <2>2. turn \in G!Asks /\ turn + 1 \in 1..6 /\ <<d, turn>> \in sent
    BY <1>t, <2>1 DEF G!TypeOK, G!Asks
  <2>3. /\ answers' \in [Dialogues -> [G!Asks -> 0..2]]
        /\ \A e \in Dialogues : \A k \in G!Asks : <<e, k>> # <<d, turn>> => answers'[e][k] = answers[e][k]
        /\ answers[d][turn] = 0 => answers'[d][turn] = 1
    BY <1>t, <2>1, <2>2 DEF G!TypeOK
  <2>4. G!TypeOK'
    <3>1. sent' \subseteq Dialogues \X (1..6) /\ answering' \subseteq Dialogues \X G!Asks
      BY <1>t, <2>1, <2>2 DEF G!TypeOK
    <3> QED BY <1>b, <1>t, <2>1, <2>3, <3>1 DEF G!TypeOK
  <2>5. ASSUME NEW e \in Dialogues PROVE Asked(e)'
    <3>1. e = d => at[e] # "none"
      BY DialogueParts, <2>2 DEF Asked
    <3> QED BY DialogueParts, <2>1, <3>1 DEF Asked
  <2>6. ASSUME NEW e \in Dialogues PROVE Heard(e)'
    <3>1. ASSUME NEW k \in G!Asks, answers'[e][k] > 0 PROVE <<e, k>> \in sent'
      BY DialogueParts, <2>1, <2>2, <2>3, <3>1 DEF Heard
    <3>2. ASSUME flow[e] = "activity", NEW k \in G!Asks
          PROVE  /\ answers'[e][k] < 2
                 /\ k > lastTurn[e] => <<e, k>> \notin answering' /\ answers'[e][k] = 0
                 /\ <<e, k>> \in answering' => answers'[e][k] = 0
      <4>1. CASE <<e, k>> = <<d, turn>>
        <5>1. answers[e][k] = 0 /\ ~(k > lastTurn[e])
          BY DialogueParts, <2>1, <3>2, <4>1 DEF Heard
        <5> QED BY <2>1, <2>3, <4>1, <5>1
      <4>2. CASE <<e, k>> # <<d, turn>>
        BY DialogueParts, <2>1, <2>3, <3>2, <4>2 DEF Heard
      <4> QED BY <4>1, <4>2
    <3> QED BY DialogueParts, <2>1, <3>1, <3>2 DEF Heard
  <2>7. answering' \subseteq sent'
    BY DialogueParts, <2>1
  <2> QED BY DialogueParts, <2>4, <2>5, <2>6, <2>7
<1>9. CASE G!Restart
  <2>1. /\ lastTurn' = [d \in Dialogues |-> 0] /\ answering' = {}
        /\ answers' = [d \in Dialogues |-> [t \in G!Asks |-> 0]]
        /\ lives' \in 0..MaxRestarts
        /\ UNCHANGED <<flow, at, inbox, subscribed, saved, sent, askerUp, peerUp>>
    BY <1>9, <1>t, AreNumbers DEF G!Restart, G!asker, G!TypeOK
  <2>2. G!TypeOK'
    BY <1>b, <1>t, <2>1 DEF G!TypeOK
  <2>3. ASSUME NEW e \in Dialogues PROVE Heard(e)' /\ Asked(e)'
    <3>1. \A turn \in G!Asks : answers'[e][turn] = 0
      BY <2>1
    <3>2. Heard(e)'
      BY DialogueParts, <2>1, <3>1 DEF Heard
    <3>3. Asked(e)'
      BY DialogueParts, <2>1 DEF Asked
    <3> QED BY <3>2, <3>3
  <2> QED BY DialogueParts, <2>1, <2>2, <2>3
<1>10. CASE G!LinkChanges
  <2>1. UNCHANGED <<flow, at, inbox, subscribed, saved, sent, lastTurn, answering, answers, lives>>
    BY <1>10 DEF G!LinkChanges, G!asker, G!receiver
  <2>2. askerUp' \in BOOLEAN /\ peerUp' \in BOOLEAN
    BY <1>10, <1>t DEF G!LinkChanges, G!TypeOK
  <2>3. G!TypeOK'
    BY <1>t, <2>1, <2>2 DEF G!TypeOK
  <2> QED BY DialogueParts, <2>1, <2>3 DEF Heard, Asked
<1>11. CASE UNCHANGED dialogue
  <2>1. UNCHANGED <<flow, at, inbox, subscribed, saved, sent, lastTurn, answering, answers, lives,
                    askerUp, peerUp>>
    BY <1>11 DEF dialogue
  <2>2. G!TypeOK'
    BY <1>b, <1>t, <2>1 DEF G!TypeOK
  <2> QED BY DialogueParts, <2>1, <2>2 DEF Heard, Asked
<1> QED BY <1>1, <1>2, <1>3, <1>4, <1>5, <1>6, <1>7, <1>8, <1>9, <1>10, <1>11 DEF G!Next, G!Runs

-----------------------------------------------------------------------------
(* Prices.                                                                  *)
Fields == {"params", "last", "rollback", "pending"}

LEMMA PricingInit == ASSUME S!Init PROVE PricingInv
<1>1. /\ window = 0 /\ rewards = {} /\ earnings = None /\ timeline = {} /\ ids = 0 /\ open = {}
      /\ state.last = None /\ state.pending = None /\ DOMAIN state = Fields
      /\ state.params = [threshold |-> 0, task |-> 0, channel |-> 0]
  BY DEF S!Init, Fields
<1>2. state.params \in Params
  BY <1>1, AreNumbers DEF Params
<1>3. S!TypeOK
  BY <1>1, AreNumbers DEF S!TypeOK
<1>4. Reversible
  BY <1>1 DEF Reversible, S!Reversible, S!Pending
<1> QED BY <1>1, <1>2, <1>3, <1>4 DEF PricingInv, Fields

(* Counting the rewards of a time gives a number. *)
LEMMA WithinIsNat ==
    ASSUME rewards \subseteq 0..window, window \in Nat, NEW from, NEW to
    PROVE  S!Within(from, to) \in Nat
<1> DEFINE those == {t \in rewards : window - t \in from..to}
<1>1. IsFiniteSet(0..window)
  BY FS_Interval
<1>2. IsFiniteSet(those)
  BY <1>1, FS_Subset
<1>3. Cardinality(those) \in Nat
  BY <1>2, FS_CardinalityType
<1>4. S!Cardinality(those) = Cardinality(those)
  BY DEF S!Cardinality, Cardinality
<1> QED BY <1>3, <1>4 DEF S!Within

(* One adjustment is one step of one parameter, within its bounds. *)
LEMMA ProposalIsStep ==
    ASSUME NEW p \in Params, NEW lean \in {-1, 0, 1}, NEW q \in S!Proposals(p, lean)
    PROVE  /\ q \in Params
           /\ S!Steps(q.threshold, p.threshold) + S!Steps(q.task, p.task)
                + S!Steps(q.channel, p.channel) <= 1
<1>1. /\ p.threshold \in -ThresholdSteps..ThresholdSteps
      /\ p.task \in 0..WeightSteps /\ p.channel \in 0..WeightSteps
      /\ ThresholdSteps \in Nat /\ WeightSteps \in Nat
  BY AreNumbers DEF Params
<1>2. CASE lean # 0
  <2>1. q = S!Shifted(p, lean)
    BY <1>2 DEF S!Proposals
  <2>2. /\ q.threshold = S!Clamp(p.threshold + lean, ThresholdSteps)
        /\ q.task = p.task /\ q.channel = p.channel
    BY <2>1 DEF S!Shifted, Params
  <2>3. /\ S!Clamp(p.threshold + lean, ThresholdSteps) \in -ThresholdSteps..ThresholdSteps
        /\ S!Steps(S!Clamp(p.threshold + lean, ThresholdSteps), p.threshold) <= 1
        /\ S!Steps(S!Clamp(p.threshold + lean, ThresholdSteps), p.threshold) \in Nat
    BY <1>1, <1>2 DEF S!Clamp, S!Steps
  <2>4. q \in Params
    BY <2>1, <2>3 DEF S!Shifted, Params
  <2>5. S!Steps(q.task, p.task) = 0 /\ S!Steps(q.channel, p.channel) = 0
    BY <1>1, <2>2 DEF S!Steps
  <2> QED BY <2>2, <2>3, <2>4, <2>5
<1>3. CASE lean = 0
  <2>1. q \in {p, S!Reinforced(p, "task"), S!Reinforced(p, "channel")}
    BY <1>3 DEF S!Proposals, S!ImitationHint
  <2>2. S!Steps(p.threshold, p.threshold) = 0 /\ S!Steps(p.task, p.task) = 0
        /\ S!Steps(p.channel, p.channel) = 0
    BY <1>1 DEF S!Steps
  <2>3. ASSUME NEW w \in 0..WeightSteps
        PROVE  /\ S!Clamp(w + 1, WeightSteps) \in 0..WeightSteps
               /\ S!Steps(S!Clamp(w + 1, WeightSteps), w) <= 1
               /\ S!Steps(S!Clamp(w + 1, WeightSteps), w) \in Nat
    BY <1>1 DEF S!Clamp, S!Steps
  <2>4. CASE q = p
    BY <2>2, <2>4
  <2>5. CASE q = S!Reinforced(p, "task")
    <3>1. q.threshold = p.threshold /\ q.task = S!Clamp(p.task + 1, WeightSteps) /\ q.channel = p.channel
      BY <2>5 DEF S!Reinforced, Params
    <3>2. q \in Params
      BY <1>1, <2>3, <2>5 DEF S!Reinforced, Params
    <3> QED BY <1>1, <2>2, <2>3, <3>1, <3>2
  <2>6. CASE q = S!Reinforced(p, "channel")
    <3>1. q.threshold = p.threshold /\ q.channel = S!Clamp(p.channel + 1, WeightSteps) /\ q.task = p.task
      BY <2>6 DEF S!Reinforced, Params
    <3>2. q \in Params
      BY <1>1, <2>3, <2>6 DEF S!Reinforced, Params
    <3> QED BY <1>1, <2>2, <2>3, <3>1, <3>2
  <2> QED BY <2>1, <2>4, <2>5, <2>6
<1> QED BY <1>2, <1>3

LEMMA PricingStep == ASSUME PricingInv, [S!Next]_pricing PROVE PricingInv'
<1>1. /\ window \in 0..MaxTime /\ window \in Nat /\ ids \in 0..MaxIds /\ open \subseteq 1..MaxIds
      /\ state.params \in Params /\ DOMAIN state = Fields
      /\ rewards \subseteq 0..window /\ (earnings = None \/ earnings.last \in Nat)
      /\ state.last = None \/ state.last \in 0..window
  BY AreNumbers DEF PricingInv, S!TypeOK, Fields
<1>2. ASSUME UNCHANGED <<state, timeline, ids, open>>, window' \in 0..MaxTime, window' >= window,
             rewards' \subseteq 0..window', earnings' = None \/ earnings'.last \in Nat
      PROVE  PricingInv'
  <2>1. S!TypeOK'
    BY <1>1, <1>2 DEF PricingInv, S!TypeOK
  <2>2. Reversible'
    BY <1>2 DEF PricingInv, Reversible, S!Reversible, S!Pending
  <2>3. state'.last = None \/ state'.last \in 0..window'
    BY <1>1, <1>2, AreNumbers
  <2> QED BY <1>2, <2>1, <2>2, <2>3 DEF PricingInv
<1>3. CASE S!WindowPasses
  BY <1>1, <1>2, <1>3, AreNumbers DEF S!WindowPasses
<1>4. CASE S!Rewarded
  BY <1>1, <1>2, <1>4, AreNumbers DEF S!Rewarded
<1>5. CASE S!RebuildEarnings
  <2>1. earnings' = None \/ earnings'.last = S!Within(0, Day)
    BY <1>5 DEF S!RebuildEarnings
  <2>2. earnings' = None \/ earnings'.last \in Nat
    BY <1>1, <2>1, WithinIsNat
  <2> QED BY <1>1, <1>2, <1>5, <2>2 DEF S!RebuildEarnings
<1>6. CASE S!Evaluate
  <2>1. PICK line \in [id : {state.pending.id}, what : {"rolled_back", "kept"},
                       result : {"improved", "degraded", "flat"}] :
          timeline' \in {timeline, timeline \cup {line}}
    BY <1>6 DEF S!Evaluate, S!Save, S!Result, S!Pending
  <2>2. /\ state.pending # None /\ state' \in {S!RolledBack, S!Kept}
        /\ open' = open \ {state.pending.id} /\ UNCHANGED <<window, rewards, earnings, ids>>
    BY <1>6 DEF S!Evaluate, S!Save, S!Due, S!Pending
  <2>3. /\ state.rollback \in Params /\ state.pending.id \in 1..ids
        /\ \A x \in timeline : x.id = state.pending.id => x.what = "adjustment"
        /\ \A x \in timeline : x.id \in 1..ids
    BY <2>2 DEF PricingInv
  <2>4. /\ state'.pending = None /\ DOMAIN state' = Fields /\ state'.params \in Params
        /\ state'.last = None \/ state'.last \in 0..window
    <3>1. CASE state' = S!RolledBack
      <4>1. state'.pending = None /\ state'.last = window /\ state'.params = state.rollback
            /\ DOMAIN state' = Fields
        BY <1>1, <3>1 DEF S!RolledBack, Fields
      <4> QED BY <1>1, <2>3, <4>1
    <3>2. CASE state' = S!Kept
      <4>1. state'.pending = None /\ state'.last = state.last /\ state'.params = state.params
            /\ DOMAIN state' = Fields
        BY <1>1, <3>2 DEF S!Kept, Fields
      <4> QED BY <1>1, <4>1
    <3> QED BY <2>2, <3>1, <3>2
  <2>5. open' = {}
    BY <2>2 DEF PricingInv, Reversible, S!Reversible, S!Pending
  <2>6. line.id = state.pending.id /\ line.what # "adjustment"
    BY <2>1
  <2>7. \A x, y \in timeline' : x.id = y.id /\ x.what # "adjustment" /\ y.what # "adjustment" => x = y
    BY <2>1, <2>3, <2>6 DEF PricingInv, Reversible, S!Reversible
  <2>8. Reversible'
    BY <2>4, <2>5, <2>7 DEF Reversible, S!Reversible, S!Pending
  <2>9. S!TypeOK'
    BY <1>1, <2>2, <2>4, <2>5 DEF S!TypeOK, Params
  <2>10. \A x \in timeline' : x.id \in 1..ids'
    BY <2>1, <2>2, <2>3, <2>6
  <2> QED BY <1>1, <2>2, <2>4, <2>8, <2>9, <2>10 DEF PricingInv, Fields
<1>7. CASE S!Adjust
  <2>0. PICK lean \in {-1, 0, 1} : \E q \in S!Proposals(state.params, lean) :
          /\ state' = [params |-> q, last |-> window, rollback |-> state.params,
                       pending |-> [at |-> window, base |-> earnings.last, id |-> ids + 1]]
          /\ timeline' \in {timeline,
                            timeline \cup {[id |-> ids + 1, what |-> "adjustment", result |-> "none"]}}
    BY <1>7 DEF S!Adjust, S!Save
  <2>1. PICK q \in S!Proposals(state.params, lean) :
          /\ state' = [params |-> q, last |-> window, rollback |-> state.params,
                       pending |-> [at |-> window, base |-> earnings.last, id |-> ids + 1]]
          /\ timeline' \in {timeline,
                            timeline \cup {[id |-> ids + 1, what |-> "adjustment", result |-> "none"]}}
    BY <2>0
  <2>2. /\ ~S!Cooling /\ earnings # None /\ ~S!Due /\ ids < MaxIds /\ ids' = ids + 1
        /\ open' = open \cup {ids + 1} /\ UNCHANGED <<window, rewards, earnings>>
    BY <1>7 DEF S!Adjust
  <2>3. /\ q \in Params
        /\ S!Steps(q.threshold, state.params.threshold) + S!Steps(q.task, state.params.task)
             + S!Steps(q.channel, state.params.channel) <= 1
    BY <1>1, ProposalIsStep
  <2>4. state.pending = None
    <3>1. SUFFICES ASSUME state.pending # None PROVE FALSE
      OBVIOUS
    <3>2. state.last = state.pending.at /\ state.last # None
      BY <3>1 DEF PricingInv
    <3>3. state.last \in Nat /\ window - state.last >= 1
      BY <1>1, <2>2, <3>2 DEF S!Cooling
    <3> QED BY <2>2, <3>1, <3>2, <3>3 DEF S!Due, S!Pending
  <2>5. open = {} /\ \A x \in timeline : x.id \in 1..ids
    BY <2>4 DEF PricingInv, Reversible, S!Reversible, S!Pending
  <2>6. /\ state'.params = q /\ state'.rollback = state.params /\ state'.last = window
        /\ DOMAIN state' = Fields
        /\ state'.pending.at = window /\ state'.pending.id = ids + 1
        /\ state'.pending \in [at : Nat, base : Nat, id : Nat]
    BY <1>1, <2>1, <2>2 DEF Fields
  <2>7. state'.pending # None
    BY <2>6, NoneIsNothing
  <2>8. ids + 1 \in 1..MaxIds /\ ids + 1 \notin 1..ids
    BY <1>1, <2>2, AreNumbers
  <2>9. \A x \in timeline' : x \in timeline \/ (x.id = ids + 1 /\ x.what = "adjustment")
    BY <2>1
  <2>10. Reversible'
    <3>1. open' \subseteq {state'.pending.id}
      BY <2>2, <2>5, <2>6
    <3>2. \A x, y \in timeline' :
            x.id = y.id /\ x.what # "adjustment" /\ y.what # "adjustment" => x = y
      BY <2>9 DEF PricingInv, Reversible, S!Reversible
    <3> QED BY <2>3, <2>6, <2>7, <3>1, <3>2 DEF Reversible, S!Reversible, S!Pending
  <2>11. S!TypeOK'
    BY <1>1, <2>2, <2>3, <2>5, <2>6, <2>8, AreNumbers DEF S!TypeOK, Params
  <2>12. /\ \A x \in timeline' : x.id \in 1..ids'
         /\ \A x \in timeline' : x.id = state'.pending.id => x.what = "adjustment"
    BY <1>1, <2>2, <2>5, <2>6, <2>8, <2>9
  <2>13. window \in 0..window /\ window # None /\ state'.pending.id \in 1..ids'
    BY <1>1, <2>2, <2>6, NoneIsNothing
  <2> QED BY <1>1, <2>2, <2>3, <2>6, <2>7, <2>10, <2>11, <2>12, <2>13 DEF PricingInv, Fields
<1>8. CASE UNCHANGED pricing
  BY <1>1, <1>2, <1>8 DEF pricing
<1> QED BY <1>3, <1>4, <1>5, <1>6, <1>7, <1>8 DEF S!Next

-----------------------------------------------------------------------------
(* The market.                                                              *)
LEMMA MarketInit == ASSUME M!Init PROVE MarketInv
<1>1. /\ now = 0 /\ earliest = [o \in Offers |-> None] /\ behind = {} /\ won = <<>>
      /\ doing = [p \in Pickers |-> "idle"] /\ todo = [p \in Pickers |-> {}]
      /\ job = [p \in Pickers |-> None] /\ stamp = [p \in Pickers |-> 0]
      /\ amount = [p \in Pickers |-> 0]
  BY DEF M!Init
<1>2. DOMAIN ledger = M!Ledgers /\ Rewarded = <<>>
  BY DEF M!Init, Rewarded, M!Ledgers
<1>3. MarketTypes
  <2>1. M!TypeOK
    BY <1>1, AreNumbers DEF M!TypeOK
  <2>2. doing \in [Pickers -> Stages]
    BY <1>1 DEF Stages
  <2> QED BY <1>1, <1>2, <2>1, <2>2 DEF MarketTypes
<1>4. \A p \in Pickers : doing[p] = "idle"
  BY <1>1
<1>5. \A p \in Pickers : Picking(p)
  BY <1>4 DEF Picking, Posts
<1>6. DOMAIN won = {} /\ DOMAIN Rewarded = {}
  BY <1>1, <1>2
<1>7. OneAtWork
  BY <1>4 DEF OneAtWork, M!Waits
<1>8. WonIsExecuted /\ PaidHasWon /\ M!OneWinner /\ M!PaidOnce
  BY <1>6 DEF WonIsExecuted, PaidHasWon, M!OneWinner, M!PaidOnce, Rewarded
<1> QED BY <1>3, <1>5, <1>7, <1>8 DEF MarketInv

(* What a picker relies on stays true while others move: a record of the    *)
(* feed is never lost, a win neither, a payment is made to the picker who   *)
(* posts it; and the pickers of one process do not interrupt each other.    *)
LEMMA Elsewhere ==
    ASSUME NEW q \in Pickers, Picking(q), doing'[q] = doing[q], job'[q] = job[q], alone' = alone,
           \A o \in Offers : earliest[o] # None => earliest'[o] # None,
           \A i \in DOMAIN won : i \in DOMAIN won' /\ won'[i] = won[i],
           \A i \in DOMAIN Rewarded' :
             \/ i \in DOMAIN Rewarded /\ Rewarded'[i] = Rewarded[i]
             \/ Rewarded'[i].account # q,
           alone /\ doing[q] \notin M!Waits => UNCHANGED <<earliest, won>>
    PROVE  Picking(q)'
<1>1. doing[q] \notin {"idle", "listed", "trying"} => job[q] \in Offers
  BY DEF Picking
<1>2. doing[q] \in Posts => M!IsWin(q)'
  <2>1. SUFFICES ASSUME doing[q] \in Posts PROVE M!IsWin(q)'
    OBVIOUS
  <2>2. PICK i \in DOMAIN won : won[i] = <<q, job[q]>>
    BY <2>1 DEF Picking, M!IsWin
  <2>3. i \in DOMAIN won' /\ won'[i] = <<q, job'[q]>>
    BY <2>2
  <2>4. won' # <<>>
    BY <2>3
  <2> QED BY <2>3, <2>4 DEF M!IsWin
<1>3. doing[q] = "reward_append" => ~M!Paid(q)'
  BY DEF Picking, M!Paid, Rewarded
<1>4. ASSUME alone, doing[q] \in {"stamp", "append", "judge"} PROVE UNCHANGED <<earliest, won>>
  BY <1>4 DEF M!Waits
<1>5. doing[q] \in {"stamp", "append"} => job[q] \in Offers
  BY <1>1
<1>6. doing[q] = "judge" => earliest'[job'[q]] # None
  BY <1>1 DEF Picking
<1>7. alone' /\ doing'[q] \in {"stamp", "append"} => earliest'[job'[q]] = None
  BY <1>4 DEF Picking
<1>8. alone' /\ doing'[q] = "judge" => \A i \in DOMAIN won' : won'[i][2] # job'[q]
  BY <1>4 DEF Picking
<1> QED BY <1>1, <1>2, <1>3, <1>6, <1>7, <1>8 DEF Picking

(* What is on record stays true while nobody wins and nobody is paid.       *)
LEMMA OnRecord ==
    ASSUME MarketInv, UNCHANGED <<alone, won>>, Rewarded' = Rewarded,
           \A o \in Offers : earliest[o] # None => earliest'[o] # None
    PROVE  WonIsExecuted' /\ PaidHasWon' /\ M!OneWinner' /\ M!PaidOnce'
<1>1. \A i \in DOMAIN won : won[i][2] \in Offers
  BY DEF MarketInv, MarketTypes
<1>2. WonIsExecuted'
  BY <1>1 DEF MarketInv, WonIsExecuted
<1>3. PaidHasWon'
  BY DEF MarketInv, PaidHasWon
<1>4. M!OneWinner'
  BY DEF MarketInv, M!OneWinner
<1>5. M!PaidOnce'
  BY DEF MarketInv, M!PaidOnce, Rewarded
<1> QED BY <1>2, <1>3, <1>4, <1>5

(* A picker that may move is the only one of its process at work.           *)
LEMMA MoveAlone ==
    ASSUME NEW p \in Pickers, NEW s, M!May(p), alone' = alone, doing \in [Pickers -> Stages],
           doing' = [doing EXCEPT ![p] = s]
    PROVE  OneAtWork'
  BY DEF M!May, OneAtWork

(* A move of one picker that wins nothing and pays nothing.                 *)
LEMMA QuietMove ==
    ASSUME MarketInv, NEW p \in Pickers, NEW s \in Stages, M!May(p),
           doing' = [doing EXCEPT ![p] = s],
           UNCHANGED <<alone, earliest, won>>, Rewarded' = Rewarded,
           \A q \in Pickers : q # p => job'[q] = job[q],
           MarketTypes', Picking(p)'
    PROVE  MarketInv'
<1>1. doing \in [Pickers -> Stages]
  BY DEF MarketInv, MarketTypes
<1>2. ASSUME NEW q \in Pickers PROVE Picking(q)'
  <2>1. CASE q = p
    BY <2>1
  <2>2. CASE q # p
    <3>1. doing'[q] = doing[q] /\ job'[q] = job[q] /\ Picking(q)
      BY <1>1, <2>2 DEF MarketInv
    <3> QED BY <3>1, Elsewhere
  <2> QED BY <2>1, <2>2
<1>3. OneAtWork'
  BY <1>1, MoveAlone
<1> QED BY <1>2, <1>3, OnRecord DEF MarketInv

(* The types, where only these change.                                      *)
LEMMA MovedTypes ==
    ASSUME MarketTypes, NEW p \in Pickers, NEW s \in Stages,
           doing' = [doing EXCEPT ![p] = s],
           todo' \in [Pickers -> SUBSET Offers], job' \in [Pickers -> Offers \cup {None}],
           stamp' \in [Pickers -> Nat], amount' \in [Pickers -> Int], now' \in 0..MaxClock,
           UNCHANGED <<earliest, won, ledger, behind>>
    PROVE  MarketTypes'
<1>1. doing' \in [Pickers -> Stages]
  BY DEF MarketTypes
<1>2. M!TypeOK'
  BY DEF MarketTypes, M!TypeOK
<1> QED BY <1>1, <1>2 DEF MarketTypes, Rewarded

LEMMA DiscoverStep == ASSUME MarketInv, NEW p \in Pickers, M!Discover(p) PROVE MarketInv'
<1>1. /\ doing' = [doing EXCEPT ![p] = "listed"]
      /\ todo' = [todo EXCEPT ![p] = {o \in Offers : earliest[o] = None}]
      /\ UNCHANGED <<alone, now, earliest, won, ledger, job, stamp, amount, behind>>
  BY DEF M!Discover, M!feed, M!books
<1>2. "listed" \in Stages
  BY DEF Stages
<1>3. MarketTypes'
  BY <1>1, <1>2, MovedTypes DEF MarketInv, MarketTypes, M!TypeOK
<1>4. doing'[p] = "listed"
  BY <1>1 DEF MarketInv, MarketTypes
<1>5. Picking(p)'
  BY <1>4 DEF Picking, Posts
<1> QED BY <1>1, <1>2, <1>3, <1>5, QuietMove DEF M!Discover, Rewarded

LEMMA TryStep == ASSUME MarketInv, NEW p \in Pickers, M!Try(p) PROVE MarketInv'
<1>1. /\ UNCHANGED <<alone, earliest, won, ledger, stamp, amount, behind>>
      /\ M!May(p)
  BY DEF M!Try, M!feed, M!books
<1> DEFINE Moved ==
      /\ job' \in [Pickers -> Offers \cup {None}] /\ todo' \in [Pickers -> SUBSET Offers]
      /\ now' \in 0..MaxClock
      /\ \A q \in Pickers : q # p => job'[q] = job[q]
      /\ \E s \in {"idle", "trying", "hooked"} :
           /\ doing' = [doing EXCEPT ![p] = s]
           /\ s = "hooked" => job'[p] \in Offers
<1>2. Moved
  <2>1. /\ now \in 0..MaxClock /\ todo \in [Pickers -> SUBSET Offers]
        /\ job \in [Pickers -> Offers \cup {None}] /\ MaxClock \in Nat
    BY AreNumbers DEF MarketInv, MarketTypes, M!TypeOK
  <2>2. M!Skip(p) => \E s \in {"idle", "trying"} : doing' = [doing EXCEPT ![p] = s]
    BY DEF M!Skip
  <2>3. CASE UNCHANGED <<now, latest, earliest, todo, job>> /\ M!Skip(p)
    BY <2>1, <2>2, <2>3
  <2>4. ASSUME NEW o \in todo[p], NEW t \in now..MaxClock, NEW u \in now..MaxClock,
               todo' = [todo EXCEPT ![p] = @ \ {o}],
               \/ M!Skip(p) /\ now' = t /\ UNCHANGED job
               \/ now' = u /\ doing' = [doing EXCEPT ![p] = "hooked"] /\ job' = [job EXCEPT ![p] = o]
        PROVE  Moved
    <3>1. o \in Offers /\ now' \in 0..MaxClock
      BY <2>1, <2>4
    <3>2. todo' \in [Pickers -> SUBSET Offers]
      BY <2>1, <2>4
    <3>3. CASE M!Skip(p) /\ now' = t /\ UNCHANGED job
      BY <2>1, <2>2, <3>1, <3>2, <3>3
    <3>4. CASE now' = u /\ doing' = [doing EXCEPT ![p] = "hooked"] /\ job' = [job EXCEPT ![p] = o]
      BY <2>1, <3>1, <3>2, <3>4
    <3> QED BY <2>4, <3>3, <3>4
  <2> HIDE DEF Moved
  <2> QED BY <2>3, <2>4 DEF M!Try, M!feed
<1>3. PICK s \in {"idle", "trying", "hooked"} :
        doing' = [doing EXCEPT ![p] = s] /\ (s = "hooked" => job'[p] \in Offers)
  BY <1>2
<1>4. s \in Stages /\ doing'[p] = s
  BY <1>3 DEF Stages, MarketInv, MarketTypes
<1>5. Picking(p)'
  BY <1>3, <1>4 DEF Picking, Posts
<1>6. MarketTypes'
  BY <1>1, <1>2, <1>3, <1>4, MovedTypes DEF MarketInv, MarketTypes
<1> QED BY <1>1, <1>2, <1>3, <1>4, <1>5, <1>6, QuietMove DEF Rewarded

LEMMA CheckStep == ASSUME MarketInv, NEW p \in Pickers, M!Check(p) \/ M!Stamp(p) PROVE MarketInv'
<1>1. /\ UNCHANGED <<alone, now, earliest, won, ledger, todo, job, behind>>
      /\ M!May(p) /\ doing[p] \in {"hooked", "stamp"} /\ now \in Nat
  BY DEF M!Check, M!Stamp, M!feed, M!lists, M!books, MarketInv, MarketTypes, M!TypeOK
<1>2. /\ \E s \in {"stamp", "reputation_check", "append"} :
           /\ doing' = [doing EXCEPT ![p] = s]
           /\ s \in {"stamp", "append"} /\ alone => earliest[job[p]] = None
      /\ stamp' \in [Pickers -> Nat] /\ amount' \in [Pickers -> Int]
  <2>1. CASE M!Check(p)
    BY <2>1 DEF M!Check, M!Lost, M!Reports, M!Taken, MarketInv, MarketTypes
  <2>2. CASE M!Stamp(p)
    <3>1. doing[p] = "stamp" /\ stamp' = [stamp EXCEPT ![p] = now] /\ UNCHANGED amount
          /\ doing' = [doing EXCEPT ![p] = "append"]
      BY <2>2 DEF M!Stamp, M!books
    <3>2. alone => earliest[job[p]] = None
      BY <3>1 DEF MarketInv, Picking
    <3> QED BY <1>1, <3>1, <3>2 DEF MarketInv, MarketTypes
  <2> QED BY <2>1, <2>2
<1>3. PICK s \in {"stamp", "reputation_check", "append"} :
        /\ doing' = [doing EXCEPT ![p] = s]
        /\ s \in {"stamp", "append"} /\ alone => earliest[job[p]] = None
  BY <1>2
<1>4. s \in Stages /\ doing'[p] = s
  BY <1>3 DEF Stages, MarketInv, MarketTypes
<1>5. job[p] \in Offers
  BY <1>1 DEF MarketInv, Picking
<1>6. Picking(p)'
  BY <1>1, <1>3, <1>4, <1>5 DEF Picking, Posts
<1>7. MarketTypes'
  BY <1>1, <1>2, <1>3, <1>4, MovedTypes DEF MarketInv, MarketTypes, M!TypeOK
<1> QED BY <1>1, <1>3, <1>4, <1>6, <1>7, QuietMove DEF Rewarded

(* From here on the feed knows of the execution. *)
LEMMA AppendFeedStep == ASSUME MarketInv, NEW p \in Pickers, M!Append2Feed(p) PROVE MarketInv'
<1>1. /\ M!May(p) /\ doing[p] = "append" /\ doing' = [doing EXCEPT ![p] = "judge"]
      /\ earliest' = [earliest EXCEPT ![job[p]] = M!Earlier(@, stamp[p], p)]
      /\ stamp' = [stamp EXCEPT ![p] = 0]
      /\ UNCHANGED <<alone, now, won, ledger, todo, job, amount, behind>>
  BY DEF M!Append2Feed, M!books, M!lists
<1>2. job[p] \in Offers
  BY <1>1 DEF MarketInv, Picking
<1>3. /\ earliest'[job[p]] # None
      /\ earliest'[job[p]].by \in M!Accounts \/ earliest'[job[p]] = earliest[job[p]]
      /\ \A o \in Offers \ {job[p]} : earliest'[o] = earliest[o]
      /\ DOMAIN earliest' = Offers
  <2>1. earliest'[job[p]] = M!Earlier(earliest[job[p]], stamp[p], p)
    BY <1>1, <1>2 DEF MarketInv, MarketTypes
  <2>2. /\ [ts |-> stamp[p], by |-> p] \in [ts : Nat, by : Pickers \cup {Source}]
        /\ [ts |-> stamp[p], by |-> p].by = p
    BY DEF MarketInv, MarketTypes
  <2>3. p \in M!Accounts
    BY DEF M!Accounts
  <2> QED BY <1>1, <1>2, <2>1, <2>2, <2>3, NoneIsNothing DEF M!Earlier, MarketInv, MarketTypes
<1>4. doing' \in [Pickers -> Stages] /\ doing'[p] = "judge"
  BY <1>1 DEF MarketInv, MarketTypes, Stages
<1>5. MarketTypes'
  <2>1. M!TypeOK'
    BY <1>1, <1>2, <1>3 DEF MarketInv, MarketTypes, M!TypeOK
  <2> QED BY <1>1, <1>3, <1>4, <2>1 DEF MarketInv, MarketTypes, Rewarded
<1>6. \A o \in Offers : earliest[o] # None => earliest'[o] # None
  BY <1>2, <1>3
<1>7. ASSUME NEW q \in Pickers PROVE Picking(q)'
  <2>1. CASE q = p
    <3>1. alone => \A i \in DOMAIN won : won[i][2] # job[p]
      BY <1>1 DEF MarketInv, Picking, WonIsExecuted
    <3> QED BY <1>1, <1>2, <1>3, <1>4, <2>1, <3>1 DEF Picking, Posts
  <2>2. CASE q # p
    <3>1. doing'[q] = doing[q] /\ job'[q] = job[q] /\ Picking(q)
      BY <1>1, <2>2 DEF MarketInv, MarketTypes
    <3>2. alone => doing[q] \in M!Waits
      BY <1>1, <2>2 DEF M!May
    <3> QED BY <1>1, <1>6, <3>1, <3>2, Elsewhere DEF Rewarded
  <2> QED BY <2>1, <2>2
<1>8. OneAtWork'
  BY <1>1, MoveAlone DEF MarketInv, MarketTypes
<1> QED BY <1>1, <1>5, <1>6, <1>7, <1>8, OnRecord DEF MarketInv, Rewarded

(* Who finds its own event wins, and no one had won before. *)
LEMMA JudgeStep == ASSUME MarketInv, NEW p \in Pickers, M!Judge(p) PROVE MarketInv'
<1>1. /\ M!May(p) /\ doing[p] = "judge" /\ doing' = [doing EXCEPT ![p] = "reputation_check"]
      /\ won' \in {won, Append(won, <<p, job[p]>>)}
      /\ \E sign \in {5, -1} : amount' = [amount EXCEPT ![p] = sign]
      /\ UNCHANGED <<alone, now, earliest, ledger, todo, job, stamp, behind>>
  BY DEF M!Judge, M!Lost, M!Reports, M!lists
<1>2. job[p] \in Offers /\ won \in Seq(Pickers \X Offers) /\ job'[p] = job[p]
  BY <1>1 DEF MarketInv, MarketTypes, Picking
<1>3. /\ won' \in Seq(Pickers \X Offers)
      /\ \A i \in DOMAIN won : i \in DOMAIN won' /\ won'[i] = won[i]
      /\ \A i \in DOMAIN won' \ DOMAIN won : i = Len(won) + 1 /\ won'[i] = <<p, job[p]>>
  <2> DEFINE new == <<p, job[p]>>
  <2>1. new \in Pickers \X Offers
    BY <1>2
  <2> HIDE DEF new
  <2>2. CASE won' = won
    BY <1>2, <2>2
  <2>3. CASE won' = Append(won, new)
    <3>1. /\ won' \in Seq(Pickers \X Offers)
          /\ \A i \in DOMAIN won : i \in DOMAIN won' /\ won'[i] = won[i]
          /\ \A i \in DOMAIN won' \ DOMAIN won : i = Len(won) + 1 /\ won'[i] = new
      BY <1>2, <2>1, <2>3
    <3> QED BY <3>1 DEF new
  <2> QED BY <1>1, <2>2, <2>3 DEF new
<1>4. doing' \in [Pickers -> Stages] /\ doing'[p] = "reputation_check"
  BY <1>1 DEF MarketInv, MarketTypes, Stages
<1>5. amount' \in [Pickers -> Int]
  BY <1>1 DEF MarketInv, MarketTypes
<1>6. MarketTypes'
  <2>1. M!TypeOK'
    BY <1>1 DEF MarketInv, MarketTypes, M!TypeOK
  <2> QED BY <1>1, <1>3, <1>4, <1>5, <2>1 DEF MarketInv, MarketTypes, Rewarded
<1>7. ASSUME NEW q \in Pickers PROVE Picking(q)'
  <2>1. CASE q = p
    BY <1>2, <1>4, <2>1 DEF Picking, Posts
  <2>2. CASE q # p
    <3>1. doing'[q] = doing[q] /\ job'[q] = job[q] /\ Picking(q)
      BY <1>1, <2>2 DEF MarketInv, MarketTypes
    <3>2. alone => doing[q] \in M!Waits
      BY <1>1, <2>2 DEF M!May
    <3> QED BY <1>1, <1>3, <3>1, <3>2, Elsewhere DEF Rewarded
  <2> QED BY <2>1, <2>2
<1>8. OneAtWork'
  BY <1>1, MoveAlone DEF MarketInv, MarketTypes
<1>9. WonIsExecuted'
  <2>1. SUFFICES ASSUME alone, NEW i \in DOMAIN won' PROVE earliest[won'[i][2]] # None
    BY <1>1 DEF WonIsExecuted
  <2>2. CASE i \in DOMAIN won
    BY <1>3, <2>1, <2>2 DEF MarketInv, WonIsExecuted
  <2>3. CASE i \notin DOMAIN won
    <3>1. won'[i][2] = job[p]
      BY <1>3, <2>3
    <3> QED BY <1>1, <3>1 DEF MarketInv, Picking
  <2> QED BY <2>2, <2>3
<1>10. PaidHasWon'
  <2>1. SUFFICES ASSUME NEW i \in DOMAIN Rewarded
                 PROVE  \E j \in DOMAIN won' : won'[j] = <<Rewarded[i].account, Rewarded[i].offer>>
    BY <1>1 DEF PaidHasWon, Rewarded
  <2>2. PICK j \in DOMAIN won : won[j] = <<Rewarded[i].account, Rewarded[i].offer>>
    BY DEF MarketInv, PaidHasWon
  <2> QED BY <1>3, <2>2
<1>11. M!OneWinner'
  <2>1. SUFFICES ASSUME alone, NEW i \in DOMAIN won', NEW j \in DOMAIN won', won'[i][2] = won'[j][2]
                 PROVE  i = j
    BY <1>1 DEF M!OneWinner
  <2>2. \A k \in DOMAIN won : won[k][2] # job[p]
    BY <1>1, <2>1 DEF MarketInv, Picking
  <2>3. CASE i \in DOMAIN won /\ j \in DOMAIN won
    BY <1>3, <2>1, <2>3 DEF MarketInv, M!OneWinner
  <2>4. CASE i \notin DOMAIN won /\ j \notin DOMAIN won
    BY <1>3, <2>4
  <2>5. CASE (i \in DOMAIN won) # (j \in DOMAIN won)
    <3>1. \A k \in DOMAIN won : won'[k][2] # job[p]
      BY <1>3, <2>2
    <3>2. \A k \in DOMAIN won' \ DOMAIN won : won'[k][2] = job[p]
      BY <1>3
    <3> QED BY <2>1, <2>5, <3>1, <3>2
  <2> QED BY <2>3, <2>4, <2>5
<1>12. M!PaidOnce'
  BY <1>1 DEF MarketInv, M!PaidOnce, Rewarded
<1> QED BY <1>6, <1>7, <1>8, <1>9, <1>10, <1>11, <1>12 DEF MarketInv

(* Postings.  Only a winner goes on from reputation to value and reward.    *)
LEMMA PostStages ==
    /\ M!Checking["reputation"] = "reputation_check" /\ M!Appending["reputation"] = "reputation_append"
    /\ M!Loading["reputation"] = "reputation_load" /\ M!Saving["reputation"] = "reputation_save"
    /\ M!Checking["value"] = "value_check" /\ M!Appending["value"] = "value_append"
    /\ M!Loading["value"] = "value_load" /\ M!Saving["value"] = "value_save"
    /\ M!Checking["reward"] = "reward_check" /\ M!Appending["reward"] = "reward_append"
    /\ M!Loading["reward"] = "reward_load" /\ M!Saving["reward"] = "reward_save"
  BY DEF M!Checking, M!Appending, M!Loading, M!Saving

LEMMA AfterPosting ==
    ASSUME MarketInv, NEW p \in Pickers, NEW l \in M!Ledgers, NEW v,
           doing[p] \in {M!Appending[l], M!Saving[l]}
    PROVE  /\ M!After(p, l, v) \in {"idle", "trying", "value_check", "reward_check"}
           /\ M!After(p, l, v) \in Posts => M!IsWin(p)
<1>1. M!After(p, l, v) \in {"idle", "trying", "value_check", "reward_check"}
  BY DEF M!After
<1>2. CASE l = "reputation"
  BY <1>1, <1>2 DEF M!After, Posts
<1>3. CASE l = "value"
  <2>1. doing[p] \in Posts
    BY <1>3, PostStages DEF Posts
  <2> QED BY <1>1, <2>1 DEF MarketInv, Picking
<1>4. CASE l = "reward"
  BY <1>1, <1>4 DEF M!After, Posts
<1> QED BY <1>1, <1>2, <1>3, <1>4 DEF M!Ledgers

(* A winner who has not been paid is paid. *)
LEMMA PaymentStep ==
    ASSUME MarketInv, NEW p \in Pickers, M!Post(p, "reward"), M!AppendPosting(p, "reward")
    PROVE  MarketInv'
<1> DEFINE entry == [account |-> p, offer |-> job[p], amount |-> amount[p]]
<1>1. /\ doing[p] = "reward_append" /\ M!May(p)
      /\ doing' = [doing EXCEPT ![p] = "reward_load"]
      /\ UNCHANGED <<alone, now, earliest, won, todo, job, stamp, amount, behind>>
      /\ ledger' = [ledger EXCEPT !["reward"] = Append(@, entry)]
  BY PostStages DEF M!Post, M!AppendPosting, M!feed, M!lists, M!Limited, M!Account
<1>2. /\ job[p] \in Offers /\ job'[p] = job[p] /\ M!IsWin(p) /\ ~M!Paid(p)
      /\ amount[p] \in Int /\ p \in M!Accounts
  BY <1>1 DEF MarketInv, MarketTypes, Picking, Posts, M!Accounts
<1>3. /\ Rewarded' = Append(Rewarded, entry) /\ DOMAIN ledger' = M!Ledgers
      /\ Rewarded \in Seq([account : M!Accounts, offer : Offers \cup {None}, amount : Int])
  BY <1>1 DEF MarketInv, MarketTypes, M!Ledgers, Rewarded
<1>4. entry \in [account : M!Accounts, offer : Offers \cup {None}, amount : Int]
  BY <1>2
<1>5. entry.account = p /\ entry.offer = job[p]
  OBVIOUS
<1> HIDE DEF entry
<1>6. /\ Rewarded' \in Seq([account : M!Accounts, offer : Offers \cup {None}, amount : Int])
      /\ \A i \in DOMAIN Rewarded : i \in DOMAIN Rewarded' /\ Rewarded'[i] = Rewarded[i]
      /\ \A i \in DOMAIN Rewarded' \ DOMAIN Rewarded : i = Len(Rewarded) + 1 /\ Rewarded'[i] = entry
  BY <1>3, <1>4
<1>7. doing' \in [Pickers -> Stages] /\ doing'[p] = "reward_load"
  BY <1>1 DEF MarketInv, MarketTypes, Stages, Posts
<1>8. MarketTypes'
  <2>1. M!TypeOK'
    BY <1>1 DEF MarketInv, MarketTypes, M!TypeOK
  <2> QED BY <1>1, <1>3, <1>6, <1>7, <2>1 DEF MarketInv, MarketTypes
<1>9. ASSUME NEW q \in Pickers PROVE Picking(q)'
  <2>1. CASE q = p
    <3>1. M!IsWin(p)'
      BY <1>1, <1>2 DEF M!IsWin
    <3> QED BY <1>2, <1>7, <2>1, <3>1 DEF Picking, Posts
  <2>2. CASE q # p
    <3>1. doing'[q] = doing[q] /\ job'[q] = job[q] /\ Picking(q)
      BY <1>1, <2>2 DEF MarketInv, MarketTypes
    <3> QED BY <1>1, <1>5, <1>6, <2>2, <3>1, Elsewhere
  <2> QED BY <2>1, <2>2
<1>10. OneAtWork'
  BY <1>1, MoveAlone DEF MarketInv, MarketTypes
<1>11. WonIsExecuted' /\ M!OneWinner'
  BY <1>1 DEF MarketInv, WonIsExecuted, M!OneWinner
<1>12. PICK w \in DOMAIN won : won[w] = <<p, job[p]>>
  BY <1>2 DEF M!IsWin
<1>13. PaidHasWon'
  <2>1. SUFFICES ASSUME NEW i \in DOMAIN Rewarded'
                 PROVE  \E j \in DOMAIN won : won[j] = <<Rewarded'[i].account, Rewarded'[i].offer>>
    BY <1>1 DEF PaidHasWon
  <2>2. CASE i \in DOMAIN Rewarded
    BY <1>6, <2>2 DEF MarketInv, PaidHasWon
  <2>3. CASE i \notin DOMAIN Rewarded
    BY <1>5, <1>6, <1>12, <2>3
  <2> QED BY <2>2, <2>3
<1>14. ASSUME NEW i \in DOMAIN Rewarded, Rewarded[i].offer = job[p], alone \/ Rewarded[i].account = p
       PROVE  FALSE
  <2>1. Rewarded[i].account # p
    BY <1>2, <1>14 DEF M!Paid, Rewarded
  <2>2. PICK j \in DOMAIN won : won[j] = <<Rewarded[i].account, Rewarded[i].offer>>
    BY DEF MarketInv, PaidHasWon
  <2>3. won[j][2] = won[w][2] /\ won[j][1] # won[w][1]
    BY <1>12, <1>14, <2>1, <2>2
  <2> QED BY <1>14, <2>1, <2>3 DEF MarketInv, M!OneWinner
<1>15. M!PaidOnce'
  <2>1. SUFFICES ASSUME NEW i \in DOMAIN Rewarded', NEW j \in DOMAIN Rewarded',
                        Rewarded'[i].offer = Rewarded'[j].offer,
                        alone \/ Rewarded'[i].account = Rewarded'[j].account
                 PROVE  i = j
    BY <1>1 DEF M!PaidOnce, Rewarded
  <2>2. CASE i \in DOMAIN Rewarded /\ j \in DOMAIN Rewarded
    BY <1>6, <2>1, <2>2 DEF MarketInv, M!PaidOnce, Rewarded
  <2>3. CASE i \notin DOMAIN Rewarded /\ j \notin DOMAIN Rewarded
    BY <1>6, <2>3
  <2>4. CASE i \in DOMAIN Rewarded /\ j \notin DOMAIN Rewarded
    <3>1. Rewarded[i].offer = job[p] /\ (alone \/ Rewarded[i].account = p)
      BY <1>5, <1>6, <2>1, <2>4
    <3> QED BY <1>14, <2>4, <3>1
  <2>5. CASE i \notin DOMAIN Rewarded /\ j \in DOMAIN Rewarded
    <3>1. Rewarded[j].offer = job[p] /\ (alone \/ Rewarded[j].account = p)
      BY <1>5, <1>6, <2>1, <2>5
    <3> QED BY <1>14, <2>5, <3>1
  <2> QED BY <2>2, <2>3, <2>4, <2>5
<1> QED BY <1>8, <1>9, <1>10, <1>11, <1>13, <1>15 DEF MarketInv

LEMMA PostStep == ASSUME MarketInv, NEW p \in Pickers, NEW l \in M!Ledgers, M!Post(p, l) PROVE MarketInv'
<1> DEFINE Moved(s) ==
      /\ doing' = [doing EXCEPT ![p] = s]
      /\ s \in {"idle", "trying", "reputation_append", "reputation_load", "reputation_save"} \cup Posts
      /\ s \in Posts => M!IsWin(p)
      /\ s = "reward_append" => ~M!Paid(p)
<1>1. /\ M!May(p) /\ UNCHANGED <<alone, now, earliest, todo, job, stamp, won, behind>>
  BY DEF M!Post, M!feed, M!lists
<1>2. /\ doing \in [Pickers -> Stages] /\ amount \in [Pickers -> Int] /\ job \in [Pickers -> Offers \cup {None}]
      /\ DOMAIN ledger = M!Ledgers
      /\ doing[p] \in Posts => M!IsWin(p)
      /\ doing[p] \notin {"idle", "listed", "trying"} => job[p] \in Offers
  BY DEF MarketInv, MarketTypes, Picking
<1>3. doing[p] \in {M!Checking[l], M!Appending[l], M!Loading[l], M!Saving[l]}
  BY DEF M!Post, M!CheckPosting, M!AppendPosting, M!LoadIndex, M!SaveIndex
<1>4. /\ job[p] \in Offers
      /\ l \in {"value", "reward"} => M!IsWin(p)
  <2>1. doing[p] \notin {"idle", "listed", "trying"}
    BY <1>3, PostStages DEF M!Ledgers
  <2>2. l \in {"value", "reward"} => doing[p] \in Posts
    BY <1>3, PostStages DEF Posts
  <2> QED BY <1>2, <2>1, <2>2
<1>5. ASSUME NEW s, Moved(s), amount' \in [Pickers -> Int], DOMAIN ledger' = M!Ledgers, Rewarded' = Rewarded
      PROVE  MarketInv'
  <2>1. s \in Stages /\ doing'[p] = s /\ s \notin {"stamp", "append", "judge"}
    BY <1>2, <1>5 DEF Stages, Posts
  <2>2. M!IsWin(p)' <=> M!IsWin(p)
    BY <1>1 DEF M!IsWin
  <2>3. M!Paid(p)' <=> M!Paid(p)
    BY <1>1, <1>5 DEF M!Paid, Rewarded
  <2>4. Picking(p)'
    BY <1>1, <1>4, <1>5, <2>1, <2>2, <2>3 DEF Picking
  <2>5. doing' \in [Pickers -> Stages]
    BY <1>2, <1>5, <2>1
  <2>6. M!TypeOK'
    BY <1>1 DEF MarketInv, MarketTypes, M!TypeOK
  <2>7. MarketTypes'
    BY <1>1, <1>5, <2>5, <2>6 DEF MarketInv, MarketTypes
  <2> QED BY <1>1, <1>5, <2>1, <2>4, <2>7, QuietMove
<1>6. CASE M!CheckPosting(p, l)
  <2>1. amount' \in [Pickers -> Int]
    <3>1. M!PostedAmount(p, l) \in Int
      BY <1>2 DEF M!PostedAmount
    <3> QED BY <1>2, <1>6, <3>1 DEF M!CheckPosting
  <2>2. UNCHANGED ledger
    BY <1>6 DEF M!CheckPosting
  <2>3. CASE l = "reward" /\ M!Paid(p)
    BY <1>2, <1>5, <1>6, <2>1, <2>2, <2>3 DEF M!CheckPosting, Rewarded, Posts
  <2>4. CASE ~(l = "reward" /\ M!Paid(p))
    <3>1. Moved(M!Appending[l])
      BY <1>4, <1>6, <2>4, PostStages DEF M!CheckPosting, M!Ledgers, Posts
    <3> HIDE DEF Moved
    <3> QED BY <1>2, <1>5, <2>1, <2>2, <3>1 DEF Rewarded
  <2> QED BY <2>3, <2>4
<1>7. CASE M!AppendPosting(p, l) /\ l = "reward"
  BY <1>7, PaymentStep
<1>8. CASE M!AppendPosting(p, l) /\ l # "reward"
  <2>1. /\ UNCHANGED amount /\ DOMAIN ledger' = M!Ledgers /\ Rewarded' = Rewarded
    BY <1>2, <1>8 DEF M!AppendPosting, Rewarded, M!Ledgers
  <2>2. CASE M!Limited(p, l)
    <3>1. Moved(M!After(p, l, 0))
      <4>1. /\ M!After(p, l, 0) \in {"idle", "trying", "value_check", "reward_check"}
            /\ M!After(p, l, 0) \in Posts => M!IsWin(p)
        BY <1>8, AfterPosting DEF M!AppendPosting
      <4> QED BY <1>8, <2>2, <4>1 DEF M!AppendPosting, Posts
    <3> HIDE DEF Moved
    <3> QED BY <1>2, <1>5, <2>1, <3>1
  <2>3. CASE ~M!Limited(p, l)
    <3>1. Moved(M!Loading[l])
      BY <1>4, <1>8, <2>3, PostStages DEF M!AppendPosting, M!Ledgers, Posts
    <3> HIDE DEF Moved
    <3> QED BY <1>2, <1>5, <2>1, <3>1
  <2> QED BY <2>2, <2>3
<1>9. CASE M!LoadIndex(p, l)
  <2>1. UNCHANGED <<amount, ledger>>
    BY <1>9 DEF M!LoadIndex
  <2>2. Moved(M!Saving[l])
    BY <1>4, <1>9, PostStages DEF M!LoadIndex, M!Ledgers, Posts
  <2> HIDE DEF Moved
  <2> QED BY <1>2, <1>5, <2>1, <2>2 DEF Rewarded
<1>10. CASE M!SaveIndex(p, l)
  <2>1. UNCHANGED <<amount, ledger>>
    BY <1>10 DEF M!SaveIndex
  <2>2. Moved(M!After(p, l, amount[p]))
    <3>1. /\ M!After(p, l, amount[p]) \in {"idle", "trying", "value_check", "reward_check"}
          /\ M!After(p, l, amount[p]) \in Posts => M!IsWin(p)
      BY <1>10, AfterPosting DEF M!SaveIndex
    <3> QED BY <1>10, <3>1 DEF M!SaveIndex, Posts
  <2> HIDE DEF Moved
  <2> QED BY <1>2, <1>5, <2>1, <2>2 DEF Rewarded
<1> QED BY <1>6, <1>7, <1>8, <1>9, <1>10 DEF M!Post

(* Who dies rests; the router and the clock wait for the pickers of one     *)
(* process, and the feed forgets no execution.                              *)
LEMMA AroundPickers ==
    ASSUME MarketInv, UNCHANGED <<alone, todo, job, stamp, amount, won>>,
           now' \in 0..MaxClock, behind' \subseteq M!Ledgers,
           \A q \in Pickers : doing'[q] \in {doing[q], "idle"}, doing' \in [Pickers -> Stages],
           DOMAIN ledger' = M!Ledgers, Rewarded' = Rewarded, DOMAIN earliest' = Offers,
           \A o \in Offers :
             earliest'[o] = earliest[o] \/ (earliest'[o] # None /\ earliest'[o].by \in M!Accounts),
           alone => earliest' = earliest \/ \A q \in Pickers : doing[q] \in M!Waits
    PROVE  MarketInv'
<1>1. MarketTypes'
  <2>1. M!TypeOK'
    BY DEF MarketInv, MarketTypes, M!TypeOK
  <2> QED BY <2>1 DEF MarketInv, MarketTypes
<1>2. \A o \in Offers : earliest[o] # None => earliest'[o] # None
  OBVIOUS
<1>3. ASSUME NEW q \in Pickers PROVE Picking(q)'
  <2>1. CASE doing'[q] = "idle"
    BY <2>1 DEF Picking, Posts
  <2>2. CASE doing'[q] = doing[q]
    <3>1. Picking(q)
      BY DEF MarketInv
    <3> QED BY <1>2, <2>2, <3>1, Elsewhere
  <2> QED BY <2>1, <2>2
<1>4. OneAtWork'
  <2>1. \A q \in Pickers : doing'[q] \notin M!Waits => doing[q] \notin M!Waits
    BY DEF M!Waits
  <2> QED BY <2>1 DEF MarketInv, OneAtWork
<1> QED BY <1>1, <1>2, <1>3, <1>4, OnRecord DEF MarketInv

LEMMA MarketStep == ASSUME MarketInv, [M!Next]_market PROVE MarketInv'
<1>1. ASSUME NEW p \in Pickers, M!Picks(p) PROVE MarketInv'
  BY <1>1, DiscoverStep, TryStep, CheckStep, AppendFeedStep, JudgeStep, PostStep DEF M!Picks
<1>t. /\ now \in 0..MaxClock /\ now \in Nat /\ behind \subseteq M!Ledgers /\ doing \in [Pickers -> Stages]
      /\ DOMAIN ledger = M!Ledgers /\ DOMAIN earliest = Offers
  BY AreNumbers DEF MarketInv, MarketTypes, M!TypeOK
<1>2. ASSUME NEW p \in Pickers, M!Die(p) PROVE MarketInv'
  <2>1. /\ UNCHANGED <<alone, todo, job, stamp, amount, won, now, earliest, ledger>>
        /\ behind' \subseteq M!Ledgers
    BY <1>2, <1>t DEF M!Die, M!feed, M!lists
  <2>2. /\ doing' \in [Pickers -> Stages]
        /\ \A q \in Pickers : doing'[q] \in {doing[q], "idle"}
    BY <1>2, <1>t DEF M!Die, Stages
  <2> QED BY <1>t, <2>1, <2>2, AroundPickers DEF Rewarded
<1>3. ASSUME NEW l \in M!Ledgers, M!Rebuild(l) PROVE MarketInv'
  BY <1>3, <1>t, AroundPickers DEF M!Rebuild, M!feed, M!lists, Rewarded
<1>4. ASSUME NEW o \in Offers, M!Route(o) PROVE MarketInv'
  BY <1>4, <1>t, AroundPickers DEF M!Route, M!lists, M!books, Rewarded
<1>5. CASE M!Answered
  <2>1. /\ UNCHANGED <<alone, doing, todo, job, stamp, amount, won, now, ledger, behind>>
        /\ alone => \A q \in Pickers : doing[q] \in M!Waits
        /\ earliest' \in {earliest, [earliest EXCEPT ![push[2]] = M!Earlier(@, now, Source)]}
    BY <1>5 DEF M!Answered, M!lists, M!books
  <2>2. DOMAIN earliest' = Offers
    BY <1>t, <2>1
  <2>3. ASSUME NEW o \in Offers, earliest'[o] # earliest[o]
        PROVE  earliest'[o] # None /\ earliest'[o].by \in M!Accounts
    <3>1. earliest'[o] = [ts |-> now, by |-> Source]
      BY <1>t, <2>1, <2>3 DEF M!Earlier
    <3>2. [ts |-> now, by |-> Source] \in [ts : Nat, by : Pickers \cup {Source}]
      BY <1>t
    <3> QED BY <3>1, <3>2, NoneIsNothing DEF M!Accounts
  <2> QED BY <1>t, <2>1, <2>2, <2>3, AroundPickers DEF Rewarded
<1>6. CASE M!ClockSet
  BY <1>6, <1>t, AroundPickers DEF M!ClockSet, M!lists, M!books, Rewarded
<1>7. CASE UNCHANGED market
  BY <1>7, <1>t, AroundPickers DEF market, Rewarded
<1> QED BY <1>1, <1>2, <1>3, <1>4, <1>5, <1>6, <1>7 DEF M!Next

-----------------------------------------------------------------------------
(* The books of the market.  Sums are defined by recursion over a ledger;   *)
(* induction over its length rests on the natural numbers being well        *)
(* ordered, applied to the set of the counterexamples.                      *)
LEMMA SetInduction ==
    ASSUME NEW Good \in SUBSET Nat, 0 \in Good, \A n \in Good : n + 1 \in Good
    PROVE  Good = Nat
<1> DEFINE others == Nat \ Good
<1> SUFFICES ASSUME others # {} PROVE FALSE
  OBVIOUS
<1>1. PICK m \in others : \A n \in others : ~(<<n, m>> \in OpToRel(<, Nat))
  BY WFMin, NatLessThanWellFounded
<1>2. \A n \in others : ~(n < m)
  BY <1>1 DEF OpToRel
<1>3. m - 1 \in Good
  BY <1>2
<1> QED BY <1>3

(* The sums of the first i of n numbers: they exist, and nothing else is    *)
(* defined by the same recursion.                                           *)
SumsUpTo(f, n, c) == \A i \in 0..n : f[i] = IF i = 0 THEN 0 ELSE f[i - 1] + c[i]

LEMMA SumsExist ==
    ASSUME NEW n \in Nat, NEW c \in [1..n -> Int]
    PROVE  \E f \in [0..n -> Int] : SumsUpTo(f, n, c)
<1> DEFINE Good == {k \in Nat : k <= n => \E f \in [0..k -> Int] : SumsUpTo(f, k, c)}
<1>1. 0 \in Good
  <2>1. [i \in 0..0 |-> 0] \in [0..0 -> Int] /\ SumsUpTo([i \in 0..0 |-> 0], 0, c)
    BY DEF SumsUpTo
  <2> QED BY <2>1
<1>2. ASSUME NEW k \in Good PROVE k + 1 \in Good
  <2> SUFFICES ASSUME k + 1 <= n PROVE \E f \in [0..(k + 1) -> Int] : SumsUpTo(f, k + 1, c)
    OBVIOUS
  <2>1. PICK f \in [0..k -> Int] : SumsUpTo(f, k, c)
    BY <1>2
  <2> DEFINE g == [i \in 0..(k + 1) |-> IF i <= k THEN f[i] ELSE f[k] + c[k + 1]]
  <2>2. g \in [0..(k + 1) -> Int]
    OBVIOUS
  <2>3. SumsUpTo(g, k + 1, c)
    BY <2>1 DEF SumsUpTo
  <2> QED BY <2>2, <2>3
<1> HIDE DEF Good
<1>3. Good \in SUBSET Nat
  BY DEF Good
<1>4. Good = Nat
  BY <1>1, <1>2, <1>3, SetInduction
<1> QED BY <1>4 DEF Good

LEMMA SumsUnique ==
    ASSUME NEW n \in Nat, NEW c, NEW f, NEW g, SumsUpTo(f, n, c), SumsUpTo(g, n, c)
    PROVE  f[n] = g[n]
<1> DEFINE Good == {k \in Nat : k <= n => f[k] = g[k]}
<1>1. 0 \in Good
  BY DEF SumsUpTo
<1>2. ASSUME NEW k \in Good PROVE k + 1 \in Good
  BY <1>2 DEF SumsUpTo
<1> HIDE DEF Good
<1>3. Good \in SUBSET Nat
  BY DEF Good
<1>4. Good = Nat
  BY <1>1, <1>2, <1>3, SetInduction
<1> QED BY <1>4 DEF Good

(* What an entry adds to an account, and Total is their sum.                *)
Shares(entries, a) ==
    [i \in 1..Len(entries) |-> IF entries[i].account = a THEN entries[i].amount ELSE 0]
BookEntries == [account : M!Accounts, offer : Offers \cup {None}, amount : Int]

LEMMA TotalIsSum ==
    ASSUME NEW entries \in Seq(BookEntries), NEW a
    PROVE  \E f \in [0..Len(entries) -> Int] :
             /\ SumsUpTo(f, Len(entries), Shares(entries, a))
             /\ M!Total(entries, a) = f[Len(entries)]
<1> DEFINE n == Len(entries)
           c == Shares(entries, a)
           upTo[i \in 0..n] ==
             IF i = 0 THEN 0
             ELSE upTo[i - 1] + (IF entries[i].account = a THEN entries[i].amount ELSE 0)
<1>1. n \in Nat
  OBVIOUS
<1>2. c \in [1..n -> Int]
  <2>1. ASSUME NEW i \in 1..n PROVE entries[i].amount \in Int
    <3>1. entries[i] \in BookEntries
      BY <2>1
    <3> QED BY <3>1 DEF BookEntries
  <2> QED BY <2>1 DEF Shares
<1>3. PICK f \in [0..n -> Int] : SumsUpTo(f, n, c)
  BY <1>1, <1>2, SumsExist
<1>4. f = [i \in 0..n |->
             IF i = 0 THEN 0
             ELSE f[i - 1] + (IF entries[i].account = a THEN entries[i].amount ELSE 0)]
  BY <1>1, <1>3 DEF SumsUpTo, Shares
<1>5. upTo = [i \in 0..n |->
                IF i = 0 THEN 0
                ELSE upTo[i - 1] + (IF entries[i].account = a THEN entries[i].amount ELSE 0)]
  BY <1>4
<1>6. SumsUpTo(upTo, n, c)
  <2> HIDE DEF upTo
  <2>1. ASSUME NEW i \in 0..n
        PROVE  upTo[i] = IF i = 0 THEN 0
                 ELSE upTo[i - 1] + (IF entries[i].account = a THEN entries[i].amount ELSE 0)
    BY <1>5
  <2>2. \A i \in 1..n : c[i] = IF entries[i].account = a THEN entries[i].amount ELSE 0
    BY DEF Shares
  <2> HIDE DEF c, n
  <2>3. ASSUME NEW i \in 0..n PROVE upTo[i] = IF i = 0 THEN 0 ELSE upTo[i - 1] + c[i]
    BY <1>1, <2>1, <2>2
  <2> QED BY <2>3 DEF SumsUpTo
<1>7. M!Total(entries, a) = upTo[n]
  BY DEF M!Total
<1> HIDE DEF upTo
<1>8. upTo[n] = f[n]
  BY <1>1, <1>3, <1>6, SumsUnique
<1> QED BY <1>3, <1>7, <1>8

LEMMA TotalIsInt ==
    ASSUME NEW entries \in Seq(BookEntries), NEW a
    PROVE  M!Total(entries, a) \in Int
<1>1. PICK f \in [0..Len(entries) -> Int] : M!Total(entries, a) = f[Len(entries)]
  BY TotalIsSum
<1> QED BY <1>1

LEMMA TotalOfNone == ASSUME NEW a PROVE M!Total(<<>>, a) = 0
<1>1. <<>> \in Seq(BookEntries) /\ Len(<<>>) = 0
  OBVIOUS
<1>2. PICK f \in [0..0 -> Int] : SumsUpTo(f, 0, Shares(<<>>, a)) /\ M!Total(<<>>, a) = f[0]
  BY <1>1, TotalIsSum
<1> QED BY <1>2 DEF SumsUpTo

(* An entry at the end adds its amount to its account and to no other.      *)
LEMMA TotalOfAppend ==
    ASSUME NEW entries \in Seq(BookEntries), NEW e \in BookEntries, NEW a
    PROVE  M!Total(Append(entries, e), a)
             = M!Total(entries, a) + (IF e.account = a THEN e.amount ELSE 0)
<1> DEFINE n == Len(entries)
           longer == Append(entries, e)
<1>1. /\ n \in Nat /\ longer \in Seq(BookEntries) /\ Len(longer) = n + 1
      /\ longer[n + 1] = e /\ \A i \in 1..n : longer[i] = entries[i]
  OBVIOUS
<1> HIDE DEF n, longer
<1>2. PICK f \in [0..n -> Int] :
        SumsUpTo(f, n, Shares(entries, a)) /\ M!Total(entries, a) = f[n]
  BY TotalIsSum DEF n
<1>3. PICK g \in [0..(n + 1) -> Int] :
        SumsUpTo(g, n + 1, Shares(longer, a)) /\ M!Total(longer, a) = g[n + 1]
  BY <1>1, TotalIsSum
<1>4. /\ \A i \in 1..n : Shares(longer, a)[i] = Shares(entries, a)[i]
      /\ Shares(longer, a)[n + 1] = IF e.account = a THEN e.amount ELSE 0
  <2>1. /\ Shares(longer, a) = [i \in 1..(n + 1) |->
                                  IF longer[i].account = a THEN longer[i].amount ELSE 0]
        /\ Shares(entries, a) = [i \in 1..n |->
                                  IF entries[i].account = a THEN entries[i].amount ELSE 0]
    BY <1>1 DEF Shares, n
  <2>2. n + 1 \in 1..(n + 1) /\ \A i \in 1..n : i \in 1..(n + 1)
    BY <1>1
  <2>3. ASSUME NEW i \in 1..n PROVE Shares(longer, a)[i] = Shares(entries, a)[i]
    <3>1. longer[i] = entries[i] /\ i \in 1..(n + 1)
      BY <1>1, <2>2
    <3>2. Shares(longer, a)[i] = IF longer[i].account = a THEN longer[i].amount ELSE 0
      BY <2>1, <3>1
    <3>3. Shares(entries, a)[i] = IF entries[i].account = a THEN entries[i].amount ELSE 0
      BY <2>1
    <3> QED BY <3>1, <3>2, <3>3
  <2>4. Shares(longer, a)[n + 1] = IF e.account = a THEN e.amount ELSE 0
    BY <1>1, <2>1, <2>2
  <2> QED BY <2>3, <2>4
<1>5. SumsUpTo(g, n, Shares(entries, a))
  BY <1>1, <1>3, <1>4 DEF SumsUpTo
<1>6. g[n] = f[n]
  BY <1>1, <1>2, <1>5, SumsUnique
<1>7. g[n + 1] = g[n] + Shares(longer, a)[n + 1]
  BY <1>1, <1>3 DEF SumsUpTo
<1> QED BY <1>2, <1>3, <1>4, <1>6, <1>7 DEF longer

(* Entries of one account that are worth one each. *)
LEMMA TotalOfOnes ==
    ASSUME NEW entries \in Seq(BookEntries), NEW a,
           \A i \in 1..Len(entries) : entries[i].account = a /\ entries[i].amount = 1
    PROVE  M!Total(entries, a) = Len(entries)
<1> DEFINE n == Len(entries)
<1>1. n \in Nat
  OBVIOUS
<1>2. PICK f \in [0..n -> Int] :
        SumsUpTo(f, n, Shares(entries, a)) /\ M!Total(entries, a) = f[n]
  BY TotalIsSum
<1>3. \A i \in 1..n : Shares(entries, a)[i] = 1
  BY DEF Shares
<1> HIDE DEF n
<1> DEFINE g == [i \in 0..n |-> i]
<1>4. SumsUpTo(g, n, Shares(entries, a))
  <2>1. ASSUME NEW i \in 0..n PROVE g[i] = IF i = 0 THEN 0 ELSE g[i - 1] + Shares(entries, a)[i]
    <3>1. i # 0 => i \in 1..n /\ i - 1 \in 0..n
      BY <1>1
    <3>2. i # 0 => g[i - 1] + Shares(entries, a)[i] = i - 1 + 1
      BY <1>3, <3>1
    <3> QED BY <1>1, <3>2
  <2> HIDE DEF g
  <2> QED BY <2>1 DEF SumsUpTo
<1>5. f[n] = g[n]
  BY <1>1, <1>2, <1>4, SumsUnique
<1> QED BY <1>1, <1>2, <1>5 DEF n

(* Every ledger and index is typed.  In one process the source keeps to its *)
(* cap with what is about to be posted, and an index lags behind its ledger *)
(* only by the posting whose picker is between append and save, who has     *)
(* read it unchanged.                                                       *)
BookTypes ==
    /\ ledger \in [M!Ledgers -> Seq(BookEntries)]
    /\ index \in [M!Ledgers -> [M!Accounts -> Int]]
    /\ copy \in [Pickers -> [M!Accounts -> Int]]
Sums(l) == [a \in M!Accounts |-> M!SumOf(l, a)]
AtIndex(p, l) == doing[p] \in {M!Loading[l], M!Saving[l]}
CapHeld ==
    /\ M!SumOf("value", Source) <= HourCap
    /\ \A p \in Pickers : doing[p] = "value_append" =>
         amount[p] \in {0, 1} /\ M!SumOf("value", Source) + amount[p] <= HourCap
IndexFollows(l) ==
    /\ (\A p \in Pickers : ~AtIndex(p, l)) => index[l] = Sums(l)
    /\ \A p \in Pickers : AtIndex(p, l) =>
         /\ Sums(l) = [index[l] EXCEPT ![M!Account(l, p)] = @ + amount[p]]
         /\ doing[p] = M!Saving[l] => copy[p] = index[l]
BooksInv == BookTypes /\ (alone => CapHeld /\ \A l \in M!Ledgers \ behind : IndexFollows(l))

LEMMA BooksInit == ASSUME M!Init PROVE BooksInv
<1> DEFINE win(p) == [account |-> p, offer |-> None, amount |-> 5]
           wins == {win(p) : p \in Pickers}
           gift == [account |-> Source, offer |-> None, amount |-> 1]
           gifts == [i \in 1..HourCap |-> gift]
<1>1. wins \subseteq BookEntries /\ gift \in BookEntries /\ HourCap \in Nat
  BY AreNumbers DEF BookEntries, M!Accounts
<1>2. M!SetToSeq(wins) \in Seq(BookEntries)
  <2>1. IsFiniteSet(wins)
    <3>1. [p \in Pickers |-> win(p)] \in Surjection(Pickers, wins)
      BY DEF Surjection
    <3> QED BY <3>1, NamesAreNodes, FS_Surjection DEF ExistsSurjection
  <2> HIDE DEF wins
  <2>2. Cardinality(wins) \in Nat /\ ExistsBijection(1..Cardinality(wins), wins)
    BY <2>1, FS_CardinalityType
  <2>3. \E f \in [1..Cardinality(wins) -> wins] : M!IsInjective(f)
    BY <2>2 DEF ExistsBijection, Bijection, Injection, IsInjective, M!IsInjective
  <2>4. M!SetToSeq(wins) \in [1..Cardinality(wins) -> wins]
    BY <2>3 DEF M!SetToSeq, Cardinality, M!Cardinality
  <2> QED BY <1>1, <2>2, <2>4
<1>3. gifts \in Seq(BookEntries) /\ Len(gifts) = HourCap
  <2> HIDE DEF gift
  <2> QED BY <1>1
<1>4. M!Total(gifts, Source) = HourCap
  BY <1>3, TotalOfOnes
<1>5. /\ \A l \in M!Ledgers : ledger[l] \in Seq(BookEntries)
      /\ ledger["value"] \in {<<>>, gifts}
      /\ DOMAIN ledger = M!Ledgers /\ ledger = [l \in M!Ledgers |-> ledger[l]]
  <2> HIDE DEF gifts, wins
  <2>1. <<>> \in Seq(BookEntries)
    OBVIOUS
  <2>2. M!Before("value") = gifts /\ M!Before("reputation") = M!SetToSeq(wins)
    BY DEF M!Before, gifts, wins
  <2>3. CASE ledger = [l \in M!Ledgers |-> <<>>]
    BY <2>1, <2>3 DEF M!Ledgers
  <2>4. CASE ledger = [l \in M!Ledgers |-> IF l = "reward" THEN <<>> ELSE M!Before(l)]
    BY <1>2, <1>3, <2>1, <2>2, <2>4 DEF M!Ledgers
  <2> QED BY <2>3, <2>4 DEF M!Init
<1>6. /\ index = [l \in M!Ledgers |-> [a \in M!Accounts |-> M!SumOf(l, a)]]
      /\ copy = [p \in Pickers |-> M!Zero] /\ doing = [p \in Pickers |-> "idle"]
  BY DEF M!Init
<1>7. \A l \in M!Ledgers, a \in M!Accounts : M!SumOf(l, a) \in Int
  BY <1>5, TotalIsInt DEF M!SumOf
<1>8. BookTypes
  BY <1>5, <1>6, <1>7 DEF BookTypes, M!Zero
<1>9. CapHeld
  <2>1. M!SumOf("value", Source) \in {0, HourCap}
    <3> HIDE DEF gifts
    <3> QED BY <1>4, <1>5, TotalOfNone DEF M!SumOf
  <2> QED BY <1>1, <1>6, <2>1 DEF CapHeld
<1>10. ASSUME NEW l \in M!Ledgers PROVE IndexFollows(l)
  <2>1. index[l] = Sums(l)
    BY <1>6 DEF Sums
  <2> QED BY <1>6, <2>1, PostStages DEF IndexFollows, AtIndex, M!Ledgers
<1> QED BY <1>8, <1>9, <1>10 DEF BooksInv

(* What a picker leaves alone: the index of a ledger nobody posts to, and   *)
(* the cap while nobody is about to post for the source.                    *)
LEMMA IndexKept ==
    ASSUME NEW l \in M!Ledgers, IndexFollows(l), ledger'[l] = ledger[l], index'[l] = index[l],
           \A p \in Pickers :
             \/ ~AtIndex(p, l) /\ ~AtIndex(p, l)'
             \/ doing'[p] = doing[p] /\ amount'[p] = amount[p] /\ copy'[p] = copy[p]
    PROVE  IndexFollows(l)'
<1>1. Sums(l)' = Sums(l)
  BY DEF Sums, M!SumOf
<1>2. \A p \in Pickers : AtIndex(p, l)' <=> AtIndex(p, l)
  BY DEF AtIndex
<1>3. \A p \in Pickers : M!Account(l, p)' = M!Account(l, p)
  BY DEF M!Account
<1> QED BY <1>1, <1>2, <1>3 DEF IndexFollows

LEMMA CapKept ==
    ASSUME CapHeld, ledger'["value"] = ledger["value"],
           \A p \in Pickers : doing'[p] = "value_append" =>
             doing[p] = "value_append" /\ amount'[p] = amount[p]
    PROVE  CapHeld'
<1>1. M!SumOf("value", Source)' = M!SumOf("value", Source)
  BY DEF M!SumOf
<1> QED BY <1>1 DEF CapHeld

(* A step of the others, and of a picker away from the books.               *)
AtBooks == {"value_append", "reputation_load", "reputation_save",
            "value_load", "value_save", "reward_load", "reward_save"}
LEMMA BooksRest ==
    ASSUME BooksInv, UNCHANGED <<alone, ledger, index, copy, behind>>,
           \A p \in Pickers :
             \/ doing[p] \notin AtBooks /\ doing'[p] \notin AtBooks
             \/ doing'[p] = doing[p] /\ amount'[p] = amount[p]
    PROVE  BooksInv'
<1>1. BookTypes'
  BY DEF BooksInv, BookTypes
<1>2. ASSUME alone PROVE CapHeld'
  BY <1>2, CapKept DEF BooksInv, AtBooks
<1>3. ASSUME alone, NEW l \in M!Ledgers \ behind PROVE IndexFollows(l)'
  <2>1. \A p \in Pickers : doing[p] \notin AtBooks /\ doing'[p] \notin AtBooks =>
                             ~AtIndex(p, l) /\ ~AtIndex(p, l)'
    BY PostStages DEF AtIndex, AtBooks, M!Ledgers
  <2>2. IndexFollows(l)
    BY <1>3 DEF BooksInv
  <2> QED BY <2>1, <2>2, IndexKept
<1> QED BY <1>1, <1>2, <1>3 DEF BooksInv

(* While a picker of the same process posts, nobody else is at the books.   *)
LEMMA NobodyElse ==
    ASSUME MarketInv, alone, NEW p \in Pickers, M!May(p), NEW q \in Pickers, q # p
    PROVE  doing[q] # "value_append" /\ \A l \in M!Ledgers : ~AtIndex(q, l)
<1>1. doing[q] \in {"idle", "listed", "hooked"}
  BY DEF M!May, M!Waits
<1> QED BY <1>1, PostStages DEF AtIndex, M!Ledgers

LEMMA CheckKeepsBooks ==
    ASSUME MarketInv, BooksInv, NEW p \in Pickers, NEW l \in M!Ledgers,
           M!Post(p, l), M!CheckPosting(p, l)
    PROVE  BooksInv'
<1>1. /\ doing[p] = M!Checking[l] /\ M!May(p)
      /\ UNCHANGED <<alone, behind, copy, ledger, index>>
      /\ \/ doing' = [doing EXCEPT ![p] = "idle"] /\ amount' = amount
         \/ /\ doing' = [doing EXCEPT ![p] = M!Appending[l]]
            /\ amount' = [amount EXCEPT ![p] = M!PostedAmount(p, l)]
  BY DEF M!Post, M!CheckPosting
<1>2. /\ doing \in [Pickers -> Stages] /\ amount \in [Pickers -> Int]
      /\ \A q \in Pickers : q # p => doing'[q] = doing[q] /\ amount'[q] = amount[q]
  BY <1>1 DEF MarketInv, MarketTypes
<1>3. CASE l # "value" \/ doing' = [doing EXCEPT ![p] = "idle"]
  <2>1. doing[p] \notin AtBooks /\ doing'[p] \notin AtBooks
    BY <1>1, <1>2, <1>3, PostStages DEF AtBooks, M!Ledgers
  <2> QED BY <1>1, <1>2, <2>1, BooksRest
<1>4. CASE l = "value" /\ doing' = [doing EXCEPT ![p] = M!Appending[l]]
  <2>1. BookTypes'
    BY <1>1 DEF BooksInv, BookTypes
  <2>2. amount'[p] = IF M!SumOf("value", Source) + 1 > HourCap THEN 0 ELSE 1
    <3>1. doing[p] = "value_check" /\ doing'[p] = "value_append"
      BY <1>1, <1>2, <1>4, PostStages
    <3>2. doing' # [doing EXCEPT ![p] = "idle"]
      BY <1>2, <3>1
    <3> QED BY <1>1, <1>2, <1>4, <3>2 DEF M!PostedAmount
  <2>3. M!SumOf("value", Source)' = M!SumOf("value", Source)
    BY <1>1 DEF M!SumOf
  <2>4. M!SumOf("value", Source) \in Int /\ HourCap \in Int
    BY AreNumbers, TotalIsInt DEF BooksInv, BookTypes, M!SumOf, M!Ledgers
  <2>5. ASSUME alone PROVE CapHeld'
    <3>1. \A q \in Pickers : q # p => doing'[q] # "value_append"
      BY <1>1, <1>2, <2>5, NobodyElse
    <3> QED BY <2>2, <2>3, <2>4, <2>5, <3>1 DEF BooksInv, CapHeld
  <2>6. ASSUME alone, NEW k \in M!Ledgers \ behind PROVE IndexFollows(k)'
    <3>1. ~AtIndex(p, k) /\ ~AtIndex(p, k)'
      BY <1>1, <1>2, <1>4, PostStages DEF AtIndex, M!Ledgers
    <3>2. IndexFollows(k)
      BY <2>6 DEF BooksInv
    <3> QED BY <1>1, <1>2, <3>1, <3>2, IndexKept
  <2> QED BY <1>1, <2>1, <2>5, <2>6 DEF BooksInv
<1> QED BY <1>1, <1>3, <1>4

LEMMA AppendKeepsBooks ==
    ASSUME MarketInv, BooksInv, NEW p \in Pickers, NEW l \in M!Ledgers,
           M!Post(p, l), M!AppendPosting(p, l)
    PROVE  BooksInv'
<1> DEFINE acct == M!Account(l, p)
           entry == [account |-> acct, offer |-> job[p], amount |-> amount[p]]
           next == IF M!Limited(p, l) THEN M!After(p, l, 0) ELSE M!Loading[l]
<1>1. /\ doing[p] = M!Appending[l] /\ M!May(p)
      /\ UNCHANGED <<alone, behind, amount, copy, index>>
      /\ doing' = [doing EXCEPT ![p] = next]
      /\ ledger' = [ledger EXCEPT ![l] = Append(@, entry)]
  BY DEF M!Post, M!AppendPosting
<1>2. /\ doing \in [Pickers -> Stages] /\ amount \in [Pickers -> Int]
      /\ job \in [Pickers -> Offers \cup {None}]
      /\ ledger \in [M!Ledgers -> Seq(BookEntries)]
      /\ index \in [M!Ledgers -> [M!Accounts -> Int]]
  BY DEF MarketInv, MarketTypes, BooksInv, BookTypes
<1>3. entry \in BookEntries /\ acct \in M!Accounts
  BY <1>2 DEF BookEntries, M!Account, M!Accounts
<1>4. next \in {"idle", "trying", "value_check", "reward_check", M!Loading[l]}
  BY <1>1, AfterPosting
<1>5. doing'[p] = next /\ \A q \in Pickers : q # p => doing'[q] = doing[q]
  BY <1>1, <1>2
<1>6. entry.account = acct /\ entry.amount = amount[p]
  OBVIOUS
<1> HIDE DEF entry, next
<1>7. BookTypes'
  <2>1. Append(ledger[l], entry) \in Seq(BookEntries)
    BY <1>2, <1>3
  <2> QED BY <1>1, <1>2, <2>1 DEF BooksInv, BookTypes
<1>8. \A a \in M!Accounts :
        M!SumOf(l, a)' = M!SumOf(l, a) + (IF acct = a THEN amount[p] ELSE 0)
  <2>1. ledger'[l] = Append(ledger[l], entry) /\ ledger[l] \in Seq(BookEntries)
    BY <1>1, <1>2
  <2> QED BY <1>3, <1>6, <2>1, TotalOfAppend DEF M!SumOf
<1>9. \A a \in M!Accounts : M!SumOf(l, a) \in Int
  BY <1>2, TotalIsInt DEF M!SumOf
<1>10. ASSUME alone PROVE CapHeld'
  <2>1. \A q \in Pickers : doing'[q] # "value_append"
    <3>1. next # "value_append"
      BY <1>4, PostStages DEF M!Ledgers
    <3> QED BY <1>1, <1>5, <1>10, <3>1, NobodyElse
  <2>2. CASE l = "value"
    <3>1. acct = Source /\ Source \in M!Accounts /\ doing[p] = "value_append"
      BY <1>1, <2>2, PostStages DEF M!Account, M!Accounts
    <3>2. M!SumOf("value", Source)' = M!SumOf("value", Source) + amount[p]
      BY <1>8, <2>2, <3>1
    <3> QED BY <1>10, <2>1, <3>1, <3>2 DEF BooksInv, CapHeld
  <2>3. CASE l # "value"
    <3>1. ledger'["value"] = ledger["value"]
      BY <1>1, <1>2, <2>3
    <3> QED BY <1>10, <2>1, <3>1, CapKept DEF BooksInv
  <2> QED BY <2>2, <2>3
<1>11. ASSUME alone, NEW k \in M!Ledgers \ behind PROVE IndexFollows(k)'
  <2>1. IndexFollows(k)
    BY <1>11 DEF BooksInv
  <2>2. \A q \in Pickers : q # p => ~AtIndex(q, k) /\ ~AtIndex(q, k)'
    BY <1>1, <1>5, <1>11, NobodyElse DEF AtIndex
  <2>3. ~AtIndex(p, k)
    BY <1>1, PostStages DEF AtIndex, M!Ledgers
  <2>4. CASE k # l
    <3>1. ~AtIndex(p, k)'
      BY <1>4, <1>5, <2>4, PostStages DEF AtIndex, M!Ledgers
    <3>2. ledger'[k] = ledger[k] /\ index'[k] = index[k]
      BY <1>1, <1>2, <2>4
    <3> QED BY <2>1, <2>2, <2>3, <3>1, <3>2, IndexKept
  <2>5. CASE k = l
    <3>1. index[l] = Sums(l) /\ index'[l] = index[l]
      BY <1>1, <2>1, <2>2, <2>3, <2>5 DEF IndexFollows
    <3>2. CASE M!Limited(p, l)
      <4>1. amount[p] = 0 /\ doing'[p] \in {"idle", "trying", "value_check", "reward_check"}
        BY <1>1, <1>5, <3>2, AfterPosting DEF M!Limited, next
      <4>2. Sums(l)' = Sums(l)
        BY <1>8, <1>9, <4>1 DEF Sums
      <4>3. ~AtIndex(p, l)'
        BY <4>1, PostStages DEF AtIndex, M!Ledgers
      <4> QED BY <2>2, <2>5, <3>1, <4>2, <4>3 DEF IndexFollows
    <3>3. CASE ~M!Limited(p, l)
      <4>1. doing'[p] = M!Loading[l] /\ M!Loading[l] # M!Saving[l]
        BY <1>5, <3>3, PostStages DEF next, M!Ledgers
      <4>2. Sums(l)' = [index[l] EXCEPT ![acct] = @ + amount[p]]
        <5> HIDE DEF acct
        <5>1. /\ Sums(l)' = [a \in M!Accounts |-> M!SumOf(l, a)']
              /\ index[l] = [a \in M!Accounts |-> M!SumOf(l, a)]
          BY <3>1 DEF Sums
        <5>2. Sums(l)' = [a \in M!Accounts |->
                            IF a = acct THEN M!SumOf(l, a) + amount[p] ELSE M!SumOf(l, a)]
          BY <1>8, <1>9, <5>1
        <5> QED BY <1>3, <5>1, <5>2
      <4>3. M!Account(l, p)' = acct
        BY DEF M!Account
      <4> HIDE DEF acct
      <4> QED BY <1>1, <2>2, <2>5, <3>1, <4>1, <4>2, <4>3 DEF IndexFollows, AtIndex
    <3> QED BY <3>2, <3>3
  <2> QED BY <2>4, <2>5
<1> QED BY <1>1, <1>7, <1>10, <1>11 DEF BooksInv

LEMMA LoadKeepsBooks ==
    ASSUME MarketInv, BooksInv, NEW p \in Pickers, NEW l \in M!Ledgers,
           M!Post(p, l), M!LoadIndex(p, l)
    PROVE  BooksInv'
<1>1. /\ doing[p] = M!Loading[l] /\ M!May(p)
      /\ UNCHANGED <<alone, behind, amount, ledger, index>>
      /\ doing' = [doing EXCEPT ![p] = M!Saving[l]]
      /\ copy' = [copy EXCEPT ![p] = index[l]]
  BY DEF M!Post, M!LoadIndex
<1>2. /\ doing \in [Pickers -> Stages] /\ copy \in [Pickers -> [M!Accounts -> Int]]
      /\ index \in [M!Ledgers -> [M!Accounts -> Int]]
  BY DEF MarketInv, MarketTypes, BooksInv, BookTypes
<1>3. /\ doing'[p] = M!Saving[l] /\ copy'[p] = index[l]
      /\ \A q \in Pickers : q # p => doing'[q] = doing[q] /\ copy'[q] = copy[q]
  BY <1>1, <1>2
<1>4. BookTypes'
  BY <1>1, <1>2 DEF BooksInv, BookTypes
<1>5. ASSUME alone PROVE CapHeld'
  <2>1. doing'[p] # "value_append"
    BY <1>3, PostStages DEF M!Ledgers
  <2> QED BY <1>1, <1>3, <1>5, <2>1, CapKept DEF BooksInv
<1>6. ASSUME alone, NEW k \in M!Ledgers \ behind PROVE IndexFollows(k)'
  <2>1. IndexFollows(k)
    BY <1>6 DEF BooksInv
  <2>2. CASE k # l
    <3>1. ~AtIndex(p, k) /\ ~AtIndex(p, k)'
      BY <1>1, <1>3, <2>2, PostStages DEF AtIndex, M!Ledgers
    <3> QED BY <1>1, <1>3, <2>1, <3>1, IndexKept
  <2>3. CASE k = l
    <3>1. AtIndex(p, l) /\ AtIndex(p, l)'
      BY <1>1, <1>3 DEF AtIndex
    <3>2. \A q \in Pickers : q # p => ~AtIndex(q, l)'
      BY <1>1, <1>3, <1>6, NobodyElse DEF AtIndex
    <3>3. Sums(l)' = Sums(l) /\ M!Account(l, p)' = M!Account(l, p)
      BY <1>1 DEF Sums, M!SumOf, M!Account
    <3> QED BY <1>1, <1>3, <2>1, <2>3, <3>1, <3>2, <3>3 DEF IndexFollows
  <2> QED BY <2>2, <2>3
<1> QED BY <1>1, <1>4, <1>5, <1>6 DEF BooksInv

LEMMA SaveKeepsBooks ==
    ASSUME MarketInv, BooksInv, NEW p \in Pickers, NEW l \in M!Ledgers,
           M!Post(p, l), M!SaveIndex(p, l)
    PROVE  BooksInv'
<1> DEFINE acct == M!Account(l, p)
<1>1. /\ doing[p] = M!Saving[l] /\ M!May(p)
      /\ UNCHANGED <<alone, behind, amount, ledger>>
      /\ doing' = [doing EXCEPT ![p] = M!After(p, l, amount[p])]
      /\ copy' = [copy EXCEPT ![p] = M!Zero]
      /\ index' = [index EXCEPT ![l] = [copy[p] EXCEPT ![acct] = @ + amount[p]]]
  BY DEF M!Post, M!SaveIndex
<1>2. /\ doing \in [Pickers -> Stages] /\ copy \in [Pickers -> [M!Accounts -> Int]]
      /\ amount \in [Pickers -> Int] /\ index \in [M!Ledgers -> [M!Accounts -> Int]]
  BY DEF MarketInv, MarketTypes, BooksInv, BookTypes
<1>3. doing'[p] \in {"idle", "trying", "value_check", "reward_check"}
  BY <1>1, <1>2, AfterPosting
<1>4. \A q \in Pickers : q # p => doing'[q] = doing[q] /\ copy'[q] = copy[q]
  BY <1>1, <1>2
<1>5. acct \in M!Accounts
  BY DEF M!Account, M!Accounts
<1> HIDE DEF acct
<1>6. /\ index'[l] = [copy[p] EXCEPT ![acct] = @ + amount[p]]
      /\ \A k \in M!Ledgers : k # l => index'[k] = index[k]
  BY <1>1, <1>2
<1>7. BookTypes'
  <2>1. [copy[p] EXCEPT ![acct] = @ + amount[p]] \in [M!Accounts -> Int]
    BY <1>2, <1>5
  <2>2. index' \in [M!Ledgers -> [M!Accounts -> Int]]
    BY <1>1, <1>2, <2>1
  <2>3. copy' \in [Pickers -> [M!Accounts -> Int]]
    BY <1>1, <1>2 DEF M!Zero
  <2> QED BY <1>1, <2>2, <2>3 DEF BooksInv, BookTypes
<1>8. ASSUME alone PROVE CapHeld'
  BY <1>1, <1>3, <1>4, <1>8, CapKept DEF BooksInv
<1>9. ASSUME alone, NEW k \in M!Ledgers \ behind PROVE IndexFollows(k)'
  <2>1. IndexFollows(k)
    BY <1>9 DEF BooksInv
  <2>2. ~AtIndex(p, k)'
    BY <1>3, PostStages DEF AtIndex, M!Ledgers
  <2>3. CASE k # l
    <3>1. ~AtIndex(p, k)
      BY <1>1, <2>3, PostStages DEF AtIndex, M!Ledgers
    <3> QED BY <1>1, <1>4, <1>6, <2>1, <2>2, <2>3, <3>1, IndexKept
  <2>4. CASE k = l
    <3>1. \A q \in Pickers : ~AtIndex(q, l)'
      BY <1>1, <1>4, <1>9, <2>2, <2>4, NobodyElse DEF AtIndex
    <3>2. index'[l] = Sums(l)
      BY <1>1, <1>6, <2>1, <2>4 DEF IndexFollows, AtIndex, acct
    <3>3. Sums(l)' = Sums(l)
      BY <1>1 DEF Sums, M!SumOf
    <3> QED BY <2>4, <3>1, <3>2, <3>3 DEF IndexFollows
  <2> QED BY <2>3, <2>4
<1> QED BY <1>1, <1>7, <1>8, <1>9 DEF BooksInv

(* Who dies between append and save leaves the index behind; a rebuilt      *)
(* index is the sum; no other step of a picker touches the books.           *)
LEMMA DeathKeepsBooks == ASSUME MarketInv, BooksInv, NEW p \in Pickers, M!Die(p) PROVE BooksInv'
<1>1. /\ UNCHANGED <<alone, amount, copy, ledger, index>>
      /\ doing' = [q \in Pickers |-> IF alone \/ q = p THEN "idle" ELSE doing[q]]
      /\ behind' = behind \cup
           {l \in M!Ledgers : \E q \in Pickers : (q = p \/ alone) /\ AtIndex(q, l)}
  BY DEF M!Die, AtIndex
<1>2. BookTypes'
  BY <1>1 DEF BooksInv, BookTypes
<1>3. ASSUME alone, NEW q \in Pickers
      PROVE  doing'[q] # "value_append" /\ \A l \in M!Ledgers : ~AtIndex(q, l)'
  BY <1>1, <1>3, PostStages DEF AtIndex, M!Ledgers
<1>4. ASSUME alone PROVE CapHeld'
  BY <1>1, <1>3, <1>4, CapKept DEF BooksInv
<1>5. ASSUME alone, NEW l \in M!Ledgers \ behind' PROVE IndexFollows(l)'
  <2>1. IndexFollows(l) /\ \A q \in Pickers : ~AtIndex(q, l)
    BY <1>1, <1>5 DEF BooksInv
  <2> QED BY <1>1, <1>3, <1>5, <2>1, IndexKept
<1> QED BY <1>1, <1>2, <1>4, <1>5 DEF BooksInv

LEMMA RebuildKeepsBooks ==
    ASSUME MarketInv, BooksInv, NEW l \in M!Ledgers, M!Rebuild(l)
    PROVE  BooksInv'
<1>1. /\ UNCHANGED <<alone, doing, amount, copy, ledger>> /\ behind' = behind \ {l}
      /\ index' = [index EXCEPT ![l] = Sums(l)]
      /\ \A q \in Pickers : doing[q] \in {"idle", "listed", "hooked"}
  BY DEF M!Rebuild, M!Waits, Sums
<1>2. BookTypes /\ index \in [M!Ledgers -> [M!Accounts -> Int]]
  BY DEF BooksInv, BookTypes
<1>3. /\ index'[l] = Sums(l) /\ Sums(l) \in [M!Accounts -> Int]
      /\ \A k \in M!Ledgers : k # l => index'[k] = index[k]
  <2>1. \A a \in M!Accounts : M!SumOf(l, a) \in Int
    BY <1>2, TotalIsInt DEF BookTypes, M!SumOf
  <2> QED BY <1>1, <1>2, <2>1 DEF Sums
<1>4. BookTypes'
  BY <1>1, <1>2, <1>3 DEF BookTypes
<1>5. \A q \in Pickers, k \in M!Ledgers : ~AtIndex(q, k) /\ ~AtIndex(q, k)'
  BY <1>1, PostStages DEF AtIndex, M!Ledgers
<1>6. ASSUME alone, NEW k \in M!Ledgers \ behind' PROVE IndexFollows(k)'
  <2>1. CASE k = l
    <3>1. Sums(l)' = Sums(l)
      BY <1>1 DEF Sums, M!SumOf
    <3> QED BY <1>3, <1>5, <2>1, <3>1 DEF IndexFollows
  <2>2. CASE k # l
    <3>1. IndexFollows(k)
      BY <1>1, <1>6, <2>2 DEF BooksInv
    <3> QED BY <1>1, <1>3, <1>5, <2>2, <3>1, IndexKept
  <2> QED BY <2>1, <2>2
<1>7. alone => CapHeld'
  BY <1>1, CapKept DEF BooksInv
<1> QED BY <1>1, <1>4, <1>6, <1>7 DEF BooksInv

LEMMA BooksStep == ASSUME MarketInv, BooksInv, [M!Next]_market PROVE BooksInv'
<1>1. doing \in [Pickers -> Stages] /\ amount \in [Pickers -> Int]
  BY DEF MarketInv, MarketTypes
<1>2. ASSUME NEW p \in Pickers,
             M!Discover(p) \/ M!Try(p) \/ M!Check(p) \/ M!Stamp(p) \/ M!Append2Feed(p) \/ M!Judge(p)
      PROVE  BooksInv'
  <2>1. UNCHANGED <<alone, ledger, index, copy, behind>>
    BY <1>2 DEF M!Discover, M!Try, M!Check, M!Stamp, M!Append2Feed, M!Judge, M!books
  <2>2. /\ doing[p] \in {"idle", "listed", "trying", "hooked", "stamp", "append", "judge"}
        /\ \E s \in {"listed", "idle", "trying", "hooked", "stamp", "append", "judge", "reputation_check"} :
             doing' = [doing EXCEPT ![p] = s]
    BY <1>2 DEF M!Discover, M!Try, M!Skip, M!Check, M!Lost, M!Reports, M!Stamp, M!Append2Feed, M!Judge
  <2>3. \A q \in Pickers : q # p => doing'[q] = doing[q] /\ amount'[q] = amount[q]
    <3>1. amount' = amount \/ \E v \in {5, -1} : amount' = [amount EXCEPT ![p] = v]
      BY <1>2 DEF M!Discover, M!Try, M!Check, M!Lost, M!Reports, M!Stamp, M!Append2Feed, M!Judge, M!books
    <3> QED BY <1>1, <2>2, <3>1
  <2>4. doing[p] \notin AtBooks /\ doing'[p] \notin AtBooks
    BY <1>1, <2>2 DEF AtBooks
  <2> QED BY <2>1, <2>3, <2>4, BooksRest
<1>3. ASSUME NEW p \in Pickers, NEW l \in M!Ledgers, M!Post(p, l) PROVE BooksInv'
  BY <1>3, CheckKeepsBooks, AppendKeepsBooks, LoadKeepsBooks, SaveKeepsBooks DEF M!Post
<1>4. ASSUME UNCHANGED <<alone, doing, amount, copy, ledger, index, behind>> PROVE BooksInv'
  BY <1>4, BooksRest
<1>5. ASSUME NEW o \in Offers, M!Route(o) PROVE BooksInv'
  BY <1>4, <1>5 DEF M!Route, M!books
<1>6. CASE M!Answered \/ M!ClockSet \/ UNCHANGED market
  BY <1>4, <1>6 DEF M!Answered, M!ClockSet, M!books, market
<1> QED BY <1>2, <1>3, <1>5, <1>6, DeathKeepsBooks, RebuildKeepsBooks DEF M!Next, M!Picks

-----------------------------------------------------------------------------
(* The duties of a tick.                                                    *)
DutyTask == [id : 1..MaxTasks, status : D!Open \cup {"published", "completed", "failed"}]
DutyTypes ==
    /\ duty \in {"recover", "join", "pending", "bootstrap", "generate", "aggregate",
                 "radar", "deliver", "pick", "accept", "run", "finish"}
    /\ mem \in D!State /\ disk \in D!State
    /\ tasks \in Seq(DutyTask) /\ picked \in 0..MaxTasks
    /\ radar \in {"none", "empty", "stories"}
    /\ days \in 0..MaxDays /\ deaths \in 0..MaxDeaths
DutyCounts ==
    /\ joins \in Nat /\ radars \in Nat /\ deathsToday \in Nat
    /\ joins <= deaths + (IF mem.joined THEN 1 ELSE 0)
    /\ radars <= deathsToday + (IF mem.delivered = "recent" THEN 1 ELSE 0)
    /\ mem.first \/ disk.first => everDelivered
LEMMA DutyTasks ==
    ASSUME NEW list \in Seq(DutyTask), NEW i \in DOMAIN list
    PROVE  list[i].id \in 1..MaxTasks /\ list[i].status \in D!Open \cup {"published", "completed", "failed"}
<1>1. list[i] \in DutyTask
  OBVIOUS
<1> QED BY <1>1 DEF DutyTask

LEMMA DutiesParts == (DutiesInv <=> DutyTypes /\ DutyCounts) /\ (DutiesInv' <=> DutyTypes' /\ DutyCounts')
<1>1. DutiesInv <=> DutyTypes /\ DutyCounts
  <2>1. DutyTypes => D!TypeOK
    BY DutyTasks DEF DutyTypes, D!TypeOK
  <2>2. D!TypeOK /\ tasks \in Seq(DutyTask) => DutyTypes
    BY DEF DutyTypes, D!TypeOK
  <2> QED BY <2>1, <2>2 DEF DutiesInv, DutyTypes, DutyCounts, DutyTask
<1>2. DutiesInv' <=> DutyTypes' /\ DutyCounts'
  <2>1. DutyTypes' => D!TypeOK'
    BY DutyTasks DEF DutyTypes, D!TypeOK
  <2>2. D!TypeOK' /\ (tasks \in Seq(DutyTask))' => DutyTypes'
    BY DEF DutyTypes, D!TypeOK
  <2> QED BY <2>1, <2>2 DEF DutiesInv, DutyTypes, DutyCounts, DutyTask
<1> QED BY <1>1, <1>2

LEMMA DutiesInit == ASSUME D!Init PROVE DutiesInv
<1>1. mem = [generated |-> "never", aggregated |-> "never", delivered |-> "never",
             first |-> FALSE, joined |-> FALSE]
  BY DEF D!Init
<1>2. mem \in D!State
  BY <1>1 DEF D!State, D!Ages
<1>3. /\ duty = "recover" /\ disk = mem /\ tasks = <<>> /\ picked = 0 /\ radar = "none"
      /\ days = 0 /\ deaths = 0 /\ joins = 0 /\ radars = 0 /\ deathsToday = 0
  BY DEF D!Init
<1>4. DutyTypes
  BY <1>2, <1>3, AreNumbers DEF DutyTypes
<1>5. DutyCounts
  <2>1. ~mem.first /\ ~disk.first /\ ~mem.joined /\ mem.delivered # "recent"
    BY <1>1, <1>3
  <2> QED BY <1>3, <2>1 DEF DutyCounts
<1> QED BY <1>4, <1>5, DutiesParts

(* A nonempty set of task numbers has a greatest one, which a tick picks.   *)
LEMMA GreatestTask ==
    ASSUME NEW numbers \in SUBSET (1..MaxTasks), numbers # {}
    PROVE  (CHOOSE id \in numbers : \A other \in numbers : other <= id) \in numbers
<1> DEFINE below == {MaxTasks - x : x \in numbers}
<1>1. below \subseteq Nat /\ below # {}
  BY AreNumbers
<1>2. PICK least \in below : \A y \in below : <<y, least>> \notin OpToRel(<, Nat)
  BY <1>1, WFMin, NatLessThanWellFounded
<1>3. \A y \in below : ~(y < least)
  BY <1>1, <1>2 DEF OpToRel
<1>4. PICK id \in numbers : least = MaxTasks - id
  OBVIOUS
<1>5. ASSUME NEW other \in numbers PROVE other <= id
  <2>1. MaxTasks - other \in below /\ ~(MaxTasks - other < MaxTasks - id)
    BY <1>3, <1>4
  <2>2. other \in Nat /\ id \in Nat /\ MaxTasks \in Nat
    BY AreNumbers
  <2> QED BY <2>1, <2>2
<1> QED BY <1>5

(* A new task has a number of its own. *)
LEMMA NewIdIsNumber == ASSUME tasks \in Seq(DutyTask) PROVE D!NewId \in Nat \ {0}
<1> DEFINE numbers == {tasks[i].id : i \in DOMAIN tasks}
<1>1. \A i \in DOMAIN tasks : tasks[i].id \in 1..MaxTasks
  BY DutyTasks
<1>2. numbers \subseteq 1..MaxTasks
  BY <1>1
<1>3. IsFiniteSet(1..MaxTasks)
  BY AreNumbers, FS_Interval
<1>4. Cardinality(numbers) \in Nat
  BY <1>2, <1>3, FS_Subset, FS_CardinalityType
<1>5. D!Cardinality(numbers) = Cardinality(numbers)
  BY DEF D!Cardinality, Cardinality
<1> QED BY <1>4, <1>5 DEF D!NewId

LEMMA EntryIsTask ==
    ASSUME NEW id \in 1..MaxTasks, NEW status \in D!Open \cup {"published", "completed", "failed"}
    PROVE  D!Entry(id, status) \in DutyTask
  BY DEF D!Entry, DutyTask

LEMMA StatusStep ==
    ASSUME tasks \in Seq(DutyTask), NEW id, NEW status \in D!Open \cup {"published", "completed", "failed"},
           D!SetStatus(id, status)
    PROVE  tasks' \in Seq(DutyTask)
<1> DEFINE k == D!FirstOf(id)
<1>1. tasks' = [tasks EXCEPT ![k].status = status]
  BY DEF D!SetStatus
<1> HIDE DEF k
<1>2. DOMAIN tasks' = 1..Len(tasks)
  BY <1>1
<1>3. ASSUME NEW i \in 1..Len(tasks) PROVE tasks'[i] \in DutyTask
  <2>1. tasks[i] \in DutyTask
    OBVIOUS
  <2>2. tasks'[i] = tasks[i] \/ tasks'[i] = [tasks[i] EXCEPT !.status = status]
    BY <1>1
  <2>3. [tasks[i] EXCEPT !.status = status] \in DutyTask
    BY <2>1 DEF DutyTask
  <2> QED BY <2>1, <2>2, <2>3
<1>4. tasks' \in [1..Len(tasks) -> DutyTask]
  BY <1>1, <1>2, <1>3
<1> QED BY <1>4

LEMMA StateUpdates ==
    ASSUME NEW s \in D!State
    PROVE  /\ [s EXCEPT !.generated = "recent"] \in D!State
           /\ [s EXCEPT !.aggregated = "recent"] \in D!State
           /\ [s EXCEPT !.joined = TRUE] \in D!State
           /\ [s EXCEPT !.delivered = "recent", !.first = TRUE] \in D!State
           /\ D!Older(s) \in D!State /\ D!Older(s).first = s.first
           /\ D!Older(s).joined = s.joined /\ D!Older(s).delivered # "recent"
<1>1. ASSUME NEW r \in D!State, NEW waited \in D!Ages
      PROVE  /\ [r EXCEPT !.generated = waited] \in D!State
             /\ [r EXCEPT !.aggregated = waited] \in D!State
             /\ [r EXCEPT !.delivered = waited] \in D!State
  BY <1>1 DEF D!State
<1>2. ASSUME NEW r \in D!State
      PROVE  [r EXCEPT !.first = TRUE] \in D!State /\ [r EXCEPT !.joined = TRUE] \in D!State
  BY <1>2 DEF D!State
<1>3. "recent" \in D!Ages /\ "old" \in D!Ages
  BY DEF D!Ages
<1>4. [s EXCEPT !.delivered = "recent", !.first = TRUE] \in D!State
  <2>1. [[s EXCEPT !.delivered = "recent"] EXCEPT !.first = TRUE] \in D!State
    BY <1>1, <1>2, <1>3
  <2>2. [[s EXCEPT !.delivered = "recent"] EXCEPT !.first = TRUE]
          = [s EXCEPT !.delivered = "recent", !.first = TRUE]
    BY DEF D!State
  <2> QED BY <2>1, <2>2
<1>5. /\ D!Older(s) \in D!State /\ D!Older(s).first = s.first
      /\ D!Older(s).joined = s.joined /\ D!Older(s).delivered # "recent"
  <2> DEFINE older(waited) == IF waited = "recent" THEN "old" ELSE waited
             r1 == [s EXCEPT !.generated = older(s.generated)]
             r2 == [r1 EXCEPT !.aggregated = older(s.aggregated)]
             r3 == [r2 EXCEPT !.delivered = older(s.delivered)]
  <2>1. older(s.generated) \in D!Ages /\ older(s.aggregated) \in D!Ages /\ older(s.delivered) \in D!Ages
    BY DEF D!State, D!Ages
  <2>2. r3 \in D!State
    <3>1. r1 \in D!State
      BY <1>1, <2>1
    <3>2. r2 \in D!State
      <4> HIDE DEF r1
      <4> QED BY <1>1, <2>1, <3>1
    <3> HIDE DEF r2
    <3> QED BY <1>1, <2>1, <3>2
  <2>3. D!Older(s) = r3
    BY DEF D!Older, D!State
  <2>4. r3.first = s.first /\ r3.joined = s.joined /\ r3.delivered # "recent"
    BY DEF D!State
  <2> QED BY <2>2, <2>3, <2>4
<1> QED BY <1>1, <1>2, <1>3, <1>4, <1>5

LEMMA CountsKept ==
    ASSUME DutyCounts, UNCHANGED <<joins, radars, deathsToday, everDelivered, deaths>>,
           mem'.joined = mem.joined, mem'.delivered = mem.delivered, mem'.first = mem.first,
           disk'.first \in {disk.first, mem.first}
    PROVE  DutyCounts'
<1>1. joins' \in Nat /\ radars' \in Nat /\ deathsToday' \in Nat
  BY DEF DutyCounts
<1>2. joins' <= deaths' + (IF mem'.joined THEN 1 ELSE 0)
  BY DEF DutyCounts
<1>3. radars' <= deathsToday' + (IF mem'.delivered = "recent" THEN 1 ELSE 0)
  BY DEF DutyCounts
<1>4. mem'.first \/ disk'.first => everDelivered'
  BY DEF DutyCounts
<1> QED BY <1>1, <1>2, <1>3, <1>4 DEF DutyCounts

(* A radar is sent only while none of this day is remembered.               *)
LEMMA DeliverStep ==
    ASSUME DutyTypes, DutyCounts, D!Deliver, mem.delivered # "recent", UNCHANGED deaths
    PROVE  mem' \in D!State /\ disk' \in D!State /\ DutyCounts'
<1>1. /\ radars' = radars + 1 /\ everDelivered' = TRUE /\ UNCHANGED <<joins, deathsToday>>
      /\ mem' = [mem EXCEPT !.delivered = "recent", !.first = TRUE] /\ disk' \in {disk, mem'}
  BY DEF D!Deliver, D!Remember, D!AfterDelivery
<1>2. mem' \in D!State /\ disk' \in D!State
  BY <1>1, StateUpdates DEF DutyTypes
<1>3. mem'.delivered = "recent" /\ mem'.joined = mem.joined
  BY <1>1 DEF DutyTypes, D!State
<1>4. joins' \in Nat /\ radars' \in Nat /\ deathsToday' \in Nat
  BY <1>1 DEF DutyCounts
<1>5. joins' <= deaths' + (IF mem'.joined THEN 1 ELSE 0)
  BY <1>1, <1>3 DEF DutyCounts
<1>6. radars' <= deathsToday' + (IF mem'.delivered = "recent" THEN 1 ELSE 0)
  BY <1>1, <1>3 DEF DutyCounts
<1>7. everDelivered'
  BY <1>1
<1> QED BY <1>2, <1>4, <1>5, <1>6, <1>7 DEF DutyCounts

LEMMA DutiesStep == ASSUME DutiesInv, [D!Next]_duties PROVE DutiesInv'
<1>t. /\ DutyTypes /\ DutyCounts /\ mem \in D!State /\ disk \in D!State
      /\ tasks \in Seq(DutyTask) /\ picked \in 0..MaxTasks
  BY DutiesParts DEF DutyTypes
<1>1. ASSUME UNCHANGED <<mem, disk, joins, radars, deathsToday, everDelivered, deaths, days>>, DutyTypes'
      PROVE  DutiesInv'
  BY <1>1, <1>t, CountsKept, DutiesParts
<1>2. ASSUME NEW status \in D!Open \cup {"published", "completed", "failed"}, D!SetStatus(picked, status)
      PROVE  tasks' \in Seq(DutyTask)
  BY <1>2, <1>t, StatusStep
<1>3. CASE D!RecoverTasks
  <2>1. PICK released \in SUBSET {i \in DOMAIN tasks : tasks[i].status \in D!Open} :
          tasks' = [i \in DOMAIN tasks |->
                     IF i \in released THEN D!Entry(tasks[i].id, "published") ELSE tasks[i]]
    BY <1>3 DEF D!RecoverTasks
  <2>2. ASSUME NEW i \in DOMAIN tasks
        PROVE  D!Entry(tasks[i].id, "published") \in DutyTask /\ tasks[i] \in DutyTask
    BY <1>t, DutyTasks, EntryIsTask
  <2>3. tasks' \in [1..Len(tasks) -> DutyTask]
    BY <1>t, <2>1, <2>2
  <2>4. tasks' \in Seq(DutyTask)
    BY <1>t, <2>3
  <2> QED BY <1>1, <1>3, <1>t, <2>4 DEF D!RecoverTasks, D!bounds, D!history, DutyTypes
<1>4. CASE D!Join
  <2>1. UNCHANGED <<tasks, picked, radar, days, deaths, radars, deathsToday, everDelivered>> /\ duty' = "pending"
    BY <1>4 DEF D!Join, D!bounds
  <2>2. CASE UNCHANGED <<mem, disk, joins>>
    BY <1>1, <1>t, <2>1, <2>2 DEF DutyTypes
  <2>3. CASE ~mem.joined /\ joins' = joins + 1 /\ D!Remember(D!AfterJoin)
    <3>1. mem' = [mem EXCEPT !.joined = TRUE] /\ disk' \in {disk, mem'}
      BY <2>3 DEF D!Remember, D!AfterJoin
    <3>2. mem' \in D!State /\ disk' \in D!State
      BY <1>t, <3>1, StateUpdates
    <3>3. mem'.joined = TRUE /\ mem'.first = mem.first /\ mem'.delivered = mem.delivered
      BY <1>t, <3>1 DEF D!State
    <3>4. joins <= deaths /\ joins \in Nat /\ deaths \in Nat
      BY <1>t, <2>3, AreNumbers DEF DutyCounts, DutyTypes
    <3>5. joins' \in Nat /\ radars' \in Nat /\ deathsToday' \in Nat
      BY <2>1, <2>3, <3>4, <1>t DEF DutyCounts
    <3>6. joins' <= deaths' + (IF mem'.joined THEN 1 ELSE 0)
      BY <2>1, <2>3, <3>3, <3>4
    <3>7. radars' <= deathsToday' + (IF mem'.delivered = "recent" THEN 1 ELSE 0)
      BY <1>t, <2>1, <3>3 DEF DutyCounts
    <3>8. mem'.first \/ disk'.first => everDelivered'
      BY <1>t, <2>1, <3>1, <3>3 DEF DutyCounts
    <3> QED BY <1>t, <2>1, <3>2, <3>5, <3>6, <3>7, <3>8, DutiesParts DEF DutyTypes, DutyCounts
  <2> QED BY <1>4, <2>2, <2>3 DEF D!Join
<1>5. CASE D!Pending \/ D!DeliverRadar
  <2>1. UNCHANGED <<tasks, picked, radar, days, deaths>> /\ duty' \in {"bootstrap", "pick"}
    BY <1>5 DEF D!Pending, D!DeliverRadar, D!bounds
  <2>2. CASE UNCHANGED <<mem, disk, joins, radars, deathsToday, everDelivered>>
    BY <1>1, <1>t, <2>1, <2>2 DEF DutyTypes
  <2>3. CASE D!Deliver /\ mem.delivered # "recent"
    <3>1. mem' \in D!State /\ disk' \in D!State /\ DutyCounts'
      BY <1>t, <2>1, <2>3, DeliverStep
    <3> QED BY <1>t, <2>1, <3>1, DutiesParts DEF DutyTypes
  <2> QED BY <1>5, <2>2, <2>3 DEF D!Pending, D!DeliverRadar, D!MayDeliver, D!Due, D!history
<1>6. CASE D!Bootstrap
  <2>1. tasks' \in Seq(DutyTask)
    <3> DEFINE few == IF MaxTasks < 3 THEN MaxTasks ELSE 3
    <3>1. few \in Nat /\ \A id \in 1..few : id \in 1..MaxTasks
      BY AreNumbers
    <3>2. D!FirstTasks \in [1..few -> DutyTask]
      BY <3>1, EntryIsTask DEF D!FirstTasks
    <3>3. D!FirstTasks \in Seq(DutyTask)
      <4> HIDE DEF few
      <4> QED BY <3>1, <3>2
    <3> QED BY <1>6, <1>t, <3>3 DEF D!Bootstrap
  <2> QED BY <1>1, <1>6, <1>t, <2>1 DEF D!Bootstrap, D!bounds, D!history, DutyTypes
<1>7. CASE D!Generate
  <2>1. UNCHANGED <<picked, radar, days, deaths, joins, radars, deathsToday, everDelivered>>
        /\ duty' = "aggregate"
    BY <1>7 DEF D!Generate, D!bounds, D!history
  <2>2. CASE UNCHANGED <<tasks, mem, disk>>
    BY <1>1, <1>t, <2>1, <2>2 DEF DutyTypes
  <2>3. CASE /\ tasks' \in {tasks} \cup IF D!NewId <= MaxTasks THEN {D!Pushed} ELSE {}
             /\ D!Remember([mem EXCEPT !.generated = "recent"])
    <3>1. tasks' \in Seq(DutyTask)
      <4>1. CASE tasks' = tasks
        BY <1>t, <4>1
      <4>2. CASE D!NewId <= MaxTasks /\ tasks' = D!Pushed
        <5>1. D!NewId \in 1..MaxTasks
          BY <1>t, <4>2, NewIdIsNumber, AreNumbers
        <5>2. D!Entry(D!NewId, "published") \in DutyTask
          BY <5>1, EntryIsTask
        <5> QED BY <1>t, <4>2, <5>2 DEF D!Pushed
      <4> QED BY <2>3, <4>1, <4>2
    <3>2. mem' = [mem EXCEPT !.generated = "recent"] /\ disk' \in {disk, mem'}
      BY <2>3 DEF D!Remember
    <3>3. mem' \in D!State /\ disk' \in D!State
      BY <1>t, <3>2, StateUpdates
    <3>4. mem'.joined = mem.joined /\ mem'.delivered = mem.delivered /\ mem'.first = mem.first
      BY <1>t, <3>2 DEF D!State
    <3>5. DutyCounts'
      BY <1>t, <2>1, <3>2, <3>4, CountsKept
    <3> QED BY <1>t, <2>1, <3>1, <3>3, <3>5, DutiesParts DEF DutyTypes
  <2> QED BY <1>7, <2>2, <2>3 DEF D!Generate
<1>8. CASE D!Aggregate
  <2>1. UNCHANGED <<tasks, picked, radar, days, deaths, joins, radars, deathsToday, everDelivered>>
        /\ duty' \in {"radar", "pick"}
    BY <1>8 DEF D!Aggregate, D!bounds, D!history
  <2>2. CASE UNCHANGED <<mem, disk>>
    BY <1>1, <1>t, <2>1, <2>2 DEF DutyTypes
  <2>3. CASE D!Remember([mem EXCEPT !.aggregated = "recent"])
    <3>2. mem' = [mem EXCEPT !.aggregated = "recent"] /\ disk' \in {disk, mem'}
      BY <2>3 DEF D!Remember
    <3>3. mem' \in D!State /\ disk' \in D!State
      BY <1>t, <3>2, StateUpdates
    <3>4. mem'.joined = mem.joined /\ mem'.delivered = mem.delivered /\ mem'.first = mem.first
      BY <1>t, <3>2 DEF D!State
    <3>5. DutyCounts'
      BY <1>t, <2>1, <3>2, <3>4, CountsKept
    <3> QED BY <1>t, <2>1, <3>3, <3>5, DutiesParts DEF DutyTypes
  <2> QED BY <1>8, <2>2, <2>3 DEF D!Aggregate
<1>9. CASE D!GenerateRadar
  BY <1>1, <1>9, <1>t DEF D!GenerateRadar, D!bounds, D!history, DutyTypes
<1>10. CASE D!PickTask
  <2>1. picked' \in 0..MaxTasks
    <3>1. CASE D!Candidates = {}
      BY <1>10, <1>t, <3>1 DEF D!PickTask
    <3>2. CASE D!Candidates # {}
      <4>1. D!Candidates \in SUBSET (1..MaxTasks)
        BY <1>t, DutyTasks DEF D!Candidates
      <4>2. picked' \in D!Candidates
        BY <1>10, <3>2, <4>1, GreatestTask DEF D!PickTask
      <4> QED BY <4>1, <4>2, AreNumbers
    <3> QED BY <3>1, <3>2
  <2> QED BY <1>1, <1>10, <1>t, <2>1 DEF D!PickTask, D!bounds, D!history, DutyTypes
<1>11. CASE D!AcceptTask
  <2>1. tasks' \in Seq(DutyTask)
    BY <1>2, <1>11, <1>t DEF D!AcceptTask, D!Open
  <2> QED BY <1>1, <1>11, <1>t, <2>1 DEF D!AcceptTask, D!bounds, D!history, DutyTypes
<1>12. CASE D!RunTask
  <2>1. tasks' \in Seq(DutyTask)
    BY <1>2, <1>12 DEF D!RunTask, D!Open
  <2> QED BY <1>1, <1>12, <1>t, <2>1 DEF D!RunTask, D!bounds, D!history, DutyTypes
<1>13. CASE D!FinishTask
  <2>1. tasks' \in Seq(DutyTask)
    BY <1>2, <1>13 DEF D!FinishTask
  <2> QED BY <1>1, <1>13, <1>t, <2>1 DEF D!FinishTask, D!bounds, D!history, DutyTypes
<1>14. CASE D!TaskArrives
  <2>1. D!NewId \in 1..MaxTasks
    BY <1>14, <1>t, NewIdIsNumber, AreNumbers DEF D!TaskArrives
  <2>2. D!Entry(D!NewId, "published") \in DutyTask
    BY <2>1, EntryIsTask
  <2>3. tasks' \in Seq(DutyTask)
    BY <1>14, <1>t, <2>2 DEF D!TaskArrives
  <2> QED BY <1>1, <1>14, <1>t, <2>3 DEF D!TaskArrives, D!bounds, D!history, DutyTypes
<1>15. CASE D!DayPasses
  <2>1. /\ mem' = D!Older(mem) /\ disk' = D!Older(disk) /\ radars' = 0 /\ deathsToday' = 0
        /\ days < MaxDays /\ days' = days + 1
        /\ UNCHANGED <<duty, tasks, picked, radar, deaths, joins, everDelivered>>
    BY <1>15 DEF D!DayPasses
  <2>2. /\ mem' \in D!State /\ disk' \in D!State
        /\ mem'.joined = mem.joined /\ mem'.first = mem.first /\ disk'.first = disk.first
    BY <1>t, <2>1, StateUpdates
  <2>3. DutyTypes'
    BY <1>t, <2>1, <2>2, AreNumbers DEF DutyTypes
  <2>4. joins' \in Nat /\ radars' \in Nat /\ deathsToday' \in Nat
    BY <1>t, <2>1 DEF DutyCounts
  <2>5. joins' <= deaths' + (IF mem'.joined THEN 1 ELSE 0)
    BY <1>t, <2>1, <2>2 DEF DutyCounts
  <2>6. radars' <= deathsToday' + (IF mem'.delivered = "recent" THEN 1 ELSE 0)
    BY <2>1
  <2>7. mem'.first \/ disk'.first => everDelivered'
    BY <1>t, <2>1, <2>2 DEF DutyCounts
  <2> QED BY <2>3, <2>4, <2>5, <2>6, <2>7, DutiesParts DEF DutyCounts
<1>16. CASE D!Die
  <2>1. /\ deaths < MaxDeaths /\ deaths' = deaths + 1 /\ deathsToday' = deathsToday + 1
        /\ mem' = disk /\ duty' = "recover"
        /\ UNCHANGED <<disk, tasks, picked, radar, days, joins, radars, everDelivered>>
    BY <1>16 DEF D!Die
  <2>2. DutyTypes'
    BY <1>t, <2>1, AreNumbers DEF DutyTypes
  <2>3. /\ joins \in Nat /\ radars \in Nat /\ deathsToday \in Nat /\ deaths \in Nat
        /\ joins <= deaths + 1 /\ radars <= deathsToday + 1
    <3>1. deaths \in Nat
      BY <1>t, AreNumbers DEF DutyTypes
    <3> QED BY <1>t, <3>1 DEF DutyCounts
  <2>4. joins' \in Nat /\ radars' \in Nat /\ deathsToday' \in Nat
    BY <2>1, <2>3
  <2>5. joins' <= deaths' + (IF mem'.joined THEN 1 ELSE 0)
    BY <2>1, <2>3
  <2>6. radars' <= deathsToday' + (IF mem'.delivered = "recent" THEN 1 ELSE 0)
    BY <2>1, <2>3
  <2>7. mem'.first \/ disk'.first => everDelivered'
    BY <1>t, <2>1 DEF DutyCounts
  <2> QED BY <2>2, <2>4, <2>5, <2>6, <2>7, DutiesParts DEF DutyCounts
<1>17. CASE UNCHANGED duties
  BY <1>1, <1>17, <1>t DEF duties, DutyTypes
<1> QED BY <1>3, <1>4, <1>5, <1>6, <1>7, <1>8, <1>9, <1>10, <1>11, <1>12, <1>13, <1>14, <1>15, <1>16, <1>17
        DEF D!Next, D!DutyTick

LEMMA DutiesSafe == ASSUME DutiesInv PROVE D!TypeOK /\ ToldOnce
<1>1. joins <= 1 + deaths /\ radars <= 1 + deathsToday
  <2>1. deaths \in Nat
    BY DutiesParts, AreNumbers DEF DutyTypes
  <2> QED BY <2>1, DutiesParts DEF DutyCounts
<1>2. mem.first \/ disk.first => everDelivered
  BY DEF DutiesInv
<1>3. D!TypeOK
  BY DEF DutiesInv
<1> QED BY <1>1, <1>2, <1>3 DEF ToldOnce, D!ToldOnce

-----------------------------------------------------------------------------
(* Identity.                                                                *)
LEMMA IdentityShapes ==
    /\ \A v \in NodeIds : v # None /\ v # I!Empty
    /\ \A m \in Machines : <<m>> # None /\ <<m>> # I!Empty
    /\ I!Empty # None
    /\ \A v \in Seeds : v # None /\ v # I!Empty
<1>0. None \notin Seq(Nat) /\ None \notin Seq(Machines) /\ None \notin {"host"} \X Nat
      /\ None \notin {"id"} \X Machines \X Seq(Nat)
  BY NoneIsNothing
<1>1. I!Empty # None
  <2>1. <<>> \in Seq(Nat)
    OBVIOUS
  <2> QED BY <1>0, <2>1 DEF I!Empty
<1>2. ASSUME NEW m \in Machines PROVE <<m>> # None /\ <<m>> # I!Empty
  <2>1. <<m>> \in Seq(Machines) /\ Len(<<m>>) = 1 /\ Len(<<>>) = 0
    OBVIOUS
  <2> QED BY <1>0, <2>1 DEF I!Empty
<1>3. ASSUME NEW v \in Seeds PROVE v # None /\ v # I!Empty
  <2>1. PICK n \in 0..MaxBoots : v = <<n>>
    BY DEF Seeds
  <2>2. <<n>> \in Seq(Nat) /\ Len(<<n>>) = 1 /\ Len(<<>>) = 0
    BY <2>1
  <2> QED BY <1>0, <2>1, <2>2 DEF I!Empty
<1>4. ASSUME NEW v \in NodeIds PROVE v # None /\ v # I!Empty
  <2>1. CASE v \in {"host"} \X (0..MaxBoots)
    <3>1. v \in {"host"} \X Nat /\ v = <<"host", v[2]>> /\ v[2] \in Nat
      BY <2>1
    <3>2. v # None
      BY <1>0, <3>1
    <3> QED BY <3>1, <3>2 DEF I!Empty
  <2>2. CASE v \in {"id"} \X Machines \X Seeds
    <3>1. v[3] \in Seeds /\ v = <<"id", v[2], v[3]>> /\ v[2] \in Machines
      BY <2>2
    <3>2. PICK n \in 0..MaxBoots : v[3] = <<n>>
      BY <3>1 DEF Seeds
    <3>3. <<n>> \in Seq(Nat)
      BY <3>2
    <3>4. v[3] \in Seq(Nat)
      BY <3>2, <3>3
    <3>5. v \in {"id"} \X Machines \X Seq(Nat)
      BY <3>1, <3>4
    <3>6. v # None
      BY <1>0, <3>5
    <3>7. v # I!Empty
      BY <3>1 DEF I!Empty
    <3> QED BY <3>6, <3>7
  <2> QED BY <2>1, <2>2 DEF NodeIds
<1> QED BY <1>1, <1>2, <1>3, <1>4

LEMMA FileTypes ==
    ASSUME NEW content
    PROVE  (\A f \in I!Files : content[f] \in Value(f) \cup {None, I!Empty}) <=>
             /\ content["node_seed"] \in Seeds \cup {None, I!Empty}
             /\ content["node_id"] \in NodeIds \cup {None, I!Empty}
             /\ content["node_fingerprint"] \in Prints \cup {None, I!Empty}
             /\ content["NODE_ID"] \in NodeIds \cup {None, I!Empty}
             /\ content["agent_keypair"] \in Keys \cup {None, I!Empty}
             /\ content["agent_id"] \in AgentIds \cup {None, I!Empty}
  BY DEF I!Files, Value

(* Lists of writes, joined in the order of the files.                       *)
LEMMA JoinLists ==
    ASSUME NEW s \in Seq(Entry), NEW t \in Seq(Entry), InOrder(s), InOrder(t),
           Before(s, t)
    PROVE  /\ s \o t \in Seq(Entry) /\ InOrder(s \o t)
           /\ Entries(s \o t) = Entries(s) \cup Entries(t)
           /\ Len(s \o t) = Len(s) + Len(t)
<1>1. s \o t \in Seq(Entry) /\ Len(s \o t) = Len(s) + Len(t) /\ DOMAIN (s \o t) = 1..(Len(s) + Len(t))
  OBVIOUS
<1>2. /\ \A i \in DOMAIN s : (s \o t)[i] = s[i] /\ i \in DOMAIN (s \o t)
      /\ \A i \in DOMAIN t : (s \o t)[Len(s) + i] = t[i] /\ Len(s) + i \in DOMAIN (s \o t)
  OBVIOUS
<1>3. \A i \in DOMAIN (s \o t) :
        i \in DOMAIN s \/ (i - Len(s) \in DOMAIN t /\ i > Len(s) /\ (s \o t)[i] = t[i - Len(s)])
  OBVIOUS
<1>4. Entries(s \o t) = Entries(s) \cup Entries(t)
  <2>1. ASSUME NEW w \in Entries(s \o t) PROVE w \in Entries(s) \cup Entries(t)
    <3>1. PICK i \in DOMAIN (s \o t) : w = (s \o t)[i]
      BY DEF Entries
    <3> QED BY <1>2, <1>3, <3>1 DEF Entries
  <2>2. Entries(s) \subseteq Entries(s \o t) /\ Entries(t) \subseteq Entries(s \o t)
    BY <1>2 DEF Entries
  <2> QED BY <2>1, <2>2
<1>5. InOrder(s \o t)
  <2>1. SUFFICES ASSUME NEW i \in DOMAIN (s \o t), NEW j \in DOMAIN (s \o t), i < j
                 PROVE  Goes((s \o t)[i], (s \o t)[j])
    BY DEF InOrder
  <2>2. CASE i \in DOMAIN s /\ j \in DOMAIN s
    BY <1>2, <2>1, <2>2 DEF InOrder
  <2>3. CASE i \in DOMAIN s /\ j \notin DOMAIN s
    <3>1. s[i] \in Entries(s) /\ t[j - Len(s)] \in Entries(t)
      BY <1>3, <2>3 DEF Entries
    <3> QED BY <1>2, <1>3, <2>3, <3>1 DEF Before
  <2>4. CASE i \notin DOMAIN s
    <3>1. i - Len(s) \in DOMAIN t /\ j - Len(s) \in DOMAIN t /\ i - Len(s) < j - Len(s)
      BY <1>1, <1>3, <2>1, <2>4
    <3> QED BY <1>3, <2>1, <2>4, <3>1 DEF InOrder
  <2> QED BY <2>2, <2>3, <2>4
<1> QED BY <1>1, <1>4, <1>5

LEMMA MaybeWrite ==
    ASSUME NEW f \in I!Files, NEW v \in Value(f), NEW there
    PROVE  /\ I!WriteUnless(there, f, v) \in Seq(Entry) /\ InOrder(I!WriteUnless(there, f, v))
           /\ Entries(I!WriteUnless(there, f, v)) = IF there THEN {} ELSE {<<f, v>>}
           /\ Len(I!WriteUnless(there, f, v)) \in {0, 1}
           /\ I!Write(f, v) \in Seq(Entry) /\ InOrder(I!Write(f, v))
           /\ Entries(I!Write(f, v)) = {<<f, v>>} /\ Len(I!Write(f, v)) = 1
<1> DEFINE w == <<f, v>>
<1>1. w \in Entry
  BY DEF Entry
<1> HIDE DEF w
<1>2. <<w>> \in Seq(Entry) /\ InOrder(<<w>>) /\ Entries(<<w>>) = {w} /\ Len(<<w>>) = 1
  BY <1>1 DEF InOrder, Entries
<1>3. <<>> \in Seq(Entry) /\ InOrder(<<>>) /\ Entries(<<>>) = {} /\ Len(<<>>) = 0
  BY DEF InOrder, Entries
<1>4. I!Write(f, v) = <<w>>
  BY DEF I!Write, w
<1>5. I!WriteUnless(there, f, v) = IF there THEN <<>> ELSE <<w>>
  BY <1>4 DEF I!WriteUnless
<1> QED BY <1>2, <1>3, <1>4, <1>5 DEF w

(* The same by one name, for lists given by long expressions.               *)
List(s) == s \in Seq(Entry) /\ InOrder(s)
Joined(s, t) ==
    /\ List(s \o t) /\ Entries(s \o t) = Entries(s) \cup Entries(t)
    /\ Len(s \o t) = Len(s) + Len(t)
LEMMA Join == ASSUME NEW s, NEW t, List(s), List(t), Before(s, t) PROVE Joined(s, t)
  BY JoinLists DEF List, Joined

(* What is written next, and what is left after it. *)
LEMMA NextWrite ==
    ASSUME WritesSound, writes # <<>>
    PROVE  /\ Head(writes) \in Entries(writes) /\ Head(writes) \in Entry
           /\ \A w \in Entries(writes) : w = Head(writes) \/ Goes(Head(writes), w)
           /\ Tail(writes) \in Seq(Entry) /\ InOrder(Tail(writes)) /\ Len(Tail(writes)) <= 7
           /\ Entries(Tail(writes)) \subseteq Entries(writes)
           /\ Entries(writes) \subseteq Entries(Tail(writes)) \cup {Head(writes)}
           /\ \A w \in Entries(Tail(writes)) : Goes(Head(writes), w)
           /\ boot = "booting"
<1>1. writes \in Seq(Entry) /\ InOrder(writes) /\ Len(writes) <= 7 /\ boot = "booting"
  BY DEF WritesSound
<1>2. /\ Len(writes) >= 1 /\ Head(writes) = writes[1] /\ 1 \in DOMAIN writes
      /\ Tail(writes) \in Seq(Entry) /\ DOMAIN Tail(writes) = 1..(Len(writes) - 1)
      /\ \A i \in DOMAIN Tail(writes) : Tail(writes)[i] = writes[i + 1] /\ i + 1 \in DOMAIN writes
      /\ Len(Tail(writes)) = Len(writes) - 1 /\ Len(writes) \in Nat /\ DOMAIN writes = 1..Len(writes)
  BY <1>1
<1>3. \A i \in DOMAIN writes : i = 1 \/ (i - 1 \in DOMAIN Tail(writes) /\ writes[i] = Tail(writes)[i - 1])
  BY <1>2
<1>4. Head(writes) \in Entries(writes) /\ Head(writes) \in Entry
  BY <1>1, <1>2 DEF Entries
<1>5. \A i \in DOMAIN writes : i = 1 \/ Goes(writes[1], writes[i])
  BY <1>1, <1>2 DEF InOrder
<1>6. InOrder(Tail(writes))
  BY <1>1, <1>2 DEF InOrder
<1>7. /\ Entries(Tail(writes)) \subseteq Entries(writes)
      /\ Entries(writes) \subseteq Entries(Tail(writes)) \cup {Head(writes)}
  <2>1. ASSUME NEW w \in Entries(writes) PROVE w \in Entries(Tail(writes)) \cup {Head(writes)}
    <3>1. PICK i \in DOMAIN writes : w = writes[i]
      BY DEF Entries
    <3> QED BY <1>2, <1>3, <3>1 DEF Entries
  <2>2. Entries(Tail(writes)) \subseteq Entries(writes)
    BY <1>2 DEF Entries
  <2> QED BY <2>1, <2>2
<1>8. \A w \in Entries(Tail(writes)) : Goes(Head(writes), w)
  BY <1>2, <1>5 DEF Entries
<1>9. \A w \in Entries(writes) : w = Head(writes) \/ Goes(Head(writes), w)
  BY <1>2, <1>5 DEF Entries
<1> QED BY <1>1, <1>2, <1>4, <1>6, <1>7, <1>8, <1>9

LEMMA NoWrites == Entries(<<>>) = {} /\ <<>> \in Seq(Entry) /\ InOrder(<<>>) /\ Len(<<>>) = 0
  BY DEF Entries, InOrder

(* What the next write is, by file. *)
LEMMA NextValue ==
    ASSUME IdentityInv, writes # <<>>, NEW f0, f0 = Head(writes)[1]
    PROVE  /\ f0 \in I!Files /\ Head(writes)[2] \in Value(f0) /\ boot = "booting"
           /\ Head(writes) = <<f0, Head(writes)[2]>>
           /\ f0 = "node_seed" => Head(writes)[2] = <<boots>>
           /\ f0 = "node_id" =>
                /\ ~Left("node_seed") /\ last.id = None /\ \A u \in used : u[2] # Head(writes)[2]
                /\ Head(writes)[2] = <<"id", machine, file["node_seed"]>>
                /\ I!Read("node_id") = None \/ file["node_seed"] = <<boots>>
           /\ f0 = "node_fingerprint" =>
                /\ ~Left("node_seed") /\ ~Left("node_id") /\ Head(writes)[2] = <<machine>>
                /\ I!Clone => \A u \in used : u[2] # file["node_id"]
           /\ f0 = "NODE_ID" =>
                /\ ~Left("node_seed") /\ ~Left("node_id") /\ ~Left("node_fingerprint")
                /\ Head(writes)[2] = file["node_id"] /\ ~I!Clone
                /\ ~cloned /\ holder # I!Empty => Head(writes)[2] = holder
           /\ f0 = "agent_id" => last.agent = None
<1> DEFINE h == Head(writes)
<1>1. /\ h \in Entries(writes) /\ h \in Entry /\ boot = "booting"
      /\ \A w \in Entries(writes) : w = h \/ Goes(h, w)
  BY NextWrite DEF IdentityInv
<1>2. f0 \in I!Files /\ h[2] \in Value(f0) /\ h = <<f0, h[2]>>
  BY <1>1 DEF Entry
<1> HIDE DEF h
<1>3. h[1] = f0
  BY DEF h
<1>4. Left(f0)
  BY <1>1, <1>3 DEF Left
<1>5. f0 = "node_id" => ~Left("node_seed")
  BY <1>1, <1>3 DEF Left, Goes, Rank
<1>6. f0 = "node_fingerprint" => ~Left("node_seed") /\ ~Left("node_id")
  BY <1>1, <1>3 DEF Left, Goes, Rank
<1>7. f0 = "NODE_ID" => ~Left("node_seed") /\ ~Left("node_id") /\ ~Left("node_fingerprint")
  BY <1>1, <1>3 DEF Left, Goes, Rank
<1>8. f0 = "node_seed" => h[2] = <<boots>>
  BY <1>1, <1>2 DEF IdentityInv, WritesSound, Value
<1>9. ASSUME f0 = "node_id"
      PROVE  /\ last.id = None /\ (\A u \in used : u[2] # h[2])
             /\ h[2] = <<"id", machine, file["node_seed"]>>
             /\ I!Read("node_id") = None \/ file["node_seed"] = <<boots>>
  <2>1. <<"node_id", h[2]>> \in Entries(writes) /\ h[2] \in NodeIds
    BY <1>1, <1>2, <1>9 DEF Value
  <2> QED BY <1>5, <1>9, <2>1 DEF IdentityInv, WritesSound
<1>10. ASSUME f0 = "node_fingerprint"
       PROVE  h[2] = <<machine>> /\ (I!Clone => \A u \in used : u[2] # file["node_id"])
  <2>1. <<"node_fingerprint", h[2]>> \in Entries(writes) /\ h[2] \in Prints
    BY <1>1, <1>2, <1>10 DEF Value
  <2> QED BY <1>4, <1>6, <1>10, <2>1 DEF IdentityInv, WritesSound
<1>11. ASSUME f0 = "NODE_ID"
       PROVE  /\ h[2] = file["node_id"] /\ ~I!Clone
              /\ ~cloned /\ holder # I!Empty => h[2] = holder
  <2>1. <<"NODE_ID", h[2]>> \in Entries(writes) /\ h[2] \in NodeIds
    BY <1>1, <1>2, <1>11 DEF Value
  <2> QED BY <1>7, <1>11, <2>1 DEF IdentityInv, WritesSound
<1>12. f0 = "agent_id" => last.agent = None
  BY <1>4 DEF IdentityInv, WritesSound
<1> QED BY <1>1, <1>2, <1>5, <1>6, <1>7, <1>8, <1>9, <1>10, <1>11, <1>12 DEF h

(* What a write, done or cut short, leaves in the files. *)
LEMMA WriteEffect ==
    ASSUME IdentityInv, writes # <<>>, NEW f0, f0 = Head(writes)[1], NEW x,
           x = Head(writes)[2] \/ (x = I!Empty /\ f0 # "NODE_ID"),
           file' = [file EXCEPT ![f0] = x],
           UNCHANGED <<machine, boots, used, carried, last>>, boot' \in {"booting", "down"}
    PROVE  IdentityTypes' /\ FileSound' /\ UsedSound' /\ LastSound'
<1>1. /\ f0 \in I!Files /\ Head(writes)[2] \in Value(f0) /\ boot = "booting"
      /\ DOMAIN file = I!Files /\ boots \in 0..MaxBoots /\ machine \in Machines
  BY NextValue DEF IdentityInv, IdentityTypes
<1>2. /\ DOMAIN file' = I!Files /\ file'[f0] = x
      /\ \A f \in I!Files : f # f0 => file'[f] = file[f]
  BY <1>1
<1>3. IdentityTypes'
  <2>1. \A f \in I!Files : file'[f] \in Value(f) \cup {None, I!Empty}
    BY <1>1, <1>2 DEF IdentityInv, IdentityTypes
  <2>2. file'["NODE_ID"] # I!Empty
    <3>1. CASE f0 = "NODE_ID"
      <4>1. x \in NodeIds
        BY <1>1, <3>1 DEF Value
      <4> QED BY <1>2, <3>1, <4>1, IdentityShapes
    <3>2. CASE f0 # "NODE_ID"
      BY <1>2, <3>2 DEF IdentityInv, IdentityTypes, I!Files
    <3> QED BY <3>1, <3>2
  <2> QED BY <1>1, <1>2, <2>1, <2>2 DEF IdentityInv, IdentityTypes
<1>4. \A n \in 0..MaxBoots : <<n>> \in Seeds
  BY DEF Seeds
<1>5. CASE f0 = "node_seed"
  <2>1. /\ file'["node_id"] = file["node_id"] /\ file'["agent_id"] = file["agent_id"]
        /\ file'["node_fingerprint"] = file["node_fingerprint"] /\ file'["node_seed"] = x
        /\ x \in {<<boots>>, I!Empty}
    BY <1>2, <1>5, NextValue DEF I!Files
  <2>2. I!Clone' <=> I!Clone
    BY <2>1 DEF I!Clone, I!Read
  <2>3. FileSound'
    <3>1. ASSUME NEW n \in 0..MaxBoots, x = <<n>> PROVE n <= boots
      <4>1. x # I!Empty
        BY <1>4, <3>1, IdentityShapes
      <4>2. <<n>>[1] = <<boots>>[1]
        BY <2>1, <3>1, <4>1
      <4> QED BY <1>1, <4>2
    <3> QED BY <2>1, <3>1 DEF IdentityInv, FileSound
  <2>4. ASSUME NEW u \in used, NEW m \in Machines, u[2] = <<"id", m, x>> PROVE FALSE
    <3>1. u[2] \in NodeIds
      BY DEF IdentityInv, IdentityTypes
    <3>2. u[2] # <<"id", m, <<boots>>>>
      BY <1>1 DEF IdentityInv, UsedSound
    <3>3. u[2] \notin {"host"} \X (0..MaxBoots)
      BY <2>4
    <3>4. x \in Seeds
      BY <2>4, <3>1, <3>3 DEF NodeIds
    <3> QED BY <2>1, <2>4, <3>2, <3>4, IdentityShapes
  <2>5. UsedSound'
    BY <1>1, <2>1, <2>2, <2>4 DEF IdentityInv, UsedSound
  <2>6. LastSound'
    BY <2>1, <2>2 DEF IdentityInv, LastSound
  <2> QED BY <1>3, <2>3, <2>5, <2>6
<1>6. CASE f0 = "node_id"
  <2>1. /\ file'["node_id"] = x /\ file'["agent_id"] = file["agent_id"]
        /\ file'["node_fingerprint"] = file["node_fingerprint"]
        /\ file'["node_seed"] = file["node_seed"]
        /\ x \in {<<"id", machine, file["node_seed"]>>, I!Empty}
        /\ last.id = None /\ \A u \in used : u[2] # Head(writes)[2]
        /\ I!Read("node_id") = None \/ file["node_seed"] = <<boots>>
    BY <1>2, <1>6, NextValue DEF I!Files
  <2>2. x \in NodeIds \/ x = I!Empty
    BY <1>1, <1>6 DEF Value
  <2>3. I!Clone' <=> I!Clone
    BY <2>1 DEF I!Clone, I!Read
  <2>4. ASSUME NEW m \in Machines, NEW n \in 0..MaxBoots PROVE <<"id", m, <<n>>>> \in NodeIds /\ <<"host", n>> \in NodeIds
    BY <1>4 DEF NodeIds
  <2>5. FileSound'
    <3>1. x # None
      BY <2>2, IdentityShapes
    <3>2. ASSUME NEW n \in 0..MaxBoots, x = <<"host", n>> PROVE FALSE
      <4>1. x # I!Empty
        BY <1>1, <2>4, <3>2, IdentityShapes
      <4>2. <<"host", n>>[1] = <<"id", machine, file["node_seed"]>>[1]
        BY <2>1, <3>2, <4>1
      <4> QED BY <4>2
    <3>3. \A m \in Machines, n \in 0..MaxBoots : x = <<"id", m, <<n>>>> => n <= boots
      <4>1. SUFFICES ASSUME NEW m \in Machines, NEW n \in 0..MaxBoots, x = <<"id", m, <<n>>>>
                     PROVE  n <= boots
        OBVIOUS
      <4>2. file["node_seed"] = <<n>>
        BY <2>1, <2>4, <4>1, IdentityShapes
      <4> QED BY <4>2 DEF IdentityInv, FileSound
    <3> QED BY <2>1, <3>1, <3>2, <3>3 DEF IdentityInv, FileSound
  <2>6. ASSUME NEW u \in used, NEW m \in Machines, u[2] = <<"id", m, file["node_seed"]>> PROVE FALSE
    <3>1. file["node_id"] = u[2] /\ u[2] \in NodeIds
      BY <2>6 DEF IdentityInv, UsedSound, IdentityTypes
    <3>2. I!Read("node_id") # None
      BY <3>1, IdentityShapes DEF I!Read
    <3>3. u[2] = <<"id", m, <<boots>>>>
      BY <2>1, <2>6, <3>2
    <3> QED BY <1>1, <3>3 DEF IdentityInv, UsedSound
  <2>7. \A u \in used : u[2] # x
    <3>1. \A u \in used : u[2] \in NodeIds
      BY DEF IdentityInv, IdentityTypes
    <3> QED BY <2>1, <3>1, IdentityShapes
  <2>8. UsedSound'
    BY <1>1, <2>1, <2>6, <2>7 DEF IdentityInv, UsedSound
  <2>9. LastSound'
    BY <2>1 DEF IdentityInv, LastSound
  <2> QED BY <1>3, <2>5, <2>8, <2>9
<1>7. CASE f0 = "node_fingerprint"
  <2>1. /\ file'["node_id"] = file["node_id"] /\ file'["agent_id"] = file["agent_id"]
        /\ file'["node_fingerprint"] = x /\ file'["node_seed"] = file["node_seed"]
        /\ x \in {<<machine>>, I!Empty}
        /\ I!Clone => \A u \in used : u[2] # file["node_id"]
    BY <1>2, <1>7, NextValue DEF I!Files
  <2>2. ~I!Clone'
    BY <2>1 DEF I!Clone, I!Read
  <2>3. FileSound'
    BY <2>1 DEF IdentityInv, FileSound
  <2>4. ASSUME NEW u \in used, u[2] \notin carried, file["node_id"] = u[2] PROVE machine = u[1]
    <3>1. ~I!Clone /\ u[1] \in Machines
      BY <2>1, <2>4 DEF IdentityInv, IdentityTypes
    <3>2. CASE file["node_fingerprint"] = <<u[1]>>
      <4>1. I!Read("node_fingerprint") = <<u[1]>>
        BY <3>1, <3>2, IdentityShapes DEF I!Read
      <4>2. <<u[1]>> = <<machine>>
        BY <3>1, <4>1, IdentityShapes DEF I!Clone
      <4> QED BY <4>2
    <3> QED BY <2>4, <3>2 DEF IdentityInv, UsedSound
  <2>5. UsedSound'
    BY <1>1, <2>1, <2>2, <2>4 DEF IdentityInv, UsedSound
  <2>6. LastSound'
    BY <2>1, <2>2 DEF IdentityInv, LastSound
  <2> QED BY <1>3, <2>3, <2>5, <2>6
<1>8. CASE f0 \in {"NODE_ID", "agent_keypair", "agent_id"}
  <2>1. /\ file'["node_id"] = file["node_id"] /\ file'["node_seed"] = file["node_seed"]
        /\ file'["node_fingerprint"] = file["node_fingerprint"]
        /\ file'["agent_id"] = file["agent_id"] \/ last.agent = None
    BY <1>2, <1>8, NextValue DEF I!Files
  <2>2. I!Clone' <=> I!Clone
    BY <2>1 DEF I!Clone, I!Read
  <2>3. FileSound'
    BY <2>1 DEF IdentityInv, FileSound
  <2>4. UsedSound'
    BY <1>1, <2>1, <2>2 DEF IdentityInv, UsedSound
  <2>5. LastSound'
    BY <2>1, <2>2 DEF IdentityInv, LastSound
  <2> QED BY <1>3, <2>3, <2>4, <2>5
<1> QED BY <1>1, <1>5, <1>6, <1>7, <1>8 DEF I!Files

LEMMA SameFiles ==
    ASSUME IdentityInv, UNCHANGED <<file, machine, boots, used, carried, last>>,
           boot' \in {"down", "started", "booting", "running"},
           boot' \in {"started", "booting"} => boot \in {"started", "booting"}
    PROVE  IdentityTypes' /\ FileSound' /\ UsedSound' /\ LastSound' /\ (I!Clone' <=> I!Clone)
<1>1. IdentityTypes'
  BY DEF IdentityInv, IdentityTypes
<1>2. I!Clone' <=> I!Clone
  BY DEF I!Clone, I!Read
<1>3. FileSound'
  BY DEF IdentityInv, FileSound
<1>4. UsedSound'
  BY <1>2 DEF IdentityInv, UsedSound
<1>5. LastSound'
  BY <1>2 DEF IdentityInv, LastSound
<1> QED BY <1>1, <1>2, <1>3, <1>4, <1>5

(* A start that gives up its writes, or ends. *)
LEMMA Abandon ==
    ASSUME IdentityInv, writes' = <<>>, boot = "booting", boot' \in {"booting", "down"},
           UNCHANGED <<machine, boots, used, carried, last, holder, cloned>>,
           \/ file' = file
           \/ writes # <<>> /\ Head(writes)[1] # "NODE_ID"
                /\ file' = [file EXCEPT ![Head(writes)[1]] = I!Empty]
    PROVE  IdentityInv'
<1>1. IdentityTypes' /\ FileSound' /\ UsedSound' /\ LastSound'
  <2>1. CASE file' = file
    BY <2>1, SameFiles
  <2>2. CASE file' # file
    BY <2>2, WriteEffect
  <2> QED BY <2>1, <2>2
<1>2. WritesSound'
  BY NoWrites DEF WritesSound, Left
<1>3. /\ file'["NODE_ID"] = file["NODE_ID"]
      /\ ~I!Clone => ~I!Clone'
      /\ file["NODE_ID"] # None => file'["node_id"] = file["node_id"]
  <2>1. CASE file' = file
    BY <2>1 DEF I!Clone, I!Read
  <2>2. CASE file' # file
    <3>1. /\ writes # <<>> /\ Head(writes)[1] # "NODE_ID"
          /\ file' = [file EXCEPT ![Head(writes)[1]] = I!Empty] /\ DOMAIN file = I!Files
      BY <2>2 DEF IdentityInv, IdentityTypes
    <3>2. ~I!Clone => ~I!Clone'
      BY <3>1 DEF I!Clone, I!Read, I!Files
    <3>3. file["NODE_ID"] # None => Rank[Head(writes)[1]] = 5
      BY <3>1, NextWrite DEF IdentityInv, StartSound
    <3>4. file["NODE_ID"] # None => Head(writes)[1] # "node_id"
      BY <3>3 DEF Rank
    <3> QED BY <3>1, <3>2, <3>4 DEF I!Files
  <2> QED BY <2>1, <2>2
<1>4. StartSound'
  BY <1>3, NoWrites DEF IdentityInv, StartSound
<1> QED BY <1>1, <1>2, <1>4 DEF IdentityInv

(* A write that is done, or the one of the fingerprint that a start of the  *)
(* same machine can do without.                                             *)
LEMMA Continue ==
    ASSUME IdentityInv, writes # <<>>, NEW f0, f0 = Head(writes)[1], writes' = Tail(writes),
           UNCHANGED <<machine, boots, used, carried, last, holder, cloned, boot>>,
           \/ file' = [file EXCEPT ![f0] = Head(writes)[2]]
           \/ /\ f0 = "node_fingerprint" /\ ~cloned
              /\ file' \in {file, [file EXCEPT ![f0] = I!Empty]}
    PROVE  IdentityInv'
<1> DEFINE h == Head(writes)
<1>1. /\ Entries(writes)' \subseteq Entries(writes)
      /\ Entries(writes) \subseteq Entries(writes)' \cup {h}
      /\ h \in Entries(writes) /\ boot = "booting"
      /\ \A w \in Entries(writes) : w = h \/ Goes(h, w)
      /\ \A w \in Entries(writes)' : Goes(h, w)
      /\ (writes \in Seq(Entry))' /\ InOrder(writes)' /\ (Len(writes) <= 7)'
      /\ \A w \in Entries(writes) : w \in Entry
  <2>1. \A w \in Entries(writes) : w \in Entry
    BY DEF IdentityInv, WritesSound, Entries
  <2> QED BY <2>1, NextWrite DEF IdentityInv
<1>0. machine' = machine
  OBVIOUS
<1>2. /\ f0 \in I!Files /\ h[2] \in Value(f0) /\ h = <<f0, h[2]>> /\ h[1] = f0
      /\ DOMAIN file = I!Files
  BY NextValue DEF IdentityInv, IdentityTypes
<1>3. IdentityTypes' /\ FileSound' /\ UsedSound' /\ LastSound'
  <2>1. CASE file' = file
    BY <1>1, <2>1, SameFiles
  <2>2. CASE file' # file
    BY <1>1, <2>2, WriteEffect
  <2> QED BY <2>1, <2>2
<1>4. /\ \A f \in I!Files : f # f0 => file'[f] = file[f]
      /\ f0 # "node_fingerprint" => file'[f0] = h[2]
  BY <1>2
<1>5. /\ f0 = "node_fingerprint" => ~I!Clone'
      /\ f0 # "node_fingerprint" => (I!Clone' <=> I!Clone)
  <2>1. CASE f0 = "node_fingerprint"
    <3>1. h[2] = <<machine>>
      BY <2>1, NextValue
    <3>2. CASE file' = file
      <4>1. ~I!Clone \/ h[2] = file[f0]
        BY <1>1, <1>2, <2>1, <3>2 DEF IdentityInv, StartSound, I!Files
      <4> QED BY <2>1, <3>1, <3>2, <4>1 DEF I!Clone, I!Read
    <3>3. CASE file'["node_fingerprint"] \in {<<machine>>, I!Empty}
      <4>1. ~I!Clone'
        BY <1>0, <3>3 DEF I!Clone, I!Read
      <4> QED BY <2>1, <4>1
    <3>4. file' = file \/ file'["node_fingerprint"] \in {<<machine>>, I!Empty}
      BY <1>2, <2>1, <3>1
    <3> QED BY <3>2, <3>3, <3>4
  <2>2. CASE f0 # "node_fingerprint"
    BY <1>4, <2>2 DEF I!Clone, I!Read, I!Files
  <2> QED BY <2>1, <2>2
<1>6. /\ \A f \in I!Files : Left(f)' => Left(f)
      /\ \A f \in I!Files : Left(f) => Left(f)' \/ f = f0
      /\ \A f \in I!Files : Left(f)' => Rank[f0] < Rank[f] \/ Rank[f] = 5
      /\ Left(f0)
  BY <1>1, <1>2 DEF Left, Goes
<1>7. \A w \in Entries(writes) : w[1] = f0 /\ Rank[f0] # 5 => w = h
  <2>1. \A f \in I!Files : Rank[f] \in Nat
    BY DEF Rank, I!Files
  <2> QED BY <1>1, <1>2, <2>1 DEF Goes
<1> HIDE DEF h
<1>8. StartSound'
  <2>1. ASSUME file'["NODE_ID"] # None
        PROVE  /\ file'["NODE_ID"] = file'["node_id"] /\ ~I!Clone'
               /\ \A w \in Entries(writes)' : Rank[w[1]] = 5
    <3>1. CASE f0 = "NODE_ID"
      <4>1. h[2] = file["node_id"] /\ ~I!Clone
        BY <3>1, NextValue DEF h
      <4>2. ASSUME NEW w \in Entries(writes)' PROVE Rank[w[1]] = 5
        <5>1. Goes(h, w) /\ h[1] = "NODE_ID"
          BY <1>1, <1>2, <3>1, <4>2
        <5>2. w \in Entry
          BY <1>1, <4>2
        <5>3. w[1] \in I!Files
          BY <5>2 DEF Entry
        <5>4. 4 < Rank[w[1]] \/ Rank[w[1]] = 5
          BY <5>1 DEF Goes, Rank
        <5> QED BY <5>3, <5>4 DEF Rank, I!Files
      <4> QED BY <1>4, <1>5, <3>1, <4>1, <4>2 DEF I!Files
    <3>2. CASE f0 # "NODE_ID"
      <4>1. /\ file["NODE_ID"] # None /\ file["NODE_ID"] = file["node_id"] /\ ~I!Clone
            /\ \A w \in Entries(writes) : Rank[w[1]] = 5
        BY <1>1, <1>4, <2>1, <3>2 DEF IdentityInv, StartSound, I!Files
      <4>2. f0 # "node_id" /\ f0 # "node_fingerprint"
        BY <1>1, <1>2, <4>1 DEF Rank
      <4> QED BY <1>1, <1>4, <1>5, <3>2, <4>1, <4>2 DEF I!Files
    <3> QED BY <3>1, <3>2
  <2>2. ~cloned' => ~I!Clone'
    BY <1>1, <1>5 DEF IdentityInv, StartSound
  <2>3. ~cloned' /\ holder' # I!Empty => file'["NODE_ID"] \in {None, holder'}
    <3>1. CASE f0 = "NODE_ID"
      <4>1. ~cloned /\ holder # I!Empty => h[2] = holder
        BY <3>1, NextValue DEF h
      <4> QED BY <1>4, <3>1, <4>1
    <3>2. CASE f0 # "NODE_ID"
      BY <1>1, <1>4, <3>2 DEF IdentityInv, StartSound, I!Files
    <3> QED BY <3>1, <3>2
  <2> QED BY <1>1, <2>1, <2>2, <2>3 DEF StartSound
<1>9. WritesSound'
  <2>1. \A v \in Seeds : <<"node_seed", v>> \in Entries(writes)' => v = <<boots'>>
    BY <1>1 DEF IdentityInv, WritesSound
  <2>2. \A v \in Prints : <<"node_fingerprint", v>> \in Entries(writes)' => v = <<machine'>>
    BY <1>1 DEF IdentityInv, WritesSound
  <2>3. Left("agent_id")' => last.agent' = None
    BY <1>6 DEF IdentityInv, WritesSound, I!Files
  <2>4. ASSUME NEW v \in NodeIds, <<"node_id", v>> \in Entries(writes)'
        PROVE  /\ v = <<"id", machine, <<boots>>>> /\ file'["node_seed"] = <<boots>> /\ ~Left("node_seed")'
               /\ \A u \in used : u[2] # v
               /\ last.id = None
    <3>1. Left("node_id")'
      BY <2>4 DEF Left
    <3>2. f0 = "node_seed"
      BY <1>2, <1>6, <3>1 DEF Rank, I!Files
    <3>3. h[2] = <<boots>>
      BY <3>2, NextValue DEF h
    <3>4. ~Left("node_seed")'
      BY <1>6, <3>2 DEF Rank, I!Files
    <3>5. v = <<"id", machine, <<boots>>>> /\ (\A u \in used : u[2] # v) /\ last.id = None
      BY <1>1, <1>6, <2>4, <3>2 DEF IdentityInv, WritesSound
    <3> QED BY <1>4, <3>2, <3>3, <3>4, <3>5
  <2>5. ASSUME NEW v \in NodeIds, <<"NODE_ID", v>> \in Entries(writes)'
        PROVE  /\ IF Left("node_id")' THEN <<"node_id", v>> \in Entries(writes)' ELSE file'["node_id"] = v
               /\ Left("node_fingerprint")' \/ ~I!Clone'
               /\ ~cloned /\ holder # I!Empty => v = holder
    <3>1. Left("NODE_ID")'
      BY <2>5 DEF Left
    <3>2. f0 \in {"node_seed", "node_id", "node_fingerprint"}
      BY <1>2, <1>6, <3>1 DEF Rank, I!Files
    <3>3. /\ IF Left("node_id") THEN <<"node_id", v>> \in Entries(writes) ELSE file["node_id"] = v
          /\ Left("node_fingerprint") \/ ~I!Clone
          /\ ~cloned /\ holder # I!Empty => v = holder
      BY <1>1, <2>5 DEF IdentityInv, WritesSound
    <3>4. Left("node_fingerprint")' \/ ~I!Clone'
      BY <1>5, <1>6, <3>3 DEF I!Files
    <3>5. IF Left("node_id")' THEN <<"node_id", v>> \in Entries(writes)' ELSE file'["node_id"] = v
      <4>1. CASE f0 = "node_id"
        <5>1. <<"node_id", v>> \in Entries(writes)
          BY <1>6, <3>3, <4>1
        <5>2. <<"node_id", v>> = h
          BY <1>7, <4>1, <5>1 DEF Rank
        <5>3. h[2] = v /\ ~Left("node_id")'
          BY <1>6, <4>1, <5>2 DEF Rank, I!Files
        <5> QED BY <1>4, <4>1, <5>3
      <4>2. CASE f0 # "node_id"
        <5>1. Left("node_id")' <=> Left("node_id")
          BY <1>6, <4>2 DEF I!Files
        <5>2. <<"node_id", v>> # h
          BY <1>2, <4>2
        <5> QED BY <1>1, <1>4, <3>3, <4>2, <5>1, <5>2 DEF I!Files
      <4> QED BY <4>1, <4>2
    <3> QED BY <3>3, <3>4, <3>5
  <2>6. ASSUME Left("node_fingerprint")', ~Left("node_id")', I!Clone', NEW u \in used
        PROVE  u[2] # file'["node_id"]
    <3>1. f0 \in {"node_seed", "node_id"}
      BY <1>2, <1>6, <2>6 DEF Rank, I!Files
    <3>2. CASE f0 = "node_id"
      BY <1>4, <3>2, NextValue DEF h
    <3>3. CASE f0 = "node_seed"
      <4>1. ~Left("node_id") /\ Left("node_fingerprint") /\ I!Clone /\ file'["node_id"] = file["node_id"]
        BY <1>4, <1>5, <1>6, <2>6, <3>3 DEF I!Files
      <4> QED BY <4>1 DEF IdentityInv, WritesSound
    <3> QED BY <3>1, <3>2, <3>3
  <2> QED BY <1>1, <2>1, <2>2, <2>3, <2>4, <2>5, <2>6 DEF WritesSound
<1> QED BY <1>3, <1>8, <1>9 DEF IdentityInv

LEMMA IdentityInit == ASSUME I!Init PROVE IdentityInv
<1>1. /\ boot = "down" /\ writes = <<>> /\ boots = 0 /\ used = {} /\ carried = {}
      /\ last = [id |-> None, agent |-> None] /\ machine \in Machines
      /\ DOMAIN file = I!Files
      /\ \A f \in I!Files : file[f] = None \/ (f = "node_id" /\ file[f] = <<"host", 0>>)
  BY DEF I!Init
<1>2. 0 \in 0..MaxBoots
  BY AreNumbers
<1>3. /\ file["node_id"] = None \/ file["node_id"] = <<"host", 0>>
      /\ file["node_seed"] = None /\ file["node_fingerprint"] = None /\ file["NODE_ID"] = None
      /\ file["agent_keypair"] = None /\ file["agent_id"] = None
  BY <1>1 DEF I!Files
<1>4. <<"host", 0>> \in NodeIds
  BY <1>2 DEF NodeIds
<1>5. IdentityTypes
  <2>1. \A f \in I!Files : file[f] \in Value(f) \cup {None, I!Empty}
    BY <1>3, <1>4, FileTypes
  <2> QED BY <1>1, <1>2, <1>3, <2>1, IdentityShapes DEF IdentityTypes
<1>6. FileSound
  <2>1. ASSUME NEW n \in 0..MaxBoots
        PROVE  /\ <<n>> \in Seeds /\ <<"host", n>> \in NodeIds
               /\ \A m \in Machines : <<"id", m, <<n>>>> \in NodeIds
    BY DEF Seeds, NodeIds
  <2>2. \A n \in 0..MaxBoots : file["node_seed"] = <<n>> => n <= boots
    BY <1>3, <2>1, IdentityShapes
  <2>3. ASSUME NEW n \in 0..MaxBoots, file["node_id"] = <<"host", n>> PROVE n <= boots
    <3>1. file["node_id"] = <<"host", 0>>
      BY <1>3, <2>1, <2>3, IdentityShapes
    <3>2. <<"host", 0>>[2] = <<"host", n>>[2]
      BY <2>3, <3>1
    <3> QED BY <1>1, <3>2
  <2>4. ASSUME NEW m \in Machines, NEW n \in 0..MaxBoots, file["node_id"] = <<"id", m, <<n>>>> PROVE FALSE
    <3>1. file["node_id"] = <<"host", 0>>
      BY <1>3, <2>1, <2>4, IdentityShapes
    <3>2. <<"host", 0>>[1] = <<"id", m, <<n>>>>[1]
      BY <2>4, <3>1
    <3> QED BY <3>2
  <2> QED BY <1>1, <2>2, <2>3, <2>4 DEF FileSound
<1>7. UsedSound /\ LastSound /\ StartSound
  BY <1>1 DEF UsedSound, LastSound, StartSound
<1>8. WritesSound
  BY <1>1, NoWrites DEF WritesSound, Left
<1> QED BY <1>5, <1>6, <1>7, <1>8 DEF IdentityInv

LEMMA SuperviseStep == ASSUME IdentityInv, I!Supervise PROVE IdentityInv'
<1>1. /\ boot = "down" /\ boot' = "started" /\ boots' = boots + 1 /\ boots < MaxBoots
      /\ UNCHANGED <<machine, writes, cloned, used, carried, last>>
      /\ DOMAIN file = I!Files /\ boots \in 0..MaxBoots /\ boots' \in 0..MaxBoots
  BY AreNumbers DEF I!Supervise, I!setting, I!past, IdentityInv, IdentityTypes
<1>2. /\ DOMAIN file' = I!Files /\ file'["NODE_ID"] = None /\ holder' = file'["node_id"]
      /\ \A f \in I!Files : f \notin {"NODE_ID", "node_id"} => file'[f] = file[f]
      /\ \/ file["node_id"] = None /\ file'["node_id"] = <<"host", boots + 1>>
         \/ file["node_id"] # None /\ file'["node_id"] = file["node_id"]
  BY <1>1 DEF I!Supervise, I!Files
<1>3. /\ file'["node_seed"] = file["node_seed"] /\ file'["agent_id"] = file["agent_id"]
      /\ file'["node_fingerprint"] = file["node_fingerprint"]
      /\ file'["agent_keypair"] = file["agent_keypair"]
  BY <1>2 DEF I!Files
<1>4. I!Clone' <=> I!Clone
  BY <1>1, <1>3 DEF I!Clone, I!Read
<1>5. <<"host", boots + 1>> \in NodeIds
  BY <1>1 DEF NodeIds
<1>6. file["node_id"] = None => used = {} /\ last.id = None
  BY IdentityShapes DEF IdentityInv, FileSound, LastSound
<1>7. file'["node_id"] # None
  BY <1>2, <1>5, IdentityShapes
<1>8. IdentityTypes'
  <2>1. \A f \in I!Files : file[f] \in Value(f) \cup {None, I!Empty}
    BY DEF IdentityInv, IdentityTypes
  <2>2. \A f \in I!Files : file'[f] \in Value(f) \cup {None, I!Empty}
    BY <1>2, <1>3, <1>5, <2>1, FileTypes
  <2> QED BY <1>1, <1>2, <2>2, IdentityShapes DEF IdentityInv, IdentityTypes
<1>9. FileSound'
  <2>1. ASSUME NEW n \in 0..MaxBoots, file'["node_id"] = <<"host", n>> PROVE n <= boots + 1
    <3>1. CASE file["node_id"] = None
      <4>1. <<"host", n>>[2] = <<"host", boots + 1>>[2]
        BY <1>2, <2>1, <3>1
      <4> QED BY <1>1, <4>1
    <3>2. CASE file["node_id"] # None
      <4>1. n <= boots
        BY <1>2, <2>1, <3>2 DEF IdentityInv, FileSound
      <4> QED BY <1>1, <4>1
    <3> QED BY <3>1, <3>2
  <2>2. ASSUME NEW m \in Machines, NEW n \in 0..MaxBoots, file'["node_id"] = <<"id", m, <<n>>>>
        PROVE  n <= boots + 1
    <3>1. CASE file["node_id"] = None
      <4>1. <<"id", m, <<n>>>>[1] = <<"host", boots + 1>>[1]
        BY <1>2, <2>2, <3>1
      <4> QED BY <4>1
    <3>2. CASE file["node_id"] # None
      <4>1. n <= boots
        BY <1>2, <2>2, <3>2 DEF IdentityInv, FileSound
      <4> QED BY <1>1, <4>1
    <3> QED BY <3>1, <3>2
  <2>3. \A n \in 0..MaxBoots : file["node_seed"] = <<n>> => n <= boots + 1
    BY <1>1 DEF IdentityInv, FileSound
  <2> QED BY <1>1, <1>3, <1>7, <2>1, <2>2, <2>3 DEF FileSound
<1>10. UsedSound'
  <2>1. \A u \in used : \A m \in Machines, n \in 0..MaxBoots :
          u[2] = <<"id", m, <<n>>>> => n <= boots + 1 /\ n < boots + 1
    BY <1>1 DEF IdentityInv, UsedSound
  <2>2. used = {} \/ file'["node_id"] = file["node_id"]
    BY <1>2, <1>6
  <2> QED BY <1>1, <1>3, <1>4, <2>1, <2>2 DEF IdentityInv, UsedSound
<1>11. LastSound'
  BY <1>1, <1>2, <1>3, <1>4, <1>6 DEF IdentityInv, LastSound
<1>12. StartSound'
  <2>1. ASSUME file'["node_id"] = <<"host", boots + 1>> PROVE last.id = None
    <3>1. CASE file["node_id"] # None
      BY <1>1, <1>2, <2>1, <3>1 DEF IdentityInv, FileSound
    <3> QED BY <1>6, <3>1
  <2> QED BY <1>1, <1>2, <1>7, <2>1 DEF StartSound
<1>13. WritesSound'
  <2>1. writes' = <<>>
    BY <1>1 DEF IdentityInv, WritesSound
  <2> QED BY <2>1, NoWrites DEF WritesSound, Left
<1> QED BY <1>8, <1>9, <1>10, <1>11, <1>12, <1>13 DEF IdentityInv

LEMMA MoveStep == ASSUME IdentityInv, I!Move PROVE IdentityInv'
<1>1. /\ boot = "down" /\ UNCHANGED <<file, boot, boots, used, writes>>
      /\ machine' \in Machines /\ machine' # machine
      /\ carried' = IF I!HasPrint THEN carried ELSE carried \cup {file["node_id"]}
      /\ last'.id = None /\ last'.agent = last.agent /\ DOMAIN last' = {"id", "agent"}
  BY DEF I!Move, IdentityInv, IdentityTypes
<1>2. IdentityTypes' /\ FileSound'
  BY <1>1 DEF IdentityInv, IdentityTypes, FileSound
<1>3. ASSUME NEW u \in used, u[2] \notin carried', file["node_id"] = u[2]
      PROVE  file["node_fingerprint"] = <<u[1]>>
  <2>1. I!HasPrint /\ u[2] \notin carried
    BY <1>1, <1>3
  <2>2. CASE machine = u[1] /\ ~I!Clone
    BY <2>1, <2>2 DEF I!Clone, I!HasPrint, I!Read
  <2> QED BY <1>3, <2>1, <2>2 DEF IdentityInv, UsedSound
<1>4. UsedSound'
  <2>1. carried \subseteq carried'
    BY <1>1
  <2> QED BY <1>1, <1>3, <2>1 DEF IdentityInv, UsedSound
<1>5. LastSound' /\ StartSound'
  BY <1>1 DEF IdentityInv, LastSound, StartSound
<1>6. WritesSound'
  <2>1. writes' = <<>>
    BY <1>1 DEF IdentityInv, WritesSound
  <2> QED BY <2>1, NoWrites DEF WritesSound, Left
<1> QED BY <1>2, <1>4, <1>5, <1>6 DEF IdentityInv

(* What the bootstrap of a start is going to write.                         *)
LEMMA StartReads ==
    ASSUME IdentityInv
    PROVE  /\ I!Seed \in Seeds /\ I!Derived \in NodeIds /\ <<machine>> \in Prints /\ <<boots>> \in Seeds
           /\ I!Seed = <<boots>> \/ (~I!Clone /\ I!Read("node_seed") # None /\ I!Seed = file["node_seed"])
           /\ I!Read("node_id") # None <=> file["node_id"] \in NodeIds
           /\ I!Read("node_id") # None => I!Read("node_id") = file["node_id"]
           /\ I!Read("node_id") = None => file["node_id"] \in {None, I!Empty} /\ last.id = None
<1>1. /\ machine \in Machines /\ boots \in 0..MaxBoots
      /\ file["node_seed"] \in Seeds \cup {None, I!Empty}
      /\ file["node_id"] \in NodeIds \cup {None, I!Empty}
  BY FileTypes DEF IdentityInv, IdentityTypes
<1>2. <<boots>> \in Seeds /\ <<machine>> \in Prints
  BY <1>1 DEF Seeds, Prints
<1>3. I!Read("node_seed") = None \/ (I!Read("node_seed") \in Seeds /\ I!Read("node_seed") = file["node_seed"])
  BY <1>1 DEF I!Read
<1>4. /\ I!Seed \in Seeds
      /\ I!Seed = <<boots>> \/ (~I!Clone /\ I!Read("node_seed") # None /\ I!Seed = file["node_seed"])
  BY <1>2, <1>3 DEF I!Seed
<1>5. I!Derived \in NodeIds
  BY <1>1, <1>4 DEF I!Derived, NodeIds
<1>6. /\ I!Read("node_id") # None <=> file["node_id"] \in NodeIds
      /\ I!Read("node_id") # None => I!Read("node_id") = file["node_id"]
      /\ I!Read("node_id") = None => file["node_id"] \in {None, I!Empty}
  BY <1>1, IdentityShapes DEF I!Read
<1>7. I!Read("node_id") = None => last.id = None
  BY <1>6, IdentityShapes DEF IdentityInv, LastSound
<1> QED BY <1>2, <1>4, <1>5, <1>6, <1>7

LEMMA IdWritesAre ==
    ASSUME IdentityInv
    PROVE  /\ I!IdWrites \in Seq(Entry) /\ InOrder(I!IdWrites) /\ Len(I!IdWrites) <= 4
           /\ Entries(I!IdWrites) =
                IF I!Clone
                  THEN {<<"node_seed", I!Seed>>, <<"node_id", I!Derived>>,
                        <<"node_fingerprint", <<machine>>>>, <<"NODE_ID", I!Derived>>}
                ELSE IF I!Read("node_id") # None
                  THEN (IF I!HasPrint THEN {} ELSE {<<"node_fingerprint", <<machine>>>>})
                         \cup {<<"NODE_ID", I!Read("node_id")>>}
                ELSE (IF I!Read("node_seed") # None THEN {} ELSE {<<"node_seed", I!Seed>>})
                       \cup {<<"node_id", I!Derived>>}
                       \cup (IF I!HasPrint THEN {} ELSE {<<"node_fingerprint", <<machine>>>>})
                       \cup {<<"NODE_ID", I!Derived>>}
<1> DEFINE Unless(f, v, there) ==
             /\ I!WriteUnless(there, f, v) \in Seq(Entry) /\ InOrder(I!WriteUnless(there, f, v))
             /\ Entries(I!WriteUnless(there, f, v)) = (IF there THEN {} ELSE {<<f, v>>})
             /\ Len(I!WriteUnless(there, f, v)) \in {0, 1}
           Always(f, v) ==
             /\ I!Write(f, v) \in Seq(Entry) /\ InOrder(I!Write(f, v))
             /\ Entries(I!Write(f, v)) = {<<f, v>>} /\ Len(I!Write(f, v)) = 1
<1>1. /\ Unless("node_seed", I!Seed, I!Read("node_seed") # None) /\ Always("node_seed", I!Seed)
      /\ Always("node_id", I!Derived)
      /\ Unless("node_fingerprint", <<machine>>, I!HasPrint) /\ Always("node_fingerprint", <<machine>>)
      /\ Always("NODE_ID", I!Derived)
  <2>1. /\ {"node_seed", "node_id", "node_fingerprint", "NODE_ID"} \subseteq I!Files
        /\ Value("node_seed") = Seeds /\ Value("node_id") = NodeIds
        /\ Value("node_fingerprint") = Prints /\ Value("NODE_ID") = NodeIds
    BY DEF I!Files, Value
  <2>2. /\ I!Seed \in Value("node_seed") /\ I!Derived \in Value("node_id")
        /\ <<machine>> \in Value("node_fingerprint") /\ I!Derived \in Value("NODE_ID")
    BY <2>1, StartReads
  <2>3. Unless("node_seed", I!Seed, I!Read("node_seed") # None) /\ Always("node_seed", I!Seed)
    BY <2>1, <2>2, MaybeWrite
  <2>4. Always("node_id", I!Derived)
    BY <2>1, <2>2, MaybeWrite
  <2>5. Unless("node_fingerprint", <<machine>>, I!HasPrint) /\ Always("node_fingerprint", <<machine>>)
    BY <2>1, <2>2, MaybeWrite
  <2>6. Always("NODE_ID", I!Derived)
    BY <2>1, <2>2, MaybeWrite
  <2> QED BY <2>3, <2>4, <2>5, <2>6
<1>2. I!Read("node_id") # None => Always("NODE_ID", I!Read("node_id"))
  <2>1. "NODE_ID" \in I!Files /\ Value("NODE_ID") = NodeIds
    BY DEF I!Files, Value
  <2> QED BY <2>1, StartReads, MaybeWrite
<1>3. ASSUME NEW v, NEW w, Rank[v[1]] < Rank[w[1]] PROVE Goes(v, w)
  BY <1>3 DEF Goes
<1> HIDE DEF Unless, Always
<1>4. CASE I!Clone
  <2> DEFINE a == I!Write("node_seed", I!Seed)
             b == I!Write("node_id", I!Derived)
             c == I!Write("node_fingerprint", <<machine>>)
             d == I!Write("NODE_ID", I!Derived)
             ab == a \o b
             abc == ab \o c
  <2>1. I!IdWrites = abc \o d
    BY <1>4 DEF I!IdWrites
  <2>2. /\ a \in Seq(Entry) /\ InOrder(a) /\ Entries(a) = {<<"node_seed", I!Seed>>} /\ Len(a) = 1
        /\ b \in Seq(Entry) /\ InOrder(b) /\ Entries(b) = {<<"node_id", I!Derived>>} /\ Len(b) = 1
        /\ c \in Seq(Entry) /\ InOrder(c) /\ Entries(c) = {<<"node_fingerprint", <<machine>>>>} /\ Len(c) = 1
        /\ d \in Seq(Entry) /\ InOrder(d) /\ Entries(d) = {<<"NODE_ID", I!Derived>>} /\ Len(d) = 1
    BY <1>1 DEF Always
  <2> HIDE DEF a, b, c, d
  <2>3. /\ ab \in Seq(Entry) /\ InOrder(ab) /\ Len(ab) = 2
        /\ Entries(ab) = Entries(a) \cup Entries(b)
    <3>1. Before(a, b)
      BY <2>2 DEF Goes, Rank, Before
    <3>2. List(a) /\ List(b)
      BY <2>2 DEF List
    <3>3. Joined(a, b)
      BY <3>1, <3>2, Join
    <3> QED BY <2>2, <3>3 DEF Joined, List
  <2> HIDE DEF ab
  <2>4. /\ abc \in Seq(Entry) /\ InOrder(abc) /\ Len(abc) = 3
        /\ Entries(abc) = Entries(ab) \cup Entries(c)
    <3>1. Before(ab, c)
      BY <2>2, <2>3 DEF Goes, Rank, Before
    <3>2. List(ab) /\ List(c)
      BY <2>2, <2>3 DEF List
    <3>3. Joined(ab, c)
      BY <3>1, <3>2, Join
    <3> QED BY <2>2, <2>3, <3>3 DEF Joined, List
  <2> HIDE DEF abc
  <2>5. /\ abc \o d \in Seq(Entry) /\ InOrder(abc \o d) /\ Len(abc \o d) = 4
        /\ Entries(abc \o d) = Entries(abc) \cup Entries(d)
    <3>1. Before(abc, d)
      BY <2>2, <2>3, <2>4 DEF Goes, Rank, Before
    <3>2. List(abc) /\ List(d)
      BY <2>2, <2>4 DEF List
    <3>3. Joined(abc, d)
      BY <3>1, <3>2, Join
    <3> QED BY <2>2, <2>4, <3>3 DEF Joined, List
  <2>6. Entries(I!IdWrites) = {<<"node_seed", I!Seed>>, <<"node_id", I!Derived>>,
                        <<"node_fingerprint", <<machine>>>>, <<"NODE_ID", I!Derived>>}
    BY <2>1, <2>2, <2>3, <2>4, <2>5
  <2> QED BY <1>4, <2>1, <2>5, <2>6
<1>5. CASE ~I!Clone /\ I!Read("node_id") # None
  <2> DEFINE c == I!WriteUnless(I!HasPrint, "node_fingerprint", <<machine>>)
             d == I!Write("NODE_ID", I!Read("node_id"))
  <2>1. I!IdWrites = c \o d
    BY <1>5 DEF I!IdWrites
  <2>2. /\ c \in Seq(Entry) /\ InOrder(c) /\ Len(c) \in {0, 1}
        /\ Entries(c) = IF I!HasPrint THEN {} ELSE {<<"node_fingerprint", <<machine>>>>}
        /\ d \in Seq(Entry) /\ InOrder(d) /\ Entries(d) = {<<"NODE_ID", I!Read("node_id")>>} /\ Len(d) = 1
    BY <1>1, <1>2, <1>5 DEF Always, Unless
  <2> HIDE DEF c, d
  <2>3. Before(c, d)
    BY <2>2 DEF Goes, Rank, Before
  <2>4. /\ c \o d \in Seq(Entry) /\ InOrder(c \o d) /\ Len(c \o d) <= 4
        /\ Entries(c \o d) = Entries(c) \cup Entries(d)
    <3>1. List(c) /\ List(d)
      BY <2>2 DEF List
    <3>2. Joined(c, d)
      BY <2>3, <3>1, Join
    <3> QED BY <2>2, <3>2 DEF Joined, List
  <2> QED BY <1>5, <2>1, <2>2, <2>4
<1>6. CASE ~I!Clone /\ I!Read("node_id") = None
  <2> DEFINE a == I!WriteUnless(I!Read("node_seed") # None, "node_seed", I!Seed)
             b == I!Write("node_id", I!Derived)
             c == I!WriteUnless(I!HasPrint, "node_fingerprint", <<machine>>)
             d == I!Write("NODE_ID", I!Derived)
             ab == a \o b
             abc == ab \o c
  <2>1. I!IdWrites = abc \o d
    BY <1>6 DEF I!IdWrites
  <2>2. /\ a \in Seq(Entry) /\ InOrder(a) /\ Len(a) \in {0, 1}
        /\ Entries(a) = IF I!Read("node_seed") # None THEN {} ELSE {<<"node_seed", I!Seed>>}
        /\ b \in Seq(Entry) /\ InOrder(b) /\ Entries(b) = {<<"node_id", I!Derived>>} /\ Len(b) = 1
        /\ c \in Seq(Entry) /\ InOrder(c) /\ Len(c) \in {0, 1}
        /\ Entries(c) = IF I!HasPrint THEN {} ELSE {<<"node_fingerprint", <<machine>>>>}
        /\ d \in Seq(Entry) /\ InOrder(d) /\ Entries(d) = {<<"NODE_ID", I!Derived>>} /\ Len(d) = 1
    BY <1>1 DEF Always, Unless
  <2> HIDE DEF a, b, c, d
  <2>3. /\ ab \in Seq(Entry) /\ InOrder(ab) /\ Len(ab) \in {1, 2}
        /\ Entries(ab) = Entries(a) \cup Entries(b)
    <3>1. Before(a, b)
      BY <2>2 DEF Goes, Rank, Before
    <3>2. List(a) /\ List(b)
      BY <2>2 DEF List
    <3>3. Joined(a, b)
      BY <3>1, <3>2, Join
    <3> QED BY <2>2, <3>3 DEF Joined, List
  <2> HIDE DEF ab
  <2>4. /\ abc \in Seq(Entry) /\ InOrder(abc) /\ Len(abc) \in {1, 2, 3}
        /\ Entries(abc) = Entries(ab) \cup Entries(c)
    <3>1. Before(ab, c)
      BY <2>2, <2>3 DEF Goes, Rank, Before
    <3>2. List(ab) /\ List(c)
      BY <2>2, <2>3 DEF List
    <3>3. Joined(ab, c)
      BY <3>1, <3>2, Join
    <3>4. List(ab \o c) /\ Entries(ab \o c) = Entries(ab) \cup Entries(c) /\ Len(ab \o c) = Len(ab) + Len(c)
      BY <3>3 DEF Joined
    <3>5. \A i \in {1, 2}, j \in {0, 1} : i + j \in {1, 2, 3}
      OBVIOUS
    <3>6. Len(ab) \in {1, 2} /\ Len(c) \in {0, 1}
      BY <2>2, <2>3
    <3>7. Len(ab) + Len(c) \in {1, 2, 3}
      BY <3>5, <3>6, Zenon
    <3> QED BY <3>4, <3>7 DEF List
  <2> HIDE DEF abc
  <2>5. /\ abc \o d \in Seq(Entry) /\ InOrder(abc \o d) /\ Len(abc \o d) <= 4
        /\ Entries(abc \o d) = Entries(abc) \cup Entries(d)
    <3>1. Before(abc, d)
      BY <2>2, <2>3, <2>4 DEF Goes, Rank, Before
    <3>2. List(abc) /\ List(d)
      BY <2>2, <2>4 DEF List
    <3>3. Joined(abc, d)
      BY <3>1, <3>2, Join
    <3>4. List(abc \o d) /\ Entries(abc \o d) = Entries(abc) \cup Entries(d) /\ Len(abc \o d) = Len(abc) + Len(d)
      BY <3>3 DEF Joined
    <3>5. \A i \in {1, 2, 3}, j \in {1} : i + j \in {0, 1, 2, 3, 4}
      OBVIOUS
    <3>6. Len(abc) \in {1, 2, 3} /\ Len(d) \in {1}
      BY <2>2, <2>4
    <3>7. Len(abc) + Len(d) \in {0, 1, 2, 3, 4}
      BY <3>5, <3>6, Zenon
    <3> QED BY <3>4, <3>7 DEF List
  <2>6. Entries(I!IdWrites) = Entries(a) \cup Entries(b) \cup Entries(c) \cup Entries(d)
    BY <2>1, <2>3, <2>4, <2>5
  <2> QED BY <1>6, <2>1, <2>2, <2>5, <2>6
<1> QED BY <1>4, <1>5, <1>6

LEMMA AgentWritesAre ==
    ASSUME IdentityInv
    PROVE  /\ I!AgentWrites \in Seq(Entry) /\ InOrder(I!AgentWrites) /\ Len(I!AgentWrites) <= 3
           /\ \A w \in Entries(I!AgentWrites) :
                w[1] \in {"agent_keypair", "agent_id"}
                /\ (w[1] = "agent_id" => I!Read("agent_id") = None)
<1>1. CASE I!AgentId = None
  BY <1>1, NoWrites DEF I!AgentWrites
<1>2. CASE I!AgentId # None
  <2> DEFINE a == I!WriteUnless(I!HasKey \/ I!Read("agent_id") # None \/ mode # "verifiable",
                                "agent_keypair", I!FirstKey)
             b == I!WriteUnless(I!Read("agent_id") # None, "agent_id", I!AgentId)
             c == I!WriteUnless(I!HasKey, "agent_keypair", <<"key", boots, 2>>)
             ab == a \o b
  <2>1. I!AgentWrites = ab \o c
    BY <1>2 DEF I!AgentWrites
  <2>2. /\ "agent_keypair" \in I!Files /\ "agent_id" \in I!Files
        /\ Value("agent_keypair") = Keys /\ Value("agent_id") = AgentIds
    BY DEF I!Files, Value
  <2>3. boots \in 0..MaxBoots /\ I!FirstKey \in Keys /\ <<"key", boots, 2>> \in Keys
    BY DEF IdentityInv, IdentityTypes, Keys, I!FirstKey
  <2>4. I!AgentId \in AgentIds
    <3>1. /\ file["agent_id"] \in AgentIds \cup {None, I!Empty}
          /\ file["agent_keypair"] \in Keys \cup {None, I!Empty}
          /\ file["node_seed"] \in Seeds \cup {None, I!Empty}
      BY FileTypes DEF IdentityInv, IdentityTypes
    <3>2. I!Read("agent_id") \in AgentIds \cup {None}
      BY <3>1 DEF I!Read
    <3>3. I!Read("node_seed") \in Seeds \cup {None}
      BY <3>1 DEF I!Read
    <3>4. I!SeedThen \in Seeds \cup {None}
      BY <3>3, StartReads DEF I!SeedThen
    <3>5. I!HasKey => file["agent_keypair"] \in Keys
      BY <3>1 DEF I!HasKey
    <3>6. I!NewAgentId \in AgentIds \cup {None}
      BY <2>3, <3>4, <3>5 DEF I!NewAgentId, AgentIds
    <3> QED BY <1>2, <3>2, <3>6 DEF I!AgentId
  <2>5. /\ a \in Seq(Entry) /\ InOrder(a) /\ Len(a) \in {0, 1} /\ Entries(a) \subseteq {<<"agent_keypair", I!FirstKey>>}
        /\ b \in Seq(Entry) /\ InOrder(b) /\ Len(b) \in {0, 1}
        /\ Entries(b) = IF I!Read("agent_id") # None THEN {} ELSE {<<"agent_id", I!AgentId>>}
        /\ c \in Seq(Entry) /\ InOrder(c) /\ Len(c) \in {0, 1}
        /\ Entries(c) \subseteq {<<"agent_keypair", <<"key", boots, 2>>>>}
    BY <2>2, <2>3, <2>4, MaybeWrite
  <2> HIDE DEF a, b, c
  <2>6. /\ \A w \in Entries(a) : w[1] = "agent_keypair"
        /\ \A w \in Entries(b) : w[1] = "agent_id" /\ I!Read("agent_id") = None
        /\ \A w \in Entries(c) : w[1] = "agent_keypair"
    BY <2>5
  <2>7. \A v, w : w[1] \in {"agent_keypair", "agent_id"} => Goes(v, w)
    BY DEF Goes, Rank
  <2>8. /\ ab \in Seq(Entry) /\ InOrder(ab) /\ Len(ab) \in {0, 1, 2}
        /\ Entries(ab) = Entries(a) \cup Entries(b)
    <3>1. Before(a, b)
      BY <2>6, <2>7 DEF Before
    <3>2. List(a) /\ List(b)
      BY <2>5 DEF List
    <3>3. Joined(a, b)
      BY <3>1, <3>2, Join
    <3>4. List(a \o b) /\ Entries(a \o b) = Entries(a) \cup Entries(b) /\ Len(a \o b) = Len(a) + Len(b)
      BY <3>3 DEF Joined
    <3>5. \A i \in {0, 1}, j \in {0, 1} : i + j \in {0, 1, 2}
      OBVIOUS
    <3>6. Len(a) \in {0, 1} /\ Len(b) \in {0, 1}
      BY <2>5
    <3>7. Len(a) + Len(b) \in {0, 1, 2}
      BY <3>5, <3>6, Zenon
    <3> QED BY <3>4, <3>7 DEF List
  <2> HIDE DEF ab
  <2>9. /\ ab \o c \in Seq(Entry) /\ InOrder(ab \o c) /\ Len(ab \o c) <= 3
        /\ Entries(ab \o c) = Entries(ab) \cup Entries(c)
    <3>1. Before(ab, c)
      BY <2>6, <2>7 DEF Before
    <3>2. List(ab) /\ List(c)
      BY <2>5, <2>8 DEF List
    <3>3. Joined(ab, c)
      BY <3>1, <3>2, Join
    <3>4. List(ab \o c) /\ Entries(ab \o c) = Entries(ab) \cup Entries(c) /\ Len(ab \o c) = Len(ab) + Len(c)
      BY <3>3 DEF Joined
    <3>5. \A i \in {0, 1, 2}, j \in {0, 1} : i + j \in {0, 1, 2, 3}
      OBVIOUS
    <3>6. Len(ab) \in {0, 1, 2} /\ Len(c) \in {0, 1}
      BY <2>5, <2>8
    <3>7. Len(ab) + Len(c) \in {0, 1, 2, 3}
      BY <3>5, <3>6, Zenon
    <3> QED BY <3>4, <3>7 DEF List
  <2> QED BY <2>1, <2>6, <2>8, <2>9
<1> QED BY <1>1, <1>2

(* A start writes an id that has not run yet, or the one there is.          *)
LEMMA FreshId ==
    ASSUME IdentityInv, boot = "started",
           I!Clone \/ I!Read("node_id") = None
    PROVE  /\ \A u \in used : u[2] # I!Derived
           /\ last.id = None
<1>1. ASSUME NEW u \in used, u[2] = I!Derived PROVE FALSE
  <2>1. u[2] = <<"id", machine, I!Seed>> /\ u[2] \in NodeIds /\ machine \in Machines /\ boots \in 0..MaxBoots
    BY <1>1, StartReads DEF I!Derived, IdentityInv, IdentityTypes
  <2>2. CASE I!Seed = <<boots>>
    BY <2>1, <2>2 DEF IdentityInv, UsedSound
  <2>3. CASE ~I!Clone /\ I!Seed = file["node_seed"]
    <3>1. file["node_id"] = u[2]
      BY <2>1, <2>3 DEF IdentityInv, UsedSound
    <3> QED BY <2>1, <2>3, <3>1, StartReads
  <2> QED BY <2>2, <2>3, StartReads
<1>2. last.id = None
  BY StartReads DEF IdentityInv, LastSound
<1> QED BY <1>1, <1>2

LEMMA BootStep == ASSUME IdentityInv, I!Boot PROVE IdentityInv'
<1> DEFINE list == I!IdWrites \o I!AgentWrites
<1>1. /\ boot = "started" /\ boot' = "booting" /\ writes' = list
      /\ UNCHANGED <<machine, file, holder, boots, used, carried, last>>
      /\ cloned' = I!Clone
  BY DEF I!Boot, I!setting, I!bounds, I!past
<1>2. IdentityTypes' /\ FileSound' /\ UsedSound' /\ LastSound' /\ (I!Clone' <=> I!Clone)
  BY <1>1, SameFiles
<1>3. /\ file["NODE_ID"] = None /\ holder = file["node_id"] /\ holder # None
  BY <1>1 DEF IdentityInv, StartSound
<1>4. StartSound'
  BY <1>1, <1>2, <1>3 DEF StartSound
<1>5. /\ List(list) /\ Len(list) <= 7
      /\ Entries(list) = Entries(I!IdWrites) \cup Entries(I!AgentWrites)
  <2>1. List(I!IdWrites) /\ List(I!AgentWrites)
    BY IdWritesAre, AgentWritesAre DEF List
  <2>2. Before(I!IdWrites, I!AgentWrites)
    BY AgentWritesAre DEF Before, Goes, Rank
  <2>3. Joined(I!IdWrites, I!AgentWrites)
    BY <2>1, <2>2, Join
  <2>4. Len(I!IdWrites) \in Nat /\ Len(I!AgentWrites) \in Nat
    BY <2>1 DEF List
  <2>5. \A i, j \in Nat : i <= 4 /\ j <= 3 => i + j <= 7
    OBVIOUS
  <2>6. Len(I!IdWrites) + Len(I!AgentWrites) <= 7
    BY <2>4, <2>5, IdWritesAre, AgentWritesAre
  <2> QED BY <2>3, <2>6 DEF Joined
<1>6. \A w \in Entries(I!AgentWrites) :
         w[1] \in {"agent_keypair", "agent_id"} /\ (w[1] = "agent_id" => I!Read("agent_id") = None)
  BY AgentWritesAre
<1> DEFINE Has(f) == \E w \in Entries(I!IdWrites) : w[1] = f
<1>7. \A f \in {"node_seed", "node_id", "node_fingerprint", "NODE_ID"} :
        /\ Left(f)' <=> Has(f)
        /\ \A v : <<f, v>> \in Entries(writes)' <=> <<f, v>> \in Entries(I!IdWrites)
  <2>1. Entries(writes)' = Entries(I!IdWrites) \cup Entries(I!AgentWrites)
    BY <1>1, <1>5 DEF Entries
  <2>2. ASSUME NEW f \in {"node_seed", "node_id", "node_fingerprint", "NODE_ID"}, NEW v
        PROVE  <<f, v>> \notin Entries(I!AgentWrites)
    <3>1. <<f, v>>[1] = f
      OBVIOUS
    <3> QED BY <1>6, <3>1
  <2>3. ASSUME NEW f \in {"node_seed", "node_id", "node_fingerprint", "NODE_ID"}
        PROVE  Left(f)' <=> Has(f)
    BY <1>6, <2>1 DEF Left
  <2> QED BY <2>1, <2>2, <2>3
<1>8. Left("agent_id")' => last.agent = None
  <2>1. ASSUME Left("agent_id")' PROVE I!Read("agent_id") = None
    <3>1. PICK w \in Entries(list) : w[1] = "agent_id"
      BY <1>1, <2>1 DEF Left, Entries
    <3>2. w \in Entries(I!IdWrites) => w[1] \in {"node_seed", "node_id", "node_fingerprint", "NODE_ID"}
      BY IdWritesAre
    <3> QED BY <1>5, <1>6, <3>1, <3>2
  <2>2. I!Read("agent_id") = None => last.agent = None
    BY DEF IdentityInv, LastSound, I!Read
  <2> QED BY <2>1, <2>2
<1>9. /\ \A v \in Seeds : <<"node_seed", v>> \in Entries(I!IdWrites) => v = <<boots>>
      /\ \A v \in NodeIds : <<"node_id", v>> \in Entries(I!IdWrites) =>
           /\ v = I!Derived /\ (I!Clone \/ I!Read("node_id") = None)
           /\ IF Has("node_seed") THEN I!Seed = <<boots>> ELSE I!Seed = file["node_seed"]
           /\ I!Read("node_id") = None \/ Has("node_seed")
      /\ \A v \in Prints : <<"node_fingerprint", v>> \in Entries(I!IdWrites) => v = <<machine>>
      /\ \A v \in NodeIds : <<"NODE_ID", v>> \in Entries(I!IdWrites) =>
           /\ IF Has("node_id") THEN <<"node_id", v>> \in Entries(I!IdWrites) ELSE file["node_id"] = v
           /\ Has("node_fingerprint") \/ ~I!Clone
           /\ ~I!Clone /\ holder # I!Empty => v = holder
      /\ I!Clone => Has("node_id")
  <2>1. CASE I!Clone
    <3>1. Entries(I!IdWrites) = {<<"node_seed", I!Seed>>, <<"node_id", I!Derived>>,
                                 <<"node_fingerprint", <<machine>>>>, <<"NODE_ID", I!Derived>>}
      BY <2>1, IdWritesAre
    <3>2. I!Seed = <<boots>>
      BY <2>1 DEF I!Seed
    <3>3. Has("node_seed") /\ Has("node_id") /\ Has("node_fingerprint")
      BY <3>1
    <3> HIDE DEF Has
    <3>4. /\ \A v : <<"node_seed", v>> \in Entries(I!IdWrites) => v = <<boots>>
          /\ \A v : <<"node_id", v>> \in Entries(I!IdWrites) <=> v = I!Derived
          /\ \A v : <<"node_fingerprint", v>> \in Entries(I!IdWrites) => v = <<machine>>
          /\ \A v : <<"NODE_ID", v>> \in Entries(I!IdWrites) => v = I!Derived
      BY <3>1, <3>2
    <3> QED BY <2>1, <3>2, <3>3, <3>4
  <2>2. CASE ~I!Clone /\ I!Read("node_id") # None
    <3>1. /\ Entries(I!IdWrites) \subseteq
               {<<"node_fingerprint", <<machine>>>>, <<"NODE_ID", I!Read("node_id")>>}
          /\ I!Read("node_id") = file["node_id"]
      BY <2>2, IdWritesAre, StartReads
    <3>2. ~Has("node_id") /\ ~Has("node_seed")
      BY <3>1
    <3> HIDE DEF Has
    <3>3. /\ \A v : <<"node_seed", v>> \notin Entries(I!IdWrites) /\ <<"node_id", v>> \notin Entries(I!IdWrites)
          /\ \A v : <<"node_fingerprint", v>> \in Entries(I!IdWrites) => v = <<machine>>
          /\ \A v : <<"NODE_ID", v>> \in Entries(I!IdWrites) => v = file["node_id"]
      BY <3>1
    <3> QED BY <1>3, <2>2, <3>2, <3>3
  <2>3. CASE ~I!Clone /\ I!Read("node_id") = None
    <3>1. Entries(I!IdWrites) =
            (IF I!Read("node_seed") # None THEN {} ELSE {<<"node_seed", I!Seed>>})
              \cup {<<"node_id", I!Derived>>}
              \cup (IF I!HasPrint THEN {} ELSE {<<"node_fingerprint", <<machine>>>>})
              \cup {<<"NODE_ID", I!Derived>>}
      BY <2>3, IdWritesAre
    <3>2. holder = I!Empty
      BY <1>3, <2>3, StartReads
    <3>3. Has("node_id") /\ (Has("node_seed") <=> I!Read("node_seed") = None)
      <4>1. <<"node_id", I!Derived>> \in Entries(I!IdWrites)
        BY <3>1
      <4>2. I!Read("node_seed") = None => <<"node_seed", I!Seed>> \in Entries(I!IdWrites)
        BY <3>1
      <4>3. \A w \in Entries(I!IdWrites) : w[1] = "node_seed" => w = <<"node_seed", I!Seed>>
        BY <3>1
      <4>4. I!Read("node_seed") # None => <<"node_seed", I!Seed>> \notin Entries(I!IdWrites)
        BY <3>1
      <4> QED BY <4>1, <4>2, <4>3, <4>4
    <3>4. IF Has("node_seed") THEN I!Seed = <<boots>> ELSE I!Seed = file["node_seed"]
      BY <2>3, <3>3 DEF I!Seed, I!Read
    <3> HIDE DEF Has
    <3>5. /\ \A v : <<"node_seed", v>> \in Entries(I!IdWrites) => v = I!Seed /\ I!Read("node_seed") = None
          /\ \A v : <<"node_id", v>> \in Entries(I!IdWrites) <=> v = I!Derived
          /\ \A v : <<"node_fingerprint", v>> \in Entries(I!IdWrites) => v = <<machine>>
          /\ \A v : <<"NODE_ID", v>> \in Entries(I!IdWrites) => v = I!Derived
      BY <3>1
    <3> QED BY <2>3, <3>2, <3>3, <3>4, <3>5
  <2> QED BY <2>1, <2>2, <2>3
<1> HIDE DEF Has, list
<1>10. WritesSound'
  <2>1. (writes \in Seq(Entry))' /\ InOrder(writes)' /\ (Len(writes) <= 7)'
    <3>1. list \in Seq(Entry) /\ InOrder(list) /\ Len(list) <= 7
      BY <1>5 DEF List
    <3> QED BY <1>1, <3>1 DEF InOrder
  <2>2. \A v \in Seeds : <<"node_seed", v>> \in Entries(writes)' => v = <<boots'>>
    BY <1>1, <1>7, <1>9
  <2>3. \A v \in Prints : <<"node_fingerprint", v>> \in Entries(writes)' => v = <<machine'>>
    BY <1>1, <1>7, <1>9
  <2>4. ASSUME NEW v \in NodeIds, <<"node_id", v>> \in Entries(writes)'
        PROVE  /\ v = <<"id", machine', IF Left("node_seed")' THEN <<boots'>> ELSE file'["node_seed"]>>
               /\ \A u \in used' : u[2] # v
               /\ last'.id = None
               /\ I!Read("node_id")' = None \/ Left("node_seed")' \/ file'["node_seed"] = <<boots'>>
    <3>1. /\ v = I!Derived /\ (I!Clone \/ I!Read("node_id") = None)
          /\ IF Left("node_seed")' THEN I!Seed = <<boots>> ELSE I!Seed = file["node_seed"]
          /\ I!Read("node_id") = None \/ Left("node_seed")'
      BY <1>7, <1>9, <2>4
    <3>2. I!Read("node_id")' = I!Read("node_id")
      BY <1>1 DEF I!Read
    <3> QED BY <1>1, <3>1, <3>2, FreshId DEF I!Derived
  <2>5. ASSUME NEW v \in NodeIds, <<"NODE_ID", v>> \in Entries(writes)'
        PROVE  /\ IF Left("node_id")' THEN <<"node_id", v>> \in Entries(writes)' ELSE file'["node_id"] = v
               /\ Left("node_fingerprint")' \/ ~I!Clone'
               /\ ~cloned' /\ holder' # I!Empty => v = holder'
    BY <1>1, <1>2, <1>7, <1>9, <2>5
  <2>6. I!Clone' => Left("node_id")'
    BY <1>2, <1>7, <1>9
  <2> QED BY <1>1, <1>8, <2>1, <2>2, <2>3, <2>4, <2>5, <2>6 DEF WritesSound
<1> QED BY <1>2, <1>4, <1>10 DEF IdentityInv

LEMMA WriteNextStep == ASSUME IdentityInv, I!WriteNext PROVE IdentityInv'
<1>1. /\ writes # <<>> /\ writes' = Tail(writes)
      /\ file' = [file EXCEPT ![Head(writes)[1]] = Head(writes)[2]]
      /\ UNCHANGED <<machine, boots, used, carried, last, holder, cloned, boot>>
  BY DEF I!WriteNext, I!setting, I!bounds, I!past
<1> QED BY <1>1, Continue

LEMMA WriteFailsStep == ASSUME IdentityInv, I!WriteFails PROVE IdentityInv'
<1>1. /\ writes # <<>> /\ Head(writes)[1] # "NODE_ID"
      /\ UNCHANGED <<machine, boots, used, carried, last, holder, cloned, boot>>
      /\ file' = file \/ file' = [file EXCEPT ![Head(writes)[1]] = I!Empty]
      /\ writes' = IF Head(writes)[1] = "node_fingerprint" /\ ~cloned THEN Tail(writes) ELSE <<>>
  BY DEF I!WriteFails, I!Cut, I!setting, I!past
<1>2. CASE Head(writes)[1] = "node_fingerprint" /\ ~cloned
  BY <1>1, <1>2, Continue
<1>3. CASE ~(Head(writes)[1] = "node_fingerprint" /\ ~cloned)
  <2>1. boot = "booting"
    BY <1>1, NextWrite DEF IdentityInv
  <2> QED BY <1>1, <1>3, <2>1, Abandon
<1> QED BY <1>2, <1>3

(* A process that ends leaves nothing to do.                                *)
LEMMA Ended ==
    ASSUME IdentityInv, boot' = "down", writes' = <<>>,
           UNCHANGED <<file, machine, boots, used, carried, last>>
    PROVE  IdentityInv'
<1>1. IdentityTypes' /\ FileSound' /\ UsedSound' /\ LastSound'
  BY SameFiles
<1>2. StartSound' /\ WritesSound'
  BY NoWrites DEF StartSound, WritesSound, Left
<1> QED BY <1>1, <1>2 DEF IdentityInv

LEMMA KilledStep == ASSUME IdentityInv, I!Killed PROVE IdentityInv'
<1>1. /\ boot' = "down" /\ writes' = <<>>
      /\ UNCHANGED <<machine, boots, used, carried, last, holder, cloned>>
  BY DEF I!Killed, I!setting, I!past
<1>2. CASE writes # <<>> /\ Head(writes)[1] # "NODE_ID"
  <2>1. boot = "booting"
    BY <1>2, NextWrite DEF IdentityInv
  <2>2. file' = file \/ file' = [file EXCEPT ![Head(writes)[1]] = I!Empty]
    BY <1>2 DEF I!Killed, I!Cut
  <2> QED BY <1>1, <1>2, <2>1, <2>2, Abandon
<1>3. CASE ~(writes # <<>> /\ Head(writes)[1] # "NODE_ID")
  <2>1. CASE file' = file
    BY <1>1, <2>1, Ended
  <2>2. CASE file' # file
    <3>1. /\ boot = "started" /\ file["node_id"] = <<"host", boots>>
          /\ file' = [file EXCEPT !["node_id"] = I!Empty] /\ DOMAIN file = I!Files
          /\ boots \in 0..MaxBoots
      BY <1>3, <2>2 DEF I!Killed, IdentityInv, IdentityTypes
    <3>2. /\ file'["node_id"] = I!Empty /\ file'["node_seed"] = file["node_seed"]
          /\ file'["node_fingerprint"] = file["node_fingerprint"] /\ file'["NODE_ID"] = file["NODE_ID"]
          /\ file'["agent_id"] = file["agent_id"] /\ file'["agent_keypair"] = file["agent_keypair"]
          /\ DOMAIN file' = I!Files
      BY <3>1 DEF I!Files
    <3>3. I!Clone' <=> I!Clone
      BY <1>1, <3>2 DEF I!Clone, I!Read
    <3>4. last.id = None
      BY <3>1 DEF IdentityInv, StartSound
    <3>5. IdentityTypes'
      <4>1. \A f \in I!Files : file[f] \in Value(f) \cup {None, I!Empty}
        BY DEF IdentityInv, IdentityTypes
      <4>2. \A f \in I!Files : file'[f] \in Value(f) \cup {None, I!Empty}
        BY <3>2, <4>1, FileTypes
      <4> QED BY <1>1, <3>2, <4>2 DEF IdentityInv, IdentityTypes
    <3>6. ASSUME NEW m \in Machines, NEW n \in 0..MaxBoots
          PROVE  I!Empty # <<"host", n>> /\ I!Empty # <<"id", m, <<n>>>>
      <4>1. <<"host", n>> \in NodeIds /\ <<"id", m, <<n>>>> \in NodeIds
        BY DEF NodeIds, Seeds
      <4> QED BY <4>1, IdentityShapes
    <3>7. FileSound'
      <4>1. machine \in Machines
        BY DEF IdentityInv, IdentityTypes
      <4> QED BY <1>1, <3>2, <3>6, <4>1, IdentityShapes DEF IdentityInv, FileSound
    <3>8. \A u \in used : \A m \in Machines : u[2] # <<"id", m, file["node_seed"]>> /\ u[2] # I!Empty
      <4>1. SUFFICES ASSUME NEW u \in used, NEW m \in Machines
                     PROVE  u[2] # <<"id", m, file["node_seed"]>> /\ u[2] # I!Empty
        OBVIOUS
      <4>2. u[2] \in NodeIds
        BY DEF IdentityInv, IdentityTypes
      <4>3. ASSUME u[2] = <<"id", m, file["node_seed"]>> PROVE FALSE
        <5>1. <<"host", boots>> = <<"id", m, file["node_seed"]>>
          BY <3>1, <4>3 DEF IdentityInv, UsedSound
        <5>2. <<"host", boots>>[1] = <<"id", m, file["node_seed"]>>[1]
          BY <5>1
        <5> QED BY <5>2
      <4> QED BY <4>2, <4>3, IdentityShapes
    <3>9. UsedSound'
      <4>1. \A u \in used : \A m \in Machines, n \in 0..MaxBoots : u[2] = <<"id", m, <<n>>>> => n <= boots
        BY DEF IdentityInv, UsedSound
      <4>2. \A u \in used : \A m \in Machines : u[2] # <<"id", m, file'["node_seed"]>>
        <5>1. SUFFICES \A u \in used : \A m \in Machines : u[2] # <<"id", m, file["node_seed"]>>
          BY <3>2
        <5> QED BY <3>8
      <4>3. \A u \in used : file'["node_id"] # u[2]
        <5>1. machine \in Machines
          BY DEF IdentityInv, IdentityTypes
        <5>2. \A u \in used : u[2] # I!Empty
          BY <3>8, <5>1
        <5> QED BY <3>2, <5>2
      <4>4. \A u, v \in used : u[2] = v[2] /\ u[1] # v[1] => u[2] \in carried
        BY DEF IdentityInv, UsedSound
      <4> QED BY <1>1, <4>1, <4>2, <4>3, <4>4 DEF UsedSound
    <3>10. LastSound'
      BY <1>1, <3>2, <3>4 DEF IdentityInv, LastSound
    <3>11. StartSound' /\ WritesSound'
      BY <1>1, NoWrites DEF StartSound, WritesSound, Left
    <3> QED BY <3>5, <3>7, <3>9, <3>10, <3>11 DEF IdentityInv
  <2> QED BY <2>1, <2>2
<1> QED BY <1>2, <1>3

LEMMA RunStep ==
    ASSUME IdentityInv, I!Run
    PROVE  IdentityInv' /\ I!KeepsIdentity(last, last')
<1>1. /\ boot = "booting" /\ writes = <<>> /\ writes' = <<>>
      /\ UNCHANGED <<machine, file, holder, cloned, boots>>
  BY DEF I!Run, I!setting, I!bounds
<1>2. CASE holder = I!Empty
  <2>1. boot' = "down" /\ UNCHANGED <<used, carried, last>>
    BY <1>2 DEF I!Run, I!past
  <2> QED BY <1>1, <2>1, Ended DEF I!KeepsIdentity
<1>3. CASE holder # I!Empty
  <2> DEFINE id == file["NODE_ID"]
             agent == I!Read("agent_id")
  <2>1. /\ boot' = "running" /\ carried' = carried
        /\ used' = IF id = None THEN used ELSE used \cup {<<machine, id>>}
        /\ last' = [id |-> IF id = None THEN last.id ELSE id,
                    agent |-> IF agent = None THEN last.agent ELSE agent]
    BY <1>3 DEF I!Run, I!Id
  <2>2. /\ last'.id = (IF id = None THEN last.id ELSE id) /\ DOMAIN last' = {"id", "agent"}
        /\ last'.agent = IF agent = None THEN last.agent ELSE agent
    BY <2>1
  <2>3. id # None => id \in NodeIds /\ file["node_id"] = id /\ ~I!Clone
    <3>1. id \in NodeIds \cup {None, I!Empty} /\ id # I!Empty
      BY FileTypes DEF IdentityInv, IdentityTypes
    <3> QED BY <1>1, <3>1 DEF IdentityInv, StartSound
  <2>4. agent # None => file["agent_id"] = agent /\ agent # I!Empty
    BY DEF I!Read
  <2>5. last.agent # None => agent = last.agent
    BY DEF IdentityInv, LastSound, I!Read
  <2> HIDE DEF id, agent
  <2>6. I!Clone' <=> I!Clone
    BY <1>1 DEF I!Clone, I!Read
  <2>7. machine \in Machines /\ boots \in 0..MaxBoots /\ used \subseteq Machines \X NodeIds
    BY DEF IdentityInv, IdentityTypes
  <2>8. IdentityTypes'
    <3>1. used' \subseteq Machines \X NodeIds
      BY <2>1, <2>3, <2>7
    <3> QED BY <1>1, <2>1, <2>2, <3>1 DEF IdentityInv, IdentityTypes
  <2>9. FileSound'
    <3>1. file["node_id"] = None => used' = {}
      BY <2>1, <2>3, IdentityShapes DEF IdentityInv, FileSound
    <3> QED BY <1>1, <3>1 DEF IdentityInv, FileSound
  <2>10. \A u \in used' : u \in used \/ (id # None /\ u = <<machine, id>>)
    BY <2>1
  <2>11. UsedSound'
    <3>1. ASSUME NEW u \in used', NEW m \in Machines, NEW n \in 0..MaxBoots, u[2] = <<"id", m, <<n>>>>
          PROVE  n <= boots
      <4>1. CASE u \in used
        BY <3>1, <4>1 DEF IdentityInv, UsedSound
      <4>2. CASE id # None /\ u = <<machine, id>>
        BY <2>3, <3>1, <4>2 DEF IdentityInv, FileSound
      <4> QED BY <2>10, <4>1, <4>2
    <3>2. ASSUME NEW u \in used', NEW m \in Machines, u[2] = <<"id", m, file["node_seed"]>>
          PROVE  file["node_id"] = u[2]
      <4>1. CASE u \in used
        BY <3>2, <4>1 DEF IdentityInv, UsedSound
      <4>2. CASE id # None /\ u = <<machine, id>>
        BY <2>3, <4>2
      <4> QED BY <2>10, <4>1, <4>2
    <3>3. ASSUME NEW u \in used', u[2] \notin carried, file["node_id"] = u[2]
          PROVE  (machine = u[1] /\ ~I!Clone) \/ file["node_fingerprint"] = <<u[1]>>
      <4>1. CASE u \in used
        BY <3>3, <4>1 DEF IdentityInv, UsedSound
      <4>2. CASE id # None /\ u = <<machine, id>>
        BY <2>3, <4>2
      <4> QED BY <2>10, <4>1, <4>2
    <3>4. ASSUME NEW u \in used, id # None, u[2] = id, u[1] # machine PROVE id \in carried
      <4>1. SUFFICES ASSUME id \notin carried PROVE FALSE
        OBVIOUS
      <4>2. file["node_fingerprint"] = <<u[1]>> /\ u[1] \in Machines
        BY <2>3, <2>7, <3>4, <4>1 DEF IdentityInv, UsedSound
      <4>3. I!Read("node_fingerprint") = <<u[1]>> /\ <<u[1]>> # None
        BY <4>2, IdentityShapes DEF I!Read
      <4>4. <<u[1]>> = <<machine>>
        BY <2>3, <3>4, <4>3 DEF I!Clone
      <4> QED BY <3>4, <4>4
    <3>5. ASSUME NEW u \in used', NEW v \in used', u[2] = v[2], u[1] # v[1] PROVE u[2] \in carried
      <4>1. CASE u \in used /\ v \in used
        BY <3>5, <4>1 DEF IdentityInv, UsedSound
      <4>2. CASE u \in used /\ id # None /\ v = <<machine, id>>
        BY <3>4, <3>5, <4>2
      <4>3. CASE v \in used /\ id # None /\ u = <<machine, id>>
        BY <3>4, <3>5, <4>3
      <4>4. CASE u = <<machine, id>> /\ v = <<machine, id>>
        BY <3>5, <4>4
      <4> QED BY <2>10, <4>1, <4>2, <4>3, <4>4
    <3> QED BY <1>1, <2>1, <2>6, <3>1, <3>2, <3>3, <3>5 DEF UsedSound
  <2>12. LastSound'
    BY <1>1, <2>2, <2>3, <2>4, <2>6 DEF IdentityInv, LastSound
  <2>13. StartSound'
    BY <1>1, <1>3, <2>1 DEF IdentityInv, StartSound
  <2>14. WritesSound'
    BY <1>1, NoWrites DEF WritesSound, Left
  <2>15. I!KeepsIdentity(last, last')
    <3>1. last.id # None /\ id # None => id = last.id
      BY <2>3 DEF IdentityInv, LastSound
    <3> QED BY <2>2, <2>5, <3>1 DEF I!KeepsIdentity
  <2> QED BY <2>8, <2>9, <2>11, <2>12, <2>13, <2>14, <2>15 DEF IdentityInv
<1> QED BY <1>2, <1>3

LEMMA IdentitySafe == ASSUME IdentityInv PROVE I!TypeOK /\ I!OneMachinePerId
<1>1. I!TypeOK
  BY DEF IdentityInv, IdentityTypes, WritesSound, I!TypeOK
<1>2. ASSUME boot = "running", I!Id # holder PROVE cloned
  BY <1>2 DEF IdentityInv, StartSound, I!Id
<1>3. \A u, v \in used : u[2] = v[2] /\ u[1] # v[1] => u[2] \in carried
  BY DEF IdentityInv, UsedSound
<1> QED BY <1>1, <1>2, <1>3 DEF I!OneMachinePerId

(* Every step keeps the invariant, and the ids of the last life on this     *)
(* machine.                                                                 *)
LEMMA IdentityStep ==
    ASSUME IdentityInv, [I!Next]_identity
    PROVE  IdentityInv' /\ I!KeepsIdentity(last, last')
<1>1. CASE UNCHANGED identity
  <2>1. UNCHANGED <<machine, file, boot, writes, holder, cloned, boots, used, carried, last>>
    BY <1>1 DEF identity
  <2>2. IdentityInv'
    BY <2>1 DEF IdentityInv, IdentityTypes, FileSound, UsedSound, LastSound, StartSound, WritesSound,
         I!Clone, I!Read, Left, Entries, InOrder
  <2> QED BY <2>1, <2>2 DEF I!KeepsIdentity
<1>2. CASE I!Run
  BY <1>2, RunStep
<1>3. CASE I!Move
  <2>1. last'.id = None /\ last'.agent = last.agent
    BY <1>3 DEF I!Move, IdentityInv, IdentityTypes
  <2> QED BY <1>3, <2>1, MoveStep DEF I!KeepsIdentity
<1>4. CASE I!Supervise \/ I!Boot \/ I!WriteNext \/ I!WriteFails \/ I!Killed \/ I!Stop
  <2>1. last' = last
    BY <1>4 DEF I!Supervise, I!Boot, I!WriteNext, I!WriteFails, I!Killed, I!Stop, I!past
  <2>2. I!KeepsIdentity(last, last')
    BY <2>1 DEF I!KeepsIdentity
  <2>3. CASE I!Stop
    <3>1. /\ boot' = "down" /\ writes' = writes /\ boot = "running"
          /\ UNCHANGED <<file, machine, boots, used, carried, last>>
      BY <2>3 DEF I!Stop, I!setting, I!bounds, I!past
    <3>2. writes = <<>>
      BY <3>1 DEF IdentityInv, WritesSound
    <3> QED BY <2>2, <3>1, <3>2, Ended
  <2> QED BY <1>4, <2>2, <2>3, SuperviseStep, BootStep, WriteNextStep, WriteFailsStep, KilledStep
<1> QED BY <1>1, <1>2, <1>3, <1>4 DEF I!Next

-----------------------------------------------------------------------------
(* All parts: the one that runs takes a step of its own, and the others     *)
(* take none.                                                               *)
Inv ==
    /\ RemoteInv /\ DutiesInv /\ UpgradeInv /\ IdentityInv
    /\ MarketInv /\ BooksInv /\ PricingInv /\ DialogueInv /\ AcquaintanceInv
    /\ LifecycleInv /\ SupervisionInv

LEMMA StepOfParts ==
    ASSUME [Next]_vars
    PROVE  /\ [R!Next]_remote /\ [D!Next]_duties /\ [U!Next]_upgrade /\ [I!Next]_identity
           /\ [M!Next]_market /\ [S!Next]_pricing /\ [G!Next]_dialogue /\ [A!Next]_acquaintance
           /\ [L!Next]_lifecycle /\ [V!Next]_supervision
<1>1. CASE UNCHANGED vars
  BY <1>1 DEF vars, work, society, life
<1>2. CASE RemoteRuns /\ R!Next
  BY <1>2 DEF RemoteRuns, WorkRuns, society, life
<1>3. CASE DutiesRun /\ D!Next
  BY <1>3 DEF DutiesRun, WorkRuns, society, life
<1>4. CASE UpgradeRuns /\ U!Next
  BY <1>4 DEF UpgradeRuns, WorkRuns, society, life
<1>5. CASE IdentityRuns /\ I!Next
  BY <1>5 DEF IdentityRuns, WorkRuns, society, life
<1>6. CASE MarketRuns /\ M!Next
  BY <1>6 DEF MarketRuns, SocietyRuns, work, life
<1>7. CASE PricingRuns /\ S!Next
  BY <1>7 DEF PricingRuns, SocietyRuns, work, life
<1>8. CASE DialogueRuns /\ G!Next
  BY <1>8 DEF DialogueRuns, SocietyRuns, work, life
<1>9. CASE AcquaintanceRuns /\ A!Next
  BY <1>9 DEF AcquaintanceRuns, SocietyRuns, work, life
<1>10. CASE LifecycleRuns /\ L!Next
  BY <1>10 DEF LifecycleRuns, LifeRuns, work, society
<1>11. CASE SupervisionRuns /\ V!Next
  BY <1>11 DEF SupervisionRuns, LifeRuns, work, society
<1> QED BY <1>1, <1>2, <1>3, <1>4, <1>5, <1>6, <1>7, <1>8, <1>9, <1>10, <1>11 DEF Next

LEMMA InitInv == ASSUME Init PROVE Inv
<1>1. RemoteInv /\ DutiesInv /\ UpgradeInv /\ IdentityInv
  BY RemoteInit, DutiesInit, UpgradeInit, IdentityInit DEF Init
<1>2. MarketInv /\ BooksInv /\ PricingInv /\ DialogueInv /\ AcquaintanceInv
  BY MarketInit, BooksInit, PricingInit, DialogueInit, AcquaintanceInit DEF Init
<1>3. LifecycleInv /\ SupervisionInv
  BY LifecycleInit, SupervisionInit DEF Init
<1> QED BY <1>1, <1>2, <1>3 DEF Inv

LEMMA StepInv == ASSUME Inv, [Next]_vars PROVE Inv'
<1>1. RemoteInv' /\ DutiesInv' /\ UpgradeInv' /\ IdentityInv'
  BY StepOfParts, RemoteStep, DutiesStep, UpgradeStep, IdentityStep DEF Inv
<1>2. MarketInv' /\ BooksInv' /\ PricingInv' /\ DialogueInv' /\ AcquaintanceInv'
  BY StepOfParts, MarketStep, BooksStep, PricingStep, DialogueStep, AcquaintanceStep DEF Inv
<1>3. LifecycleInv' /\ SupervisionInv'
  BY StepOfParts, LifecycleStep, SupervisionStep DEF Inv
<1> QED BY <1>1, <1>2, <1>3 DEF Inv

(* The inductive invariant holds of every behaviour of every part. *)
THEOREM Invariance == Spec => []Inv
<1>1. Init => Inv
  BY InitInv
<1>2. Inv /\ [Next]_vars => Inv'
  BY StepInv
<1> QED BY <1>1, <1>2, PTL DEF Spec

(* Type correctness of every part, for any nodes, versions, offers, pids    *)
(* and bounds.                                                              *)
THEOREM TypeCorrect == Spec => []TypesOK
<1>1. Inv => R!TypeOK /\ D!TypeOK /\ U!TypeOK /\ I!TypeOK
  BY DutiesSafe, IdentitySafe DEF Inv, RemoteInv, UpgradeInv
<1>2. Inv => M!TypeOK /\ S!TypeOK /\ G!TypeOK /\ A!TypeOK /\ L!TypeOK /\ V!TypeOK
  BY DEF Inv, MarketInv, MarketTypes, PricingInv, DialogueInv, AcquaintanceInv, LifecycleInv,
     SupervisionInv
<1>3. Inv => TypesOK
  BY <1>1, <1>2 DEF TypesOK
<1> QED BY <1>3, Invariance, PTL

(* Remote execution: whatever the transport loses or doubles, over however  *)
(* many tries of one call, and whatever the end of a friendship between.    *)
THEOREM CapabilitiesRunOnce == Spec => []RunsForFriendsOnce
<1>1. Inv => RunsForFriendsOnce
  BY DEF Inv, RemoteInv
<1> QED BY <1>1, Invariance, PTL

(* Daily duties, for any number of tasks, days and deaths: every repeated   *)
(* notice is the one that a death between send and save left unsaved.       *)
THEOREM OwnerIsToldOnce == Spec => []ToldOnce
<1>1. Inv => ToldOnce
  BY DutiesSafe DEF Inv
<1> QED BY <1>1, Invariance, PTL

(* Upgrade, for any versions, any set of bad ones and any number of kills   *)
(* between two of its steps.                                                *)
THEOREM UpgradesAreSafe == Spec => []UpgradeSafe
<1>1. Inv => UpgradeSafe
  BY UpgradeIsSafe DEF Inv
<1> QED BY <1>1, Invariance, PTL

(* Identity: writes fail, starts are killed between any two of them, and    *)
(* the workspace moves among any number of machines.                        *)
THEOREM IdentityIsKept == Spec => KeepsIdentity
<1>1. Inv => I!OneMachinePerId
  BY IdentitySafe DEF Inv
<1>2. Inv /\ [Next]_vars => [I!KeepsIdentity(last, last')]_vars
  BY StepOfParts, IdentityStep DEF Inv
<1> QED BY <1>1, <1>2, Invariance, PTL DEF Spec, KeepsIdentity

(* The market, for any number of pickers and offers. *)
THEOREM MarketIsFair == Spec => []MarketFair
<1>1. Inv => MarketFair
  BY DEF Inv, MarketInv, MarketFair
<1> QED BY <1>1, Invariance, PTL

(* The books of the market, for ledgers of any length: what a source gives  *)
(* in one process stays within its cap, and an index is the sum of its      *)
(* ledger whenever nobody is posting and no crash left it behind.           *)
THEOREM BooksAreBalanced == Spec => []BooksBalance
<1>1. Inv => BooksBalance
  <2> SUFFICES ASSUME Inv PROVE M!BooksBalance
    BY DEF BooksBalance
  <2>1. ASSUME alone, \A p \in Pickers : doing[p] \in M!Waits, NEW l \in M!Ledgers \ behind
        PROVE  index[l] = [a \in M!Accounts |-> M!SumOf(l, a)]
    <3>1. \A p \in Pickers : ~AtIndex(p, l)
      BY <2>1, PostStages DEF AtIndex, M!Waits, M!Ledgers
    <3> QED BY <2>1, <3>1 DEF Inv, BooksInv, IndexFollows, Sums
  <2> QED BY <2>1 DEF M!BooksBalance, Inv, BooksInv, CapHeld
<1> QED BY <1>1, Invariance, PTL

(* Strategy, for any history of rewards. *)
THEOREM StrategyIsReversible == Spec => []Reversible
<1>1. Inv => Reversible
  BY DEF Inv, PricingInv
<1> QED BY <1>1, Invariance, PTL

(* Dialogues, for any number of them, with both sides started again between *)
(* any two turns.                                                           *)
THEOREM DialoguesAreSound == Spec => []DialogueSound
<1>1. Inv => DialogueSound
  BY DEF Inv, DialogueInv
<1> QED BY <1>1, Invariance, PTL

(* Daemons, for any pids, starters and deaths. *)
THEOREM OneDaemonRuns == Spec => []OneDaemon
<1>1. Inv => OneDaemon
  BY SupervisionSafe DEF Inv
<1> QED BY <1>1, Invariance, PTL

(* The friendship writer: whichever flows overlap, what falls was saved by  *)
(* an update that had read the file before another one saved it.            *)
THEOREM NothingIsUnlearned == Spec => NothingUnlearned
<1>1. Inv /\ [Next]_vars => [A!NothingUnlearned]_vars
  BY StepOfParts, AcquaintanceStep DEF Inv
<1> QED BY <1>1, Invariance, PTL DEF Spec, NothingUnlearned

(* Tasks: for any nodes that create, sync, claim, run, crash and recover. *)
THEOREM CompletedStaysCompleted == Spec => NeverReopened
<1>1. Inv /\ [Next]_vars => [\A n \in Nodes : L!NeverReopened(n)]_vars
  BY StepOfParts, LifecycleStep DEF Inv
<1> QED BY <1>1, Invariance, PTL DEF Spec, NeverReopened
=============================================================================
