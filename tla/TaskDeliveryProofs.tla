-------------------------- MODULE TaskDeliveryProofs --------------------------
(***************************************************************************)
(* Proofs about TaskDelivery, for any peers, tasks, attempts, handlers and *)
(* environments.  DeliverySound speaks of the file only; Inv speaks of     *)
(* every copy of the table that may be written to it.  Truth holds however *)
(* updates overlap: each copy, of the tick or of a handler, claims only    *)
(* what happened, and so does each ACK in transit.  Serial holds where     *)
(* they do not: the copy about to be saved differs from the file by one    *)
(* change, and an attempt is counted in the file before it is made.        *)
(***************************************************************************)
EXTENDS TaskDelivery, FiniteSetTheorems, TLAPS

Tables == [Tasks -> Entries]
Ops == {"create", "other", "ack", "result"}

Types ==
    /\ TypeOK
    /\ env \in Envs /\ targets \in SUBSET Peers
    /\ stored \in [Peers -> SUBSET Tasks]
    /\ \A u \in held : /\ u.op \in Ops /\ u.task \in Tasks
                       /\ u.op = "ack" => u.peer \in Peers

(* What an entry d for task t says of the peers, whose stored tasks are st, *)
(* is true.  Its targets are those of the environment unless a restart may  *)
(* change them, and without a delivery state it says nothing.               *)
Honest(d, t, st, e) ==
    /\ \A p \in d.acked : t \in st[p]
    /\ ~d.on => d.acked = {} /\ d.attempts = 0 /\ ~d.complete
    /\ "retarget" \notin e.may =>
         /\ d.on => d.targets = e.targets
         /\ d.complete => \A p \in e.targets : t \in st[p]

HonestTable(tab, st, e) == \A t \in Tasks : Honest(tab[t], t, st, e)

Truth ==
    /\ HonestTable(disk, stored, env) /\ HonestTable(snap, stored, env)
    /\ \A u \in held : /\ HonestTable(u.snap, stored, env)
                       /\ u.op = "ack" => u.task \in stored[u.peer]
    /\ \A m \in net : m.kind = "ack" => m.task \in stored[m.peer]
    /\ ~May("retarget") => targets = env.targets
    /\ pc \notin {"idle", "visit"} => snap[pos].on

(* Equal but for the targets and the two flags. *)
Same(d, e) ==
    d.status = e.status /\ d.on = e.on /\ d.acked = e.acked /\ d.attempts = e.attempts

(* The first n tasks of the table are there. *)
Prefix(tab, n) == \A t \in Tasks : tab[t].status # "absent" <=> t <= n

Loaded(u) ==
    /\ pc = "idle" /\ u.snap = disk
    /\ u.op = "create" => Prefix(disk, u.task - 1)
    /\ u.op \in {"ack", "result"} => disk[u.task].status # "absent"

InStep ==
    /\ pc # "idle" => \A t \in Tasks \ {pos} : Same(snap[t], disk[t])
    /\ pc \in {"visit", "examine", "save-end", "send", "next"} => Same(snap[pos], disk[pos])
    /\ pc = "save-new" => /\ ~disk[pos].on /\ snap[pos].attempts = 0
                          /\ snap[pos].status = "published" /\ disk[pos].status = "published"
    /\ pc = "save-try" => Same(snap[pos], Counted(disk[pos]))
    /\ pc = "send" => rounds[pos] < disk[pos].attempts

Serial ==
    /\ \A u, v \in held : u = v
    /\ \A u \in held : Loaded(u)
    /\ \E n \in 0..LastTask : Prefix(disk, n)
    /\ \A t \in Tasks : rounds[t] <= disk[t].attempts
    /\ \A t \in Tasks : disk[t].on => disk[t].status # "absent"
    /\ InStep

Facts == Types /\ Truth
Inv == Facts /\ (~May("overlap") => Serial)

-----------------------------------------------------------------------------
LEMMA EmptyHonest ==
    /\ Absent \in Entries /\ Empty \in Tables
    /\ \A st, e : HonestTable(Empty, st, e)
<1>1. Absent \in Entries
  BY TaskDeliveryAssumption DEF Absent, Entries
<1> QED BY <1>1 DEF Empty, Tables, HonestTable, Honest, Absent

LEMMA EnvType == \A e \in Envs : /\ e.targets \in SUBSET Peers /\ e.tasks \in 1..LastTask
                                 /\ e.may \in SUBSET {"loss", "overlap", "crash", "retarget"}
  BY TaskDeliveryAssumption

(* Changing one entry of an honest table to an honest one. *)
LEMMA PutHonest ==
    ASSUME NEW tab \in Tables, NEW t \in Tasks, NEW d \in Entries, NEW st, NEW e,
           HonestTable(tab, st, e), Honest(d, t, st, e)
    PROVE  [tab EXCEPT ![t] = d] \in Tables /\ HonestTable([tab EXCEPT ![t] = d], st, e)
  BY DEF Tables, HonestTable

(* What was true stays true when the peers store more. *)
LEMMA HonestGrows ==
    ASSUME NEW tab \in Tables, NEW st, NEW more, NEW e \in Envs, HonestTable(tab, st, e),
           \A p \in Peers : st[p] \subseteq more[p]
    PROVE  HonestTable(tab, more, e)
<1>1. ASSUME NEW t \in Tasks PROVE Honest(tab[t], t, more, e)
  <2>1. tab[t].acked \subseteq Peers /\ e.targets \subseteq Peers
    BY EnvType DEF Tables, Entries
  <2> QED BY <2>1 DEF HonestTable, Honest
<1> QED BY <1>1 DEF HonestTable

(* A new delivery claims nothing; a refreshed list of targets is the one of *)
(* the environment, unless it may change; counting and giving up claim      *)
(* nothing of the peers.                                                    *)
LEMMA TickEntries ==
    ASSUME NEW d \in Entries, NEW t \in Tasks, NEW st, NEW e \in Envs, NEW list \in SUBSET Peers,
           Honest(d, t, st, e), "retarget" \notin e.may => list = e.targets
    PROVE  /\ LET n == [Absent EXCEPT !.status = "published", !.on = TRUE, !.targets = list]
              IN n \in Entries /\ Honest(n, t, st, e)
           /\ LET n == [d EXCEPT !.targets = list]
              IN n \in Entries /\ (d.on => Honest(n, t, st, e))
           /\ CanTry(d) /\ d.on => Counted(d) \in Entries /\ Honest(Counted(d), t, st, e)
           /\ LET n == [d EXCEPT !.incomplete = TRUE] IN n \in Entries /\ Honest(n, t, st, e)
           /\ LET n == [d EXCEPT !.complete = TRUE]
              IN n \in Entries /\ (Delivered(d) /\ d.on => Honest(n, t, st, e))
<1>1. LET n == [Absent EXCEPT !.status = "published", !.on = TRUE, !.targets = list]
      IN n \in Entries /\ Honest(n, t, st, e)
  <2> DEFINE n == [Absent EXCEPT !.status = "published", !.on = TRUE, !.targets = list]
  <2>1. n \in Entries
    BY EmptyHonest DEF Entries
  <2>2. Honest(n, t, st, e)
    BY DEF Absent, Honest
  <2> QED BY <2>1, <2>2
<1>2. LET n == [d EXCEPT !.targets = list] IN n \in Entries /\ (d.on => Honest(n, t, st, e))
  BY DEF Entries, Honest
<1>3. ASSUME CanTry(d), d.on PROVE Counted(d) \in Entries /\ Honest(Counted(d), t, st, e)
  <2>1. d.attempts + 1 \in 0..MaxAttempts
    BY <1>3, TaskDeliveryAssumption DEF CanTry, Entries
  <2> QED BY <1>3, <2>1 DEF Counted, Entries, Honest
<1>4. LET n == [d EXCEPT !.incomplete = TRUE] IN n \in Entries /\ Honest(n, t, st, e)
  BY DEF Entries, Honest
<1>5. LET n == [d EXCEPT !.complete = TRUE]
      IN n \in Entries /\ (Delivered(d) /\ d.on => Honest(n, t, st, e))
  BY DEF Entries, Honest, Delivered, Pending
<1> QED BY <1>1, <1>2, <1>3, <1>4, <1>5

(* A new task and a result claim nothing of the peers. *)
LEMMA NewAndDone ==
    ASSUME NEW d \in Entries, NEW t \in Tasks, NEW st, NEW e, Honest(d, t, st, e)
    PROVE  /\ LET n == [Absent EXCEPT !.status = "published"] IN n \in Entries /\ Honest(n, t, st, e)
           /\ LET n == [d EXCEPT !.status = "done"] IN n \in Entries /\ Honest(n, t, st, e)
<1>1. [Absent EXCEPT !.status = "published"] \in Entries
  BY EmptyHonest DEF Entries
<1>2. Honest([Absent EXCEPT !.status = "published"], t, st, e)
  BY DEF Absent, Honest
<1>3. LET n == [d EXCEPT !.status = "done"] IN n \in Entries /\ Honest(n, t, st, e)
  BY DEF Entries, Honest
<1> QED BY <1>1, <1>2, <1>3

(* An ACK is noted truthfully if its peer has stored the task. *)
LEMMA AckHonest ==
    ASSUME NEW d \in Entries, NEW t \in Tasks, NEW st, NEW e, NEW p \in Peers,
           Honest(d, t, st, e), t \in st[p]
    PROVE  Acked(d, p) \in Entries /\ Honest(Acked(d, p), t, st, e)
<1>1. CASE ~d.on
  BY <1>1 DEF Acked
<1>2. CASE d.on
  <2> DEFINE both == d.acked \cup {p}
             full == d.complete \/ (d.targets # {} /\ d.targets \subseteq both)
  <2>1. Acked(d, p) = [d EXCEPT !.acked = both, !.complete = full]
    BY <1>2 DEF Acked
  <2>2. both \in SUBSET Peers /\ full \in BOOLEAN
    BY DEF Entries
  <2>3. Acked(d, p) \in Entries
    BY <2>1, <2>2 DEF Entries
  <2>4. Honest(Acked(d, p), t, st, e)
    BY <1>2, <2>1 DEF Entries, Honest
  <2> QED BY <2>3, <2>4
<1> QED BY <1>1, <1>2
-----------------------------------------------------------------------------
LEMMA InitFacts == Init => Facts
<1> SUFFICES ASSUME Init PROVE Facts
  OBVIOUS
<1>1. 1 \in Tasks /\ 0 \in 0..TooMany
  BY TaskDeliveryAssumption DEF Tasks, TooMany
<1>2. Types
  BY <1>1, EmptyHonest, EnvType DEF Init, Types, TypeOK, Tables
<1>3. Truth
  BY EmptyHonest DEF Init, Truth
<1> QED BY <1>2, <1>3 DEF Facts

Places == {"idle", "visit", "examine", "save-new", "save-try", "save-end", "send", "next"}

(* What a step of the tick has to show: its copy, and the file if it saves, *)
(* stay tables that say only what is true.                                  *)
LEMMA TickFrame ==
    ASSUME Facts, UNCHANGED <<context, held, stored>>,
           disk' \in Tables, HonestTable(disk', stored, env),
           snap' \in Tables, HonestTable(snap', stored, env),
           pc' \in Places, pos' \in Tasks, pc' \notin {"idle", "visit"} => snap'[pos'].on,
           net' \subseteq Messages, \A m \in net' : m.kind = "ack" => m \in net,
           rounds' \in [Tasks -> 0..TooMany]
    PROVE  Facts'
<1>1. Types'
  BY DEF Facts, Types, TypeOK, context, Places, Tables
<1>2. Truth'
  BY DEF Facts, Truth, context, May
<1> QED BY <1>1, <1>2 DEF Facts

(* The tick goes on to the next task or ends. *)
LEMMA AdvanceFacts ==
    ASSUME Facts, Advance
    PROVE  /\ pc' \in {"idle", "visit"} /\ pos' \in Tasks
           /\ snap' \in Tables /\ HonestTable(snap', stored, env)
<1>1. 1 \in Tasks /\ pos \in Tasks /\ (pos < LastTask => pos + 1 \in Tasks)
  BY TaskDeliveryAssumption DEF Facts, Types, TypeOK, Tasks
<1> QED BY <1>1, EmptyHonest DEF Facts, Types, Truth, TypeOK, Tables, Advance

LEMMA TickFacts == ASSUME Facts, Tick PROVE Facts'
<1> USE DEF Facts
<1>1. /\ disk \in Tables /\ HonestTable(disk, stored, env)
      /\ snap \in Tables /\ HonestTable(snap, stored, env)
      /\ pos \in Tasks /\ net \subseteq Messages /\ rounds \in [Tasks -> 0..TooMany]
      /\ snap[pos] \in Entries /\ Honest(snap[pos], pos, stored, env)
      /\ env \in Envs /\ targets \in SUBSET Peers
      /\ "retarget" \notin env.may => targets = env.targets
      /\ pc \notin {"idle", "visit"} => snap[pos].on
  BY DEF Types, TypeOK, Truth, Tables, HonestTable, May
<1>2. ASSUME NEW d \in Entries, Honest(d, pos, stored, env), d.on, pc' \in Places,
             snap' = [snap EXCEPT ![pos] = d],
             UNCHANGED <<context, disk, pos, held, net, history>>
      PROVE  Facts'
  <2>1. snap' \in Tables /\ HonestTable(snap', stored, env) /\ snap'[pos] = d
    BY <1>1, <1>2, PutHonest DEF Tables
  <2> QED BY <1>1, <1>2, <2>1, TickFrame DEF history
<1>3. ASSUME Advance, UNCHANGED <<context, disk, held, net, history>> PROVE Facts'
  BY <1>1, <1>3, AdvanceFacts, TickFrame DEF history, Places
<1>4. CASE TickStart
  <2>1. 1 \in Tasks
    BY TaskDeliveryAssumption DEF Tasks
  <2> QED BY <1>1, <1>4, <2>1, TickFrame DEF TickStart, history, Places
<1>5. CASE Skip \/ Concluded \/ NotDue \/ TickNext
  BY <1>3, <1>5 DEF Skip, Concluded, NotDue, TickNext
<1>6. CASE Visit
  <2>1. CASE NewDelivery(pos)
    <3> DEFINE d == [Absent EXCEPT !.status = "published", !.on = TRUE, !.targets = targets]
    <3>1. d \in Entries /\ Honest(d, pos, stored, env) /\ d.on
      BY <1>1, TickEntries DEF Absent
    <3> QED BY <1>2, <1>6, <2>1, <3>1 DEF Visit, Step, Places
  <2>2. CASE ~NewDelivery(pos)
    <3> DEFINE d == [snap[pos] EXCEPT !.targets = targets]
    <3>0. snap[pos].on
      BY <2>2 DEF NewDelivery
    <3>1. d \in Entries /\ Honest(d, pos, stored, env)
      BY <1>1, <3>0, TickEntries
    <3>2. d.on /\ [snap EXCEPT ![pos].targets = targets] = [snap EXCEPT ![pos] = d]
      BY <1>1, <3>0 DEF Entries
    <3>3. snap' = [snap EXCEPT ![pos] = d] /\ pc' = "examine"
      BY <1>6, <2>2, <3>2 DEF Visit, Step
    <3> QED BY <1>2, <1>6, <3>1, <3>2, <3>3 DEF Visit, Places
  <2> QED BY <2>1, <2>2
<1>7. CASE Conclude
  <2>1. CASE Delivered(snap[pos]) /\ snap' = [snap EXCEPT ![pos].complete = TRUE]
    <3> DEFINE d == [snap[pos] EXCEPT !.complete = TRUE]
    <3>1. d \in Entries /\ Honest(d, pos, stored, env)
      BY <1>1, <1>7, <2>1, TickEntries DEF Conclude, Step
    <3>2. d.on /\ snap' = [snap EXCEPT ![pos] = d]
      BY <1>1, <1>7, <2>1 DEF Entries, Conclude, Step
    <3> QED BY <1>2, <1>7, <3>1, <3>2 DEF Conclude, Step, Places
  <2>2. CASE snap' = [snap EXCEPT ![pos].incomplete = TRUE]
    <3> DEFINE d == [snap[pos] EXCEPT !.incomplete = TRUE]
    <3>1. d \in Entries /\ Honest(d, pos, stored, env)
      BY <1>1, TickEntries
    <3>2. d.on /\ snap' = [snap EXCEPT ![pos] = d]
      BY <1>1, <1>7, <2>2 DEF Entries, Conclude, Step
    <3> QED BY <1>2, <1>7, <3>1, <3>2 DEF Conclude, Step, Places
  <2> QED BY <1>7, <2>1, <2>2 DEF Conclude
<1>8. CASE Try
  <2>1. Counted(snap[pos]) \in Entries /\ Honest(Counted(snap[pos]), pos, stored, env)
    BY <1>1, <1>8, TickEntries DEF Try, Step
  <2>2. Counted(snap[pos]).on
    BY <1>1, <1>8 DEF Try, Step, Counted, Entries
  <2> QED BY <1>2, <1>8, <2>1, <2>2 DEF Try, Step, Places
<1>9. CASE TickSave
  BY <1>1, <1>9, TickFrame DEF TickSave, Step, history, Places
<1>10. CASE Broadcast
  <2>1. Recipients(snap[pos]) \subseteq Peers
    BY <1>1 DEF Recipients, Pending, Entries
  <2>2. net' \subseteq Messages /\ \A m \in net' : m.kind = "ack" => m \in net
    BY <1>1, <1>10, <2>1 DEF Broadcast, Message, Messages
  <2>3. rounds' \in [Tasks -> 0..TooMany]
    BY <1>1, <1>10, TaskDeliveryAssumption DEF Broadcast, TooMany
  <2> QED BY <1>1, <1>10, <2>2, <2>3, TickFrame DEF Broadcast, Step, Places
<1> QED BY <1>4, <1>5, <1>6, <1>7, <1>8, <1>9, <1>10, TickFrame DEF Tick
-----------------------------------------------------------------------------
(* Tasks are numbered in the order in which they are made. *)
LEMMA NextTask ==
    /\ Cardinality(Created) \in Nat
    /\ env \in Envs /\ Cardinality(Created) < env.tasks => Cardinality(Created) + 1 \in Tasks
<1>1. IsFiniteSet(Tasks)
  BY FS_Interval, TaskDeliveryAssumption DEF Tasks
<1>2. Cardinality(Created) \in Nat
  BY <1>1, FS_Subset, FS_CardinalityType DEF Created
<1> QED BY <1>2, EnvType, TaskDeliveryAssumption DEF Tasks

(* A handler takes a copy of the file; an ACK is of a task that its peer    *)
(* has stored.                                                              *)
LEMMA LoadFacts ==
    ASSUME Facts, NEW op \in Ops, NEW p, NEW t \in Tasks, Load(op, p, t),
           op = "ack" => p \in Peers /\ t \in stored[p],
           UNCHANGED <<context, disk, tick, history>>,
           net' \subseteq net
    PROVE  Facts'
<1> DEFINE u == [op |-> op, peer |-> p, task |-> t, snap |-> disk]
<1>1. held' = held \cup {u}
  BY DEF Load
<1>2. disk \in Tables /\ HonestTable(disk, stored, env)
  BY DEF Facts, Types, TypeOK, Truth, Tables
<1>3. Types'
  BY <1>1, <1>2 DEF Facts, Types, TypeOK, context, tick, history, Tables
<1>4. Truth'
  BY <1>1, <1>2 DEF Facts, Truth, context, tick, history, May
<1> QED BY <1>3, <1>4 DEF Facts

LEMMA HandlerFacts ==
    ASSUME Facts, Create \/ OtherTask \/ \E m \in net : Handle(m)
    PROVE  Facts'
<1>1. CASE Create
  <2>1. Cardinality(Created) + 1 \in Tasks
    BY <1>1, NextTask DEF Create, Facts, Types
  <2> QED BY <1>1, <2>1, LoadFacts DEF Create, Ops
<1>2. CASE OtherTask
  <2>1. 1 \in Tasks
    BY TaskDeliveryAssumption DEF Tasks
  <2> QED BY <1>2, <2>1, LoadFacts DEF OtherTask, Ops
<1>3. CASE \E m \in net : Handle(m)
  <2>1. PICK m \in net : Handle(m)
    BY <1>3
  <2>2. m.kind \in Ops /\ m.peer \in Peers /\ m.task \in Tasks
    BY <2>1 DEF Facts, Types, TypeOK, Handle, Messages, Ops
  <2>3. m.kind = "ack" => m.task \in stored[m.peer]
    BY DEF Facts, Truth
  <2>4. net' \subseteq net
    BY <2>1 DEF Handle, Receives
  <2>5. CASE Load(m.kind, m.peer, m.task)
    BY <2>1, <2>2, <2>3, <2>4, <2>5, LoadFacts DEF Handle
  <2>6. CASE UNCHANGED held
    <3>1. Types'
      BY <2>1, <2>4, <2>6 DEF Facts, Types, TypeOK, Handle, context, tick, history
    <3>2. Truth'
      BY <2>1, <2>4, <2>6 DEF Facts, Truth, Handle, context, tick, history, May
    <3> QED BY <3>1, <3>2 DEF Facts
  <2> QED BY <2>1, <2>5, <2>6 DEF Handle
<1> QED BY <1>1, <1>2, <1>3

(* The entry a handler saves. *)
LEMMA UpdatedHonest ==
    ASSUME Facts, NEW u \in held
    PROVE  /\ u.snap \in Tables /\ u.task \in Tasks /\ HonestTable(u.snap, stored, env)
           /\ Updated(u) \in Entries /\ Honest(Updated(u), u.task, stored, env)
<1> DEFINE d == u.snap[u.task]
<1>1. /\ u.snap \in Tables /\ u.task \in Tasks /\ HonestTable(u.snap, stored, env)
      /\ u.op \in Ops
      /\ u.op = "ack" => u.peer \in Peers /\ u.task \in stored[u.peer]
  BY DEF Facts, Types, TypeOK, Truth, Tables
<1>2. d \in Entries /\ Honest(d, u.task, stored, env)
  BY <1>1 DEF Tables, HonestTable
<1>3. CASE u.op = "create"
  BY <1>1, <1>2, <1>3, NewAndDone DEF Updated
<1>4. CASE u.op = "ack"
  BY <1>1, <1>2, <1>4, AckHonest DEF Updated
<1>5. CASE u.op = "result"
  BY <1>1, <1>2, <1>5, NewAndDone DEF Updated
<1>6. CASE u.op = "other"
  BY <1>1, <1>2, <1>6 DEF Updated
<1> QED BY <1>1, <1>3, <1>4, <1>5, <1>6 DEF Ops

LEMMA HandlerSaveFacts == ASSUME Facts, HandlerSave PROVE Facts'
<1>1. PICK u \in held : /\ disk' = [u.snap EXCEPT ![u.task] = Updated(u)]
                        /\ held' = held \ {u}
                        /\ UNCHANGED <<context, tick, net, history>>
  BY DEF HandlerSave
<1>2. disk' \in Tables /\ HonestTable(disk', stored, env)
  BY <1>1, UpdatedHonest, PutHonest
<1>3. Types'
  BY <1>1, <1>2 DEF Facts, Types, TypeOK, context, tick, history, Tables
<1>4. Truth'
  BY <1>1, <1>2 DEF Facts, Truth, context, tick, history, May
<1> QED BY <1>3, <1>4 DEF Facts

-----------------------------------------------------------------------------
(* A peer acknowledges what it has just stored. *)
LEMMA PeerReceivesFacts == ASSUME Facts, NEW p \in Peers, PeerReceives(p) PROVE Facts'
<1>1. PICK t \in Tasks :
        /\ net' = (net \ {Message("publish", p, t)}) \cup {Message("ack", p, t)}
        /\ stored' = [stored EXCEPT ![p] = @ \cup {t}]
        /\ UNCHANGED <<context, disk, tick, held, answered, rounds>>
  BY DEF PeerReceives
<1>2. stored \in [Peers -> SUBSET Tasks] /\ env \in Envs
  BY DEF Facts, Types
<1>3. \A q \in Peers : stored[q] \subseteq stored'[q]
  BY <1>1, <1>2
<1>4. t \in stored'[p] /\ stored' \in [Peers -> SUBSET Tasks]
  BY <1>1, <1>2
<1>5. ASSUME NEW tab \in Tables, HonestTable(tab, stored, env) PROVE HonestTable(tab, stored', env)
  BY <1>2, <1>3, <1>5, HonestGrows
<1>6. Types'
  <2>1. Message("ack", p, t) \in Messages
    BY DEF Message, Messages
  <2> QED BY <1>1, <1>4, <2>1 DEF Facts, Types, TypeOK, context, tick
<1>7. Truth'
  <2>1. HonestTable(disk, stored', env) /\ HonestTable(snap, stored', env)
    BY <1>5 DEF Facts, Types, TypeOK, Truth, Tables
  <2>2. ASSUME NEW u \in held
        PROVE  /\ HonestTable(u.snap, stored', env)
               /\ u.op = "ack" => u.task \in stored'[u.peer]
    BY <1>3, <1>5 DEF Facts, Types, TypeOK, Truth, Tables
  <2>3. ASSUME NEW m \in net', m.kind = "ack" PROVE m.task \in stored'[m.peer]
    <3>1. CASE m = Message("ack", p, t)
      BY <1>4, <3>1 DEF Message
    <3>2. CASE m \in net
      BY <1>3, <2>3, <3>2 DEF Facts, Types, TypeOK, Truth, Messages
    <3> QED BY <1>1, <3>1, <3>2
  <2>4. UNCHANGED <<disk, snap, held, env, targets, pc, pos>>
    BY <1>1 DEF context, tick
  <2> QED BY <2>1, <2>2, <2>3, <2>4 DEF Facts, Truth, May
<1> QED BY <1>6, <1>7 DEF Facts

LEMMA PeerAnswersFacts == ASSUME Facts, NEW p \in Peers, PeerAnswers(p) PROVE Facts'
<1>1. PICK t \in stored[p] \ answered[p] :
        /\ net' = net \cup {Message("result", p, t)}
        /\ UNCHANGED <<context, disk, tick, held, stored, rounds>>
  BY DEF PeerAnswers
<1>2. t \in Tasks
  BY DEF Facts, Types
<1>3. net' \subseteq Messages /\ \A m \in net' : m.kind = "ack" => m \in net
  BY <1>1, <1>2 DEF Facts, Types, TypeOK, Message, Messages
<1>4. Types'
  BY <1>1, <1>3 DEF Facts, Types, TypeOK, context, tick
<1>5. Truth'
  BY <1>1, <1>3 DEF Facts, Truth, context, tick, May
<1> QED BY <1>4, <1>5 DEF Facts

LEMMA LoseFacts == ASSUME Facts, Lose PROVE Facts'
<1>1. net' \subseteq net /\ UNCHANGED <<context, disk, tick, held, history>>
  BY DEF Lose, Receives
<1>2. Types'
  BY <1>1 DEF Facts, Types, TypeOK, context, tick, history
<1>3. Truth'
  BY <1>1 DEF Facts, Truth, context, tick, history, May
<1> QED BY <1>2, <1>3 DEF Facts

LEMMA RestartFacts == ASSUME Facts, Restart PROVE Facts'
<1>1. 1 \in Tasks
  BY TaskDeliveryAssumption DEF Tasks
<1>2. Types'
  BY <1>1, EmptyHonest DEF Facts, Types, TypeOK, Restart, history, Tables
<1>3. Truth'
  BY EmptyHonest DEF Facts, Truth, Restart, history, May
<1> QED BY <1>2, <1>3 DEF Facts

LEMMA StepFacts == ASSUME Facts, [Next]_vars PROVE Facts'
<1>1. CASE UNCHANGED vars
  <2>1. Types'
    BY <1>1 DEF Facts, Types, TypeOK, vars, context, tick, history
  <2>2. Truth'
    BY <1>1 DEF Facts, Truth, vars, context, tick, history, May
  <2> QED BY <2>1, <2>2 DEF Facts
<1> QED BY <1>1, TickFacts, HandlerFacts, HandlerSaveFacts, PeerReceivesFacts, PeerAnswersFacts,
          LoseFacts, RestartFacts DEF Next
-----------------------------------------------------------------------------
(* Where updates do not overlap, the number of tasks tells the next one.    *)
LEMMA PrefixCount ==
    ASSUME NEW n \in 0..LastTask, Prefix(disk, n)
    PROVE  Cardinality(Created) = n
<1>1. Created = 1..n
  BY TaskDeliveryAssumption DEF Prefix, Created, Tasks
<1> QED BY <1>1, FS_Interval, TaskDeliveryAssumption

LEMMA InitSerial == Init => Serial
<1> SUFFICES ASSUME Init PROVE Serial
  OBVIOUS
<1>1. Prefix(disk, 0) /\ 0 \in 0..LastTask
  BY TaskDeliveryAssumption DEF Init, Prefix, Empty, Absent, Tasks
<1> QED BY <1>1 DEF Init, Serial, InStep, Empty, Absent

(* While the tick runs there is no handler, and the tick leaves none.       *)
LEMMA TickSerialFrame ==
    ASSUME Serial, held = {}, UNCHANGED <<disk, held, rounds>>, InStep'
    PROVE  Serial'
<1>1. PICK n \in 0..LastTask : Prefix(disk, n)
  BY DEF Serial
<1>2. Prefix(disk, n)'
  BY <1>1 DEF Prefix
<1> QED BY <1>2 DEF Serial

LEMMA AdvanceSerial ==
    ASSUME Facts, Serial, held = {}, pc \in {"visit", "examine", "next"}, Advance,
           UNCHANGED <<disk, held, rounds>>
    PROVE  Serial'
<1>1. \A t \in Tasks : Same(snap[t], disk[t])
  BY DEF Serial, InStep
<1>2. \A t \in Tasks : pc' = "visit" => Same(snap[t], disk[t])'
  BY <1>1 DEF Advance, Same
<1>3. InStep'
  BY <1>2, AdvanceFacts DEF InStep
<1> QED BY <1>3, TickSerialFrame

(* A step of the tick that changes its own copy of the task it looks at. *)
LEMMA LookSerial ==
    ASSUME Facts, Serial, held = {}, NEW d \in Entries, snap' = [snap EXCEPT ![pos] = d],
           pc # "idle", UNCHANGED <<disk, pos, held, rounds>>,
           \/ pc' \in {"examine", "save-end"} /\ Same(d, disk[pos])
           \/ /\ pc' = "save-new" /\ ~disk[pos].on /\ d.attempts = 0
              /\ d.status = "published" /\ disk[pos].status = "published"
           \/ pc' = "save-try" /\ Same(d, Counted(disk[pos]))
    PROVE  Serial'
<1>1. snap'[pos] = d /\ \A t \in Tasks \ {pos} : snap'[t] = snap[t]
  BY DEF Facts, Types, TypeOK
<1>2. InStep'
  BY <1>1 DEF Serial, InStep
<1> QED BY <1>2, TickSerialFrame

LEMMA TickSaveSerial ==
    ASSUME Facts, Serial, held = {}, TickSave
    PROVE  Serial'
<1>1. /\ disk' = snap /\ UNCHANGED <<pos, snap, held, rounds>> /\ pos \in Tasks
      /\ \A t \in Tasks \ {pos} : Same(snap[t], disk[t])
      /\ disk \in Tables /\ snap \in Tables /\ rounds \in [Tasks -> 0..TooMany]
      /\ ~disk[pos].on => disk[pos].attempts = 0
  BY DEF TickSave, Step, Serial, InStep, Facts, Types, Truth, TypeOK, Tables, history, HonestTable, Honest
<1>2. PICK n \in 0..LastTask : Prefix(disk, n)
  BY DEF Serial
<1>3. \A t \in Tasks : disk[t].attempts \in Nat /\ snap[t].attempts \in Nat /\ rounds[t] \in Nat
  BY <1>1, TaskDeliveryAssumption DEF Tables, Entries, TooMany
<1>4. /\ snap[pos].status = disk[pos].status
      /\ disk[pos].attempts <= snap[pos].attempts
      /\ snap[pos].on => snap[pos].status # "absent"
      /\ pc = "save-try" => disk[pos].attempts < snap[pos].attempts
  <2>1. CASE pc = "save-new"
    BY <1>1, <1>3, <2>1 DEF Serial, InStep
  <2>2. CASE pc = "save-try"
    <3>1. Counted(disk[pos]).attempts = disk[pos].attempts + 1
          /\ Counted(disk[pos]).on = disk[pos].on /\ Counted(disk[pos]).status = disk[pos].status
      BY <1>1 DEF Counted, Tables, Entries
    <3> QED BY <1>1, <1>3, <2>2, <3>1 DEF Serial, InStep, Same
  <2>3. CASE pc = "save-end"
    BY <1>1, <1>3, <2>3 DEF Serial, InStep, Same
  <2> QED BY <2>1, <2>2, <2>3 DEF TickSave, Step
<1>5. Prefix(disk, n)'
  BY <1>1, <1>2, <1>4 DEF Prefix, Same
<1>6. \A t \in Tasks : rounds'[t] <= disk'[t].attempts
  BY <1>1, <1>3, <1>4 DEF Serial, Same
<1>7. \A t \in Tasks : disk'[t].on => disk'[t].status # "absent"
  BY <1>1, <1>4 DEF Serial, Same
<1>8. InStep'
  <2>1. pc' \in {"examine", "send", "next"} /\ (pc' = "send" => pc = "save-try")
    BY DEF TickSave, Step
  <2>2. pc = "save-try" => rounds[pos] < snap[pos].attempts
    BY <1>1, <1>3, <1>4 DEF Serial
  <2> QED BY <1>1, <2>1, <2>2 DEF InStep, Same
<1> QED BY <1>1, <1>5, <1>6, <1>7, <1>8 DEF Serial

LEMMA TickSerial == ASSUME Facts, Serial, ~May("overlap"), Tick PROVE Serial'
<1>1. held = {}
  BY DEF Serial, Loaded, Tick, TickStart, Quiet, Skip, Visit, Step, Concluded, Conclude, NotDue,
         Try, TickSave, Broadcast, TickNext
<1>2. snap[pos] \in Entries /\ disk[pos] \in Entries /\ pos \in Tasks
  BY DEF Facts, Types, TypeOK
<1>3. CASE TickStart
  <2>1. InStep'
    BY <1>3 DEF TickStart, InStep, Same
  <2> QED BY <1>1, <1>3, <2>1, TickSerialFrame DEF TickStart, history
<1>4. CASE Skip \/ Concluded \/ NotDue \/ TickNext
  BY <1>1, <1>4, AdvanceSerial DEF Skip, Concluded, NotDue, TickNext, history
<1>5. CASE Visit
  <2>0. Same(snap[pos], disk[pos]) /\ UNCHANGED <<disk, pos, held, rounds>> /\ pc = "visit"
        /\ snap[pos].status = "published"
    BY <1>5 DEF Serial, InStep, Visit, Step, history
  <2>1. CASE NewDelivery(pos)
    <3> DEFINE d == [Absent EXCEPT !.status = "published", !.on = TRUE, !.targets = targets]
    <3>1. d \in Entries /\ d.attempts = 0 /\ d.status = "published"
      BY EmptyHonest DEF Absent, Entries, Facts, Types
    <3>2. ~disk[pos].on /\ disk[pos].status = "published"
      BY <2>0, <2>1 DEF NewDelivery, Same
    <3>3. snap' = [snap EXCEPT ![pos] = d] /\ pc' = "save-new"
      BY <1>5, <2>1 DEF Visit, Step
    <3> QED BY <1>1, <2>0, <3>1, <3>2, <3>3, LookSerial
  <2>2. CASE ~NewDelivery(pos)
    <3> DEFINE d == [snap[pos] EXCEPT !.targets = targets]
    <3>1. d \in Entries /\ Same(d, disk[pos])
      BY <1>2, <2>0 DEF Entries, Facts, Types, Same
    <3>2. snap' = [snap EXCEPT ![pos] = d] /\ pc' = "examine"
      BY <1>5, <2>2 DEF Visit, Step
    <3> QED BY <1>1, <2>0, <3>1, <3>2, LookSerial
  <2> QED BY <2>1, <2>2
<1>6. CASE Conclude
  <2>1. Same(snap[pos], disk[pos]) /\ UNCHANGED <<disk, pos, held, rounds>>
        /\ pc = "examine" /\ pc' = "save-end"
    BY <1>6 DEF Serial, InStep, Conclude, Step, history
  <2>2. PICK d \in Entries : snap' = [snap EXCEPT ![pos] = d] /\ Same(d, snap[pos])
    <3>1. CASE snap' = [snap EXCEPT ![pos].complete = TRUE]
      <4> DEFINE d == [snap[pos] EXCEPT !.complete = TRUE]
      <4>1. d \in Entries /\ Same(d, snap[pos]) /\ snap' = [snap EXCEPT ![pos] = d]
        BY <1>2, <3>1 DEF Entries, Same
      <4> QED BY <4>1
    <3>2. CASE snap' = [snap EXCEPT ![pos].incomplete = TRUE]
      <4> DEFINE d == [snap[pos] EXCEPT !.incomplete = TRUE]
      <4>1. d \in Entries /\ Same(d, snap[pos]) /\ snap' = [snap EXCEPT ![pos] = d]
        BY <1>2, <3>2 DEF Entries, Same
      <4> QED BY <4>1
    <3> QED BY <1>6, <3>1, <3>2 DEF Conclude
  <2>3. Same(d, disk[pos])
    BY <2>1, <2>2 DEF Same
  <2> QED BY <1>1, <2>1, <2>2, <2>3, LookSerial
<1>7. CASE Try
  <2>1. Same(snap[pos], disk[pos]) /\ UNCHANGED <<disk, pos, held, rounds>>
        /\ pc = "examine" /\ pc' = "save-try" /\ CanTry(snap[pos]) /\ snap[pos].on
        /\ snap' = [snap EXCEPT ![pos] = Counted(snap[pos])]
    BY <1>7 DEF Serial, InStep, Try, Step, history, Facts, Truth
  <2>2. Counted(snap[pos]) \in Entries
    <3>1. snap[pos].attempts + 1 \in 0..MaxAttempts
      BY <1>2, <2>1, TaskDeliveryAssumption DEF CanTry, Entries
    <3> QED BY <1>2, <3>1 DEF Counted, Entries
  <2>3. Same(Counted(snap[pos]), Counted(disk[pos]))
    BY <1>2, <2>1 DEF Same, Counted, Entries
  <2> QED BY <1>1, <2>1, <2>2, <2>3, LookSerial
<1>8. CASE TickSave
  BY <1>1, <1>8, TickSaveSerial
<1>9. CASE Broadcast
  <2>1. UNCHANGED <<disk, pos, snap, held>> /\ pc = "send" /\ pc' = "next"
        /\ rounds' = [rounds EXCEPT ![pos] = IF @ < TooMany THEN @ + 1 ELSE @]
        /\ rounds \in [Tasks -> 0..TooMany]
    BY <1>9 DEF Broadcast, Step, Facts, Types, TypeOK
  <2>2. InStep'
    BY <2>1 DEF Serial, InStep
  <2>3. ASSUME NEW t \in Tasks PROVE rounds'[t] <= disk[t].attempts
    <3>1. rounds[t] \in Nat /\ disk[t].attempts \in Nat
      BY <2>1, TaskDeliveryAssumption DEF Facts, Types, TypeOK, Entries, TooMany
    <3>2. rounds[t] <= disk[t].attempts /\ (t = pos => rounds[t] < disk[t].attempts)
      BY <2>1 DEF Serial, InStep
    <3> QED BY <2>1, <3>1, <3>2
  <2>4. \E n \in 0..LastTask : Prefix(disk, n)'
    BY <2>1 DEF Serial, Prefix
  <2> QED BY <1>1, <2>1, <2>2, <2>3, <2>4 DEF Serial
<1> QED BY <1>3, <1>4, <1>5, <1>6, <1>7, <1>8, <1>9 DEF Tick
LEMMA HandlerSerial ==
    ASSUME Facts, Serial, ~May("overlap"), Create \/ OtherTask \/ \E m \in net : Handle(m)
    PROVE  Serial'
<1>1. held = {} /\ pc = "idle" /\ UNCHANGED <<disk, tick, rounds>>
  BY DEF Create, OtherTask, Handle, CanLoad, Quiet, history
<1>2. PICK n \in 0..LastTask : Prefix(disk, n)
  BY DEF Serial
<1>3. ASSUME NEW op, NEW p, NEW t, Load(op, p, t),
             op = "create" => Prefix(disk, t - 1),
             op \in {"ack", "result"} => disk[t].status # "absent"
      PROVE  Serial'
  <2> DEFINE u == [op |-> op, peer |-> p, task |-> t, snap |-> disk]
  <2>1. held' = {u}
    BY <1>1, <1>3 DEF Load
  <2>2. Loaded(u)' /\ Prefix(disk, n)' /\ InStep'
    BY <1>1, <1>2, <1>3 DEF Loaded, Prefix, InStep, tick
  <2> QED BY <1>1, <2>1, <2>2 DEF Serial
<1>4. CASE Create
  <2>1. Prefix(disk, (Cardinality(Created) + 1) - 1)
    BY <1>2, PrefixCount
  <2> QED BY <1>3, <1>4, <2>1 DEF Create
<1>5. CASE \E m \in net : Handle(m)
  <2>1. PICK m \in net : Handle(m)
    BY <1>5
  <2>2. CASE Ignored(m)
    <3>1. held' = {} /\ Prefix(disk, n)' /\ InStep'
      BY <1>1, <1>2, <2>1, <2>2 DEF Handle, Prefix, InStep, tick
    <3> QED BY <1>1, <3>1 DEF Serial
  <2>3. CASE ~Ignored(m)
    BY <1>3, <2>1, <2>3 DEF Handle, Ignored
  <2> QED BY <2>2, <2>3
<1> QED BY <1>4, <1>5 DEF OtherTask

(* The one handler there is saves the file with its change. *)
LEMMA HandlerSaveSerial ==
    ASSUME Facts, Serial, NEW u \in held, disk' = [u.snap EXCEPT ![u.task] = Updated(u)],
           held' = held \ {u}, UNCHANGED <<tick, rounds>>
    PROVE  Serial'
<1> DEFINE d == disk[u.task]
<1>1. /\ held' = {} /\ pc = "idle" /\ u.task \in Tasks /\ u.op \in Ops
      /\ disk \in Tables /\ d \in Entries
      /\ ~d.on => d.attempts = 0
      /\ disk' = [disk EXCEPT ![u.task] = Updated(u)]
  <2>1. u.snap = disk /\ pc = "idle"
    BY DEF Serial, Loaded
  <2>2. held' = {}
    BY DEF Serial
  <2>3. u.task \in Tasks /\ u.op \in Ops /\ disk \in Tables
    BY DEF Facts, Types, TypeOK, Tables
  <2>4. d \in Entries /\ (~d.on => d.attempts = 0)
    BY <2>3 DEF Facts, Truth, HonestTable, Honest, Tables
  <2> QED BY <2>1, <2>2, <2>3, <2>4
<1>2. PICK n \in 0..LastTask : Prefix(disk, n)
  BY DEF Serial
<1>3. disk'[u.task] = Updated(u) /\ \A t \in Tasks \ {u.task} : disk'[t] = disk[t]
  BY <1>1 DEF Tables
<1>4. InStep'
  BY <1>1 DEF InStep, tick
<1>5. u.snap = disk
  BY DEF Serial, Loaded
<1>6. CASE u.op = "create"
  <2>1. Prefix(disk, u.task - 1)
    BY <1>6 DEF Serial, Loaded
  <2>2. u.task \in 1..LastTask /\ LastTask \in Nat
    BY <1>1, TaskDeliveryAssumption DEF Tasks
  <2>3. d.status = "absent"
    BY <2>1, <2>2 DEF Prefix, Tasks
  <2>4. rounds[u.task] <= 0
    BY <1>1, <2>3 DEF Serial
  <2>5. Updated(u) = [Absent EXCEPT !.status = "published"]
    BY <1>6 DEF Updated
  <2>6. ~Updated(u).on /\ Updated(u).attempts = 0 /\ Updated(u).status = "published"
    BY <2>5 DEF Absent
  <2>7. Prefix(disk', u.task)
    BY <1>3, <2>1, <2>2, <2>6 DEF Prefix, Tasks
  <2>8. \A t \in Tasks : rounds'[t] <= disk'[t].attempts
    BY <1>3, <2>4, <2>6 DEF Serial
  <2>9. \A t \in Tasks : disk'[t].on => disk'[t].status # "absent"
    BY <1>3, <2>6 DEF Serial
  <2> QED BY <1>1, <1>4, <2>2, <2>7, <2>8, <2>9 DEF Serial
<1>7. CASE u.op # "create"
  <2>1. /\ Updated(u).attempts = d.attempts /\ Updated(u).on = d.on
        /\ Updated(u).status = "absent" <=> d.status = "absent"
    <3>1. CASE u.op = "ack"
      BY <1>1, <1>5, <3>1 DEF Updated, Acked, Entries
    <3>2. CASE u.op = "result"
      <4>1. d.status # "absent"
        BY <3>2 DEF Serial, Loaded
      <4> QED BY <1>1, <1>5, <3>2, <4>1 DEF Updated, Entries
    <3>3. CASE u.op = "other"
      BY <1>1, <1>5, <3>3 DEF Updated
    <3> QED BY <1>1, <1>7, <3>1, <3>2, <3>3 DEF Ops
  <2>2. Prefix(disk', n)
    BY <1>2, <1>3, <2>1 DEF Prefix
  <2>3. \A t \in Tasks : rounds'[t] <= disk'[t].attempts
    BY <1>3, <2>1 DEF Serial
  <2>4. \A t \in Tasks : disk'[t].on => disk'[t].status # "absent"
    BY <1>3, <2>1 DEF Serial
  <2> QED BY <1>1, <1>4, <2>2, <2>3, <2>4 DEF Serial
<1> QED BY <1>6, <1>7

LEMMA StepSerial == ASSUME Facts, Serial, ~May("overlap"), [Next]_vars PROVE Serial'
<1>1. PICK n \in 0..LastTask : Prefix(disk, n)
  BY DEF Serial
<1>2. ASSUME UNCHANGED <<disk, tick, held, rounds>> PROVE Serial'
  <2>1. UNCHANGED <<disk, pc, pos, snap, held, rounds>>
    BY <1>2 DEF tick
  <2>2. InStep' /\ \A u \in held : Loaded(u)'
    BY <2>1 DEF Serial, InStep, Loaded, Same, Prefix
  <2> QED BY <1>1, <2>1, <2>2 DEF Serial, Prefix
<1>3. CASE Tick
  BY <1>3, TickSerial
<1>4. CASE Create \/ OtherTask \/ \E m \in net : Handle(m)
  BY <1>4, HandlerSerial
<1>5. CASE HandlerSave
  BY <1>5, HandlerSaveSerial DEF HandlerSave, history
<1>6. CASE (\E p \in Peers : PeerReceives(p) \/ PeerAnswers(p)) \/ Lose
  BY <1>2, <1>6 DEF PeerReceives, PeerAnswers, Lose, history
<1>7. CASE Restart
  <2>1. held' = {} /\ pc' = "idle" /\ UNCHANGED <<disk, rounds>>
    BY <1>7 DEF Restart, history
  <2>2. InStep'
    BY <2>1 DEF InStep
  <2> QED BY <1>1, <2>1, <2>2 DEF Serial, Prefix
<1>8. CASE UNCHANGED vars
  BY <1>2, <1>8 DEF vars, history
<1> QED BY <1>3, <1>4, <1>5, <1>6, <1>7, <1>8 DEF Next

LEMMA EnvFixed == [Next]_vars => env' = env
  BY DEF Next, vars, context, Tick, TickStart, Skip, Visit, Concluded, Conclude, NotDue, Try, TickSave,
         Broadcast, TickNext, Create, OtherTask, Handle, HandlerSave, PeerReceives, PeerAnswers, Lose,
         Restart

(* The inductive invariant holds of every behaviour of the delivery. *)
THEOREM Invariance == Spec => []Inv
<1>1. Init => Inv
  BY InitFacts, InitSerial DEF Inv
<1>2. Inv /\ [Next]_vars => Inv'
  BY StepFacts, StepSerial, EnvFixed DEF Inv, May
<1> QED BY <1>1, <1>2, PTL DEF Spec
(* Type correctness, for any peers, tasks and environments. *)
THEOREM TypeCorrect == Spec => []TypeOK
<1>1. Inv => TypeOK
  BY DEF Inv, Facts, Types
<1> QED BY <1>1, Invariance, PTL

(* Whatever overlapping saves, lost messages and restarts do to tasks.json, *)
(* its delivery state makes no false statement about a peer.                *)
LEMMA InvAcks == Inv => AcksAreTrue
<1> SUFFICES ASSUME Inv, NEW t \in Tasks
             PROVE  /\ \A p \in disk[t].acked : t \in stored[p]
                    /\ disk[t].complete /\ ~May("retarget")
                         => \A p \in disk[t].targets : t \in stored[p]
  BY DEF AcksAreTrue
<1>1. Honest(disk[t], t, stored, env)
  BY DEF Inv, Facts, Truth, HonestTable
<1>2. disk[t].complete \in BOOLEAN /\ disk[t].on \in BOOLEAN
  BY DEF Inv, Facts, Types, TypeOK, Entries
<1> QED BY <1>1, <1>2 DEF Honest, May

(* Counting an attempt in the file before making it bounds the rounds, also *)
(* over a restart between the two.                                          *)
LEMMA InvSends == Inv => SendsBounded
<1> SUFFICES ASSUME Inv, ~May("overlap"), NEW t \in Tasks PROVE rounds[t] <= MaxAttempts
  BY DEF SendsBounded
<1>1. rounds[t] <= disk[t].attempts
  BY DEF Inv, Serial
<1>2. rounds[t] \in 0..TooMany /\ disk[t].attempts \in 0..MaxAttempts
  BY DEF Inv, Facts, Types, TypeOK, Entries
<1> QED BY <1>1, <1>2, TaskDeliveryAssumption DEF TooMany

(* The delivery state tells the truth about the targets and counts what was *)
(* sent, for any number of peers, tasks, attempts, handlers and restarts.   *)
THEOREM DeliveryIsSound == Spec => []DeliverySound
<1>1. Inv => DeliverySound
  BY InvAcks, InvSends DEF Inv, Facts, Types, DeliverySound
<1> QED BY <1>1, Invariance, PTL

-----------------------------------------------------------------------------
(* A save that overlaps no other takes back nothing.                        *)
LEMMA SaveKeeps ==
    ASSUME Inv, Next, ~May("overlap"), NEW t \in Tasks
    PROVE  /\ disk[t].acked \subseteq disk'[t].acked
           /\ disk[t].status = "done" => disk'[t].status = "done"
           /\ disk[t].on => disk'[t].on
<1> USE DEF Inv
<1>1. disk \in Tables /\ snap \in Tables /\ pos \in Tasks
  BY DEF Facts, Types, TypeOK, Tables
<1>2. CASE UNCHANGED disk
  BY <1>2
<1>3. CASE TickSave
  <2>1. disk' = snap
    BY <1>3 DEF TickSave
  <2>2. CASE t # pos \/ pc = "save-end"
    BY <1>3, <2>1, <2>2 DEF TickSave, Step, Serial, InStep, Same
  <2>3. CASE t = pos /\ pc = "save-try"
    BY <1>1, <2>1, <2>3 DEF Serial, InStep, Same, Counted, Tables, Entries
  <2>4. CASE t = pos /\ pc = "save-new"
    <3>1. ~disk[pos].on /\ disk[pos].status = "published"
      BY <2>4 DEF Serial, InStep
    <3>2. disk[pos].acked = {}
      BY <1>1, <3>1 DEF Facts, Truth, HonestTable, Honest
    <3> QED BY <2>4, <3>1, <3>2
  <2> QED BY <1>3, <2>2, <2>3, <2>4 DEF TickSave, Step
<1>4. CASE HandlerSave
  <2>1. PICK u \in held : disk' = [disk EXCEPT ![u.task] = Updated(u)] /\ u.snap = disk
    BY <1>4 DEF HandlerSave, Serial, Loaded
  <2>2. u.op \in Ops /\ u.task \in Tasks /\ disk[u.task] \in Entries
    BY <1>1 DEF Facts, Types, Tables
  <2>3. CASE t # u.task
    BY <1>1, <2>1, <2>2, <2>3 DEF Tables
  <2>4. CASE t = u.task
    <3>1. disk'[t] = Updated(u)
      BY <1>1, <2>1, <2>2, <2>4 DEF Tables
    <3>2. CASE u.op = "create"
      <4>1. Prefix(disk, t - 1)
        BY <2>4, <3>2 DEF Serial, Loaded
      <4>2. disk[t].status = "absent"
        BY <4>1, TaskDeliveryAssumption DEF Prefix, Tasks
      <4>3. disk[t].acked = {}
        BY <1>1, <4>2 DEF Serial, Facts, Truth, HonestTable, Honest
      <4>4. ~disk[t].on
        BY <4>2 DEF Serial
      <4> QED BY <4>2, <4>3, <4>4
    <3>3. CASE u.op = "ack"
      BY <2>1, <2>2, <2>4, <3>1, <3>3 DEF Updated, Acked, Entries
    <3>4. CASE u.op = "result"
      BY <2>1, <2>2, <2>4, <3>1, <3>4 DEF Updated, Entries
    <3>5. CASE u.op = "other"
      BY <2>1, <2>4, <3>1, <3>5 DEF Updated
    <3> QED BY <2>2, <3>2, <3>3, <3>4, <3>5 DEF Ops
  <2> QED BY <2>3, <2>4
<1>5. UNCHANGED disk \/ TickSave \/ HandlerSave
  BY DEF Next, Tick, TickStart, Skip, Visit, Concluded, Conclude, NotDue, Try, Broadcast, TickNext,
         Create, OtherTask, Handle, PeerReceives, PeerAnswers, Lose, Restart
<1> QED BY <1>2, <1>3, <1>4, <1>5

(* While updates do not overlap, an acknowledgement or a result that was    *)
(* saved is never taken back, across ticks, retries and restarts.           *)
THEOREM UpdatesAreKept == Spec => UpdatesKept
<1> DEFINE Kept == \A t \in Tasks :
                     ~May("overlap") =>
                         /\ disk[t].acked \subseteq disk'[t].acked
                         /\ disk[t].status = "done" => disk'[t].status = "done"
<1>1. Inv /\ [Next]_vars => [Kept]_vars
  BY SaveKeeps
<1> QED BY <1>1, Invariance, PTL DEF Spec, UpdatesKept
-----------------------------------------------------------------------------
(* What is in transit was sent for a delivery that the file has. *)
Recorded == ~May("overlap") => \A m \in net : m.kind \in {"publish", "ack"} => disk[m.task].on

LEMMA RecordedStep == ASSUME Inv, Recorded, [Next]_vars PROVE Recorded'
<1> SUFFICES ASSUME ~May("overlap"), NEW m \in net', m.kind \in {"publish", "ack"}
             PROVE  disk'[m.task].on
  BY EnvFixed DEF Recorded, May
<1>1. \A t \in Tasks : disk[t].on => disk'[t].on
  BY SaveKeeps DEF vars
<1>2. \A n \in net : n.task \in Tasks
  BY DEF Inv, Facts, Types, TypeOK, Messages
<1>3. CASE m \in net
  BY <1>1, <1>2, <1>3 DEF Recorded
<1>4. CASE Broadcast /\ m \notin net
  <2>1. pc = "send" /\ disk' = disk
    BY <1>4 DEF Broadcast, Step
  <2>2. disk[pos].on
    BY <2>1 DEF Inv, Facts, Truth, Serial, InStep, Same
  <2>3. m.task = pos
    BY <1>4 DEF Broadcast, Message
  <2> QED BY <2>1, <2>2, <2>3
<1>5. CASE (\E p \in Peers : PeerReceives(p)) /\ m \notin net
  <2>1. PICK p \in Peers, t \in Tasks :
          Message("publish", p, t) \in net /\ m = Message("ack", p, t) /\ disk' = disk
    BY <1>5 DEF PeerReceives
  <2>2. m.task = t /\ disk[t].on
    BY <2>1 DEF Message, Recorded
  <2> QED BY <2>1, <2>2
<1>6. CASE (\E p \in Peers : PeerAnswers(p)) /\ m \notin net
  BY <1>6 DEF PeerAnswers, Message
<1>7. net' \subseteq net \/ Broadcast \/ \E p \in Peers : PeerReceives(p) \/ PeerAnswers(p)
  BY DEF Next, Tick, TickStart, Skip, Visit, Concluded, Conclude, NotDue, Try, TickSave, TickNext,
         Create, OtherTask, Handle, Receives, HandlerSave, Lose, Restart, vars, history
<1> QED BY <1>3, <1>4, <1>5, <1>6, <1>7

(* "Persist delivery state before sending, so ACK handler can always find   *)
(* it": true as long as updates of the file do not overlap, across retries, *)
(* restarts, changed targets and late acknowledgements.                     *)
THEOREM AcksFindDelivery == Spec => [](~May("overlap") => AckFindsDelivery)
<1>1. Init => Recorded
  BY DEF Init, Recorded
<1>2. Inv /\ Recorded /\ [Next]_vars => Recorded'
  BY RecordedStep
<1>3. Recorded => (~May("overlap") => AckFindsDelivery)
  BY DEF Recorded, AckFindsDelivery
<1> QED BY <1>1, <1>2, <1>3, Invariance, PTL DEF Spec
-----------------------------------------------------------------------------
(* What DeliveryConcludes rests on.  While updates do not overlap the       *)
(* attempts of a task never fall and each try that is saved adds one, what  *)
(* the tick concludes has ended, and what has ended stays ended: no later   *)
(* tick, handler or restart reopens a delivery or gives it attempts back.   *)
DeliveryProgresses ==
    [][\A t \in Tasks :
         ~May("overlap") =>
             /\ disk[t].attempts <= disk'[t].attempts
             /\ TickSave /\ pc = "save-try" /\ t = pos
                  => disk'[t].attempts = disk[t].attempts + 1
             /\ TickSave /\ pc = "save-end" /\ t = pos => Ended(disk'[t])
             /\ Ended(disk[t]) => Ended(disk'[t])]_vars

(* The table of the tick has the flags of the file, those it has just set   *)
(* besides, and no flag without a delivery state.                           *)
FlagsFollow ==
    ~May("overlap") =>
        /\ \A t \in Tasks : /\ disk[t].incomplete => disk[t].on
                            /\ snap[t].incomplete => snap[t].on
        /\ pc # "idle" =>
             \A t \in Tasks : /\ disk[t].complete => snap[t].complete
                              /\ disk[t].incomplete => snap[t].incomplete
        /\ pc = "save-end" => snap[pos].complete \/ snap[pos].incomplete

(* What a handler saves keeps the flags and sets no other but complete.     *)
LEMMA HandlerFlags ==
    ASSUME Inv, FlagsFollow, ~May("overlap"), HandlerSave, NEW t \in Tasks
    PROVE  /\ disk[t].attempts <= disk'[t].attempts
           /\ disk'[t].incomplete = disk[t].incomplete
           /\ disk[t].complete => disk'[t].complete
           /\ disk[t].on => disk'[t].on
<1> USE DEF Inv
<1>1. disk \in Tables /\ disk[t] \in Entries
  BY DEF Facts, Types, TypeOK, Tables
<1>2. PICK u \in held : disk' = [disk EXCEPT ![u.task] = Updated(u)] /\ u.snap = disk
  BY DEF HandlerSave, Serial, Loaded
<1>3. u.op \in Ops /\ u.task \in Tasks
  BY DEF Facts, Types
<1>4. disk[t].attempts \in Nat
  BY <1>1, TaskDeliveryAssumption DEF Entries
<1>5. CASE t # u.task
  BY <1>1, <1>2, <1>3, <1>4, <1>5 DEF Tables
<1>6. CASE t = u.task
  <2>1. disk'[t] = Updated(u)
    BY <1>1, <1>2, <1>3, <1>6 DEF Tables
  <2>2. CASE u.op = "create"
    <3>1. Prefix(disk, t - 1)
      BY <1>6, <2>2 DEF Serial, Loaded
    <3>2. disk[t].status = "absent"
      BY <3>1, TaskDeliveryAssumption DEF Prefix, Tasks
    <3>3. ~disk[t].on
      BY <3>2 DEF Serial
    <3>4. ~disk[t].incomplete /\ ~disk[t].complete /\ disk[t].attempts = 0
      BY <3>3 DEF FlagsFollow, Facts, Truth, HonestTable, Honest
    <3>5. disk'[t].incomplete = FALSE /\ disk'[t].attempts = 0
      BY <2>1, <2>2 DEF Updated, Absent
    <3>6. disk[t].incomplete = FALSE
      BY <1>1, <3>4 DEF Entries
    <3>7. disk[t].attempts <= disk'[t].attempts
      BY <3>4, <3>5
    <3>8. disk'[t].incomplete = disk[t].incomplete
      BY <3>5, <3>6
    <3> QED BY <3>3, <3>4, <3>7, <3>8
  <2>3. CASE u.op = "ack"
    BY <1>1, <1>2, <1>4, <1>6, <2>1, <2>3 DEF Updated, Acked, Entries
  <2>4. CASE u.op = "result"
    BY <1>1, <1>2, <1>4, <1>6, <2>1, <2>4 DEF Updated, Entries
  <2>5. CASE u.op = "other"
    BY <1>2, <1>4, <1>6, <2>1, <2>5 DEF Updated
  <2> QED BY <1>3, <2>2, <2>3, <2>4, <2>5 DEF Ops
<1> QED BY <1>5, <1>6

LEMMA FlagsStep == ASSUME Inv, FlagsFollow, [Next]_vars PROVE FlagsFollow'
<1> USE DEF Inv, context, tick, history
<1> SUFFICES ASSUME ~May("overlap") PROVE FlagsFollow'
  BY EnvFixed DEF FlagsFollow, May
<1>1. /\ disk \in Tables /\ snap \in Tables /\ pos \in Tasks
      /\ \A t \in Tasks : disk[t] \in Entries /\ snap[t] \in Entries
  BY DEF Facts, Types, TypeOK, Tables
<1>2. Empty \in Tables /\ \A t \in Tasks : ~Empty[t].incomplete
  BY TaskDeliveryAssumption DEF Tables, Entries, Empty, Absent
<1>3. CASE TickStart
  BY <1>3 DEF TickStart, FlagsFollow
<1>4. ASSUME Advance, pc # "idle", UNCHANGED disk PROVE FlagsFollow'
  <2>1. \/ pc' = "visit" /\ snap' = snap
        \/ pc' = "idle" /\ snap' = Empty
    BY <1>4 DEF Advance
  <2>2. CASE pc' = "visit" /\ snap' = snap
    BY <1>4, <2>2 DEF FlagsFollow
  <2>3. CASE pc' = "idle" /\ snap' = Empty
    BY <1>2, <1>4, <2>3 DEF FlagsFollow
  <2> QED BY <2>1, <2>2, <2>3
<1>5. CASE Skip \/ Concluded \/ NotDue \/ TickNext
  BY <1>4, <1>5 DEF Skip, Concluded, NotDue, TickNext
<1>6. CASE Visit
  <2>1. CASE NewDelivery(pos) /\ snap' = [snap EXCEPT ![pos] =
               [Absent EXCEPT !.status = "published", !.on = TRUE, !.targets = targets]]
             /\ Step("visit", "save-new")
    <3>1. ~disk[pos].on
      BY <2>1 DEF NewDelivery, Serial, InStep, Same, Step
    <3>2. ~disk[pos].complete /\ ~disk[pos].incomplete
      BY <1>1, <3>1 DEF FlagsFollow, Facts, Truth, HonestTable, Honest
    <3>3. snap'[pos].on /\ \A t \in Tasks \ {pos} : snap'[t] = snap[t]
      BY <1>1, <2>1 DEF Tables, Absent
    <3> QED BY <1>6, <2>1, <3>2, <3>3 DEF FlagsFollow, Step, Visit
  <2>2. CASE snap' = [snap EXCEPT ![pos].targets = targets] /\ Step("visit", "examine")
    <3>1. \A t \in Tasks : /\ snap'[t].complete = snap[t].complete /\ snap'[t].on = snap[t].on
                           /\ snap'[t].incomplete = snap[t].incomplete
      BY <1>1, <2>2 DEF Tables, Entries
    <3> QED BY <1>6, <2>2, <3>1 DEF FlagsFollow, Step, Visit
  <2> QED BY <1>6, <2>1, <2>2 DEF Visit
<1>7. CASE Conclude
  <2>1. /\ \/ snap' = [snap EXCEPT ![pos].complete = TRUE]
           \/ snap' = [snap EXCEPT ![pos].incomplete = TRUE]
        /\ pc = "examine" /\ pc' = "save-end" /\ UNCHANGED <<disk, pos>>
    BY <1>7 DEF Conclude, Step
  <2>2. snap[pos].on
    BY <2>1 DEF Facts, Truth
  <2>3. /\ \A t \in Tasks : /\ snap[t].complete => snap'[t].complete
                            /\ snap[t].incomplete => snap'[t].incomplete
                            /\ snap'[t].on = snap[t].on
        /\ \A t \in Tasks \ {pos} : snap'[t] = snap[t]
        /\ snap'[pos].complete \/ snap'[pos].incomplete
    <3>1. CASE snap' = [snap EXCEPT ![pos].complete = TRUE]
      BY <1>1, <3>1 DEF Tables, Entries
    <3>2. CASE snap' = [snap EXCEPT ![pos].incomplete = TRUE]
      BY <1>1, <3>2 DEF Tables, Entries
    <3> QED BY <2>1, <3>1, <3>2
  <2>4. \A t \in Tasks : snap'[t].incomplete => snap'[t].on
    BY <2>2, <2>3 DEF FlagsFollow
  <2>5. \A t \in Tasks : /\ disk'[t].complete => snap'[t].complete
                         /\ disk'[t].incomplete => snap'[t].incomplete
    <3>1. \A t \in Tasks : /\ disk[t].complete => snap[t].complete
                           /\ disk[t].incomplete => snap[t].incomplete
      <4>1. pc # "idle"
        BY <2>1
      <4> QED BY <4>1, Zenon DEF FlagsFollow
    <3>2. disk' = disk
      BY <2>1
    <3> QED BY <2>3, <3>1, <3>2, Zenon
  <2>6. \A t \in Tasks : disk'[t].incomplete => disk'[t].on
    BY <2>1 DEF FlagsFollow
  <2>7. snap'[pos'].complete \/ snap'[pos'].incomplete
    BY <2>1, <2>3
  <2> QED BY <2>4, <2>5, <2>6, <2>7 DEF FlagsFollow
<1>8. CASE Try
  <2>1. /\ snap' = [snap EXCEPT ![pos] = Counted(@)]
        /\ pc = "examine" /\ pc' = "save-try" /\ UNCHANGED <<disk, pos>>
    BY <1>8 DEF Try, Step
  <2>2. \A t \in Tasks : /\ snap'[t].complete = snap[t].complete /\ snap'[t].on = snap[t].on
                         /\ snap'[t].incomplete = snap[t].incomplete
    BY <1>1, <2>1 DEF Counted, Tables, Entries
  <2> QED BY <2>1, <2>2 DEF FlagsFollow
<1>9. CASE TickSave
  BY <1>9 DEF TickSave, Step, FlagsFollow
<1>10. CASE Broadcast
  BY <1>10 DEF Broadcast, Step, FlagsFollow
<1>11. CASE HandlerSave
  <2>1. pc = "idle" /\ UNCHANGED <<pc, snap>>
    BY <1>11 DEF HandlerSave, Serial, Loaded
  <2>2. \A t \in Tasks : disk'[t].incomplete => disk'[t].on
    BY <1>11, HandlerFlags DEF FlagsFollow
  <2> QED BY <2>1, <2>2 DEF FlagsFollow
<1>12. CASE Restart
  BY <1>2, <1>12 DEF Restart, FlagsFollow
<1>13. CASE UNCHANGED <<disk, pc, pos, snap>>
  BY <1>13 DEF FlagsFollow
<1> QED BY <1>3, <1>5, <1>6, <1>7, <1>8, <1>9, <1>10, <1>11, <1>12, <1>13
        DEF Next, Tick, Create, OtherTask, Handle, PeerReceives, PeerAnswers, Lose, vars

(* The safety half of DeliveryConcludes, for any peers, tasks, attempts and *)
(* restarts: the attempts and the flags only go the way of the conclusion.  *)
THEOREM DeliveriesProgress == Spec => DeliveryProgresses
<1> DEFINE Goes(t) == /\ disk[t].attempts <= disk'[t].attempts
                      /\ TickSave /\ pc = "save-try" /\ t = pos
                           => disk'[t].attempts = disk[t].attempts + 1
                      /\ TickSave /\ pc = "save-end" /\ t = pos => Ended(disk'[t])
                      /\ Ended(disk[t]) => Ended(disk'[t])
<1>1. Init => FlagsFollow
  BY DEF Init, FlagsFollow, Empty, Absent
<1>2. ASSUME Inv, FlagsFollow, Next, ~May("overlap"), NEW t \in Tasks PROVE Goes(t)
  <2> USE <1>2 DEF Inv
  <2>1. disk[t] \in Entries /\ snap[t] \in Entries /\ disk[t].attempts \in Nat
    BY TaskDeliveryAssumption DEF Facts, Types, TypeOK, Entries
  <2>2. disk[t].status = "done" => disk'[t].status = "done"
    BY SaveKeeps
  <2>3. CASE UNCHANGED disk /\ ~TickSave
    BY <2>1, <2>3
  <2>4. CASE TickSave
    <3>0. disk' = snap /\ pc \in {"save-new", "save-try", "save-end"}
      BY <2>4 DEF TickSave, Step
    <3>1. /\ disk' = snap /\ pc \in {"save-new", "save-try", "save-end"}
          /\ disk[t].complete => snap[t].complete
          /\ disk[t].incomplete => snap[t].incomplete
          /\ pc = "save-end" => snap[pos].complete \/ snap[pos].incomplete
      <4>1. pc # "idle"
        BY <3>0
      <4>2. \A x \in Tasks : /\ disk[x].complete => snap[x].complete
                             /\ disk[x].incomplete => snap[x].incomplete
        BY <4>1, Zenon DEF FlagsFollow
      <4>3. (disk[t].complete => snap[t].complete) /\ (disk[t].incomplete => snap[t].incomplete)
        BY <4>2, Zenon
      <4>4. pc = "save-end" => snap[pos].complete \/ snap[pos].incomplete
        BY Zenon DEF FlagsFollow
      <4> QED BY <3>0, <4>3, <4>4, Zenon
    <3>2. Ended(disk[t]) => Ended(disk'[t])
      BY <2>2, <3>1 DEF Ended
    <3>3. CASE t # pos \/ pc = "save-end"
      <4>1. snap[t].attempts = disk[t].attempts
        BY <3>1, <3>3 DEF Serial, InStep, Same
      <4> QED BY <2>1, <3>1, <3>2, <3>3, <4>1 DEF Ended
    <3>4. CASE t = pos /\ pc = "save-try"
      <4>1. snap[t].attempts = disk[t].attempts + 1
        BY <2>1, <3>4 DEF Serial, InStep, Same, Counted, Entries
      <4> QED BY <2>1, <3>1, <3>2, <3>4, <4>1
    <3>5. CASE t = pos /\ pc = "save-new"
      <4>1. ~disk[t].on /\ snap[t].attempts = 0
        BY <3>5 DEF Serial, InStep
      <4>2. disk[t].attempts = 0
        BY <4>1 DEF Facts, Truth, HonestTable, Honest
      <4> QED BY <3>1, <3>2, <3>5, <4>1, <4>2
    <3> QED BY <3>1, <3>3, <3>4, <3>5
  <2>5. CASE HandlerSave /\ ~TickSave
    BY <2>2, <2>5, HandlerFlags DEF Ended
  <2>6. UNCHANGED disk \/ TickSave \/ HandlerSave
    BY DEF Next, Tick, TickStart, Skip, Visit, Concluded, Conclude, NotDue, Try, Broadcast,
           TickNext, Create, OtherTask, Handle, PeerReceives, PeerAnswers, Lose, Restart
  <2> QED BY <2>3, <2>4, <2>5, <2>6
<1>3. /\ Inv /\ FlagsFollow /\ [Next]_vars
        => FlagsFollow' /\ [\A t \in Tasks : ~May("overlap") => Goes(t)]_vars
  BY <1>2, FlagsStep
<1> HIDE DEF Goes
<1>4. Spec => [][\A t \in Tasks : ~May("overlap") => Goes(t)]_vars
  BY <1>1, <1>3, Invariance, PTL DEF Spec
<1> QED BY <1>4 DEF DeliveryProgresses, Goes
=============================================================================
