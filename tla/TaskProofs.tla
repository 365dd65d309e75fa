----------------------------- MODULE TaskProofs -----------------------------
(***************************************************************************)
(* Proofs about a task in tasks.json.  The first part is about TaskStore,  *)
(* for every set of tasks, operations and files: its types, that a file    *)
(* written by operations that do not overlap can always be read, and that  *)
(* such a store implements TaskTable.  The second part is about TaskClaim, *)
(* whose nodes update such files, for any executors: arbitration has one   *)
(* winner while claims are timely, and whatever the network does a node    *)
(* executes a task once.  The two specifications have no name in common.   *)
(***************************************************************************)
EXTENDS TaskStore, TaskClaim, WellFoundedInduction, FiniteSetTheorems, TLAPS

-----------------------------------------------------------------------------
(* The file.                                                                *)

(* No entry has seen more updates than were started on it. *)
Counted ==
    /\ \A f \in Files, t \in Tasks : content[f].table[t] <= begun[t]
    /\ \A o \in Ops, t \in Tasks : copy[o][t] <= begun[t]

(* The state of an operation in progress when no other is: what it has      *)
(* loaded is the file, and what it has written is its temporary file.       *)
Alone(o) ==
    /\ copy[o] = [Loaded EXCEPT ![task[o]] = @ + 1]
    /\ at[o] = "write" => /\ name.tmp # NoFile
                          /\ fd[o] = name.tmp
                          /\ content[name.tmp] = Torn
    /\ at[o] = "rename" => /\ name.tmp # NoFile
                           /\ content[name.tmp] = Whole(copy[o])

AloneWhenSerial ==
    ~overlap =>
        /\ \A o, q \in Busy : o = q
        /\ name.tasks # NoFile => name.tasks # name.tmp
        /\ Readable
        /\ \A o \in Busy : Alone(o)

StoreInv == StoreTypes /\ Counted /\ AloneWhenSerial

-----------------------------------------------------------------------------
(* What loadTasks returns is a table that counts no unstarted update.       *)
LEMMA LoadedType ==
    ASSUME StoreTypes
    PROVE  Loaded \in Table
<1>1. CASE name.tasks = NoFile
  BY <1>1, TaskStoreAssumption DEF Loaded, Empty, Table
<1>2. CASE name.tasks # NoFile
  <2>1. name.tasks \in Files
    BY <1>2 DEF StoreTypes
  <2>2. content[name.tasks] \in Contents
    BY <2>1 DEF StoreTypes
  <2> QED
    BY <1>2, <2>2 DEF Loaded, Contents
<1> QED
  BY <1>1, <1>2

LEMMA LoadedCounted ==
    ASSUME StoreTypes, Counted, NEW t \in Tasks
    PROVE  Loaded[t] <= begun[t]
<1>1. CASE name.tasks = NoFile
  BY <1>1 DEF Loaded, Empty, Table, StoreTypes
<1>2. CASE name.tasks # NoFile
  <2>1. name.tasks \in Files
    BY <1>2 DEF StoreTypes
  <2> QED
    BY <1>2, <2>1 DEF Loaded, Counted
<1> QED
  BY <1>1, <1>2

LEMMA EmptyType == Empty \in Table /\ Torn \in Contents
  BY TaskStoreAssumption DEF Empty, Table, Torn, Contents

(* StoreInit establishes the invariant. *)
LEMMA StoreInitInv == StoreInit => StoreInv
<1> SUFFICES ASSUME StoreInit PROVE StoreInv
  OBVIOUS
<1>1. StoreTypes
  <2>1. (CHOOSE t \in Tasks : TRUE) \in Tasks
    BY TaskStoreAssumption
  <2>2. begun \in Table
    BY TaskStoreAssumption DEF StoreInit, Table
  <2> QED
    BY <2>1, <2>2, EmptyType DEF StoreInit, StoreTypes
<1>2. Counted
  BY DEF StoreInit, Counted, Torn, Empty
<1>3. AloneWhenSerial
  BY DEF StoreInit, AloneWhenSerial, Busy, Readable
<1> QED
  BY <1>1, <1>2, <1>3 DEF StoreInv

-----------------------------------------------------------------------------
(* Every step keeps the types and the counts. *)
LEMMA StoreTypeStep ==
    ASSUME StoreTypes, Counted, [StoreNext]_storeVars
    PROVE  StoreTypes' /\ Counted'
<1> USE DEF StoreTypes
<1>1. ASSUME NEW o \in Ops, Load(o) PROVE StoreTypes' /\ Counted'
  <2>1. PICK t \in Tasks :
          /\ begun[t] < MaxUpdates
          /\ begun' = [begun EXCEPT ![t] = @ + 1]
          /\ task' = [task EXCEPT ![o] = t]
          /\ copy' = [copy EXCEPT ![o] = [Loaded EXCEPT ![t] = @ + 1]]
    BY <1>1 DEF Load
  <2>2. begun \in [Tasks -> Nat] /\ begun[t] + 1 \in 0..MaxUpdates
    BY <2>1, TaskStoreAssumption DEF Table
  <2>3. begun' \in Table /\ \A u \in Tasks : begun[u] <= begun'[u]
    BY <2>1, <2>2, TaskStoreAssumption DEF Table
  <2>4. Loaded \in [Tasks -> Nat] /\ Loaded[t] + 1 \in 0..MaxUpdates
    BY <2>2, LoadedType, LoadedCounted, TaskStoreAssumption DEF Table
  <2>5. [Loaded EXCEPT ![t] = @ + 1] \in Table
    BY <2>4, LoadedType DEF Table
  <2>6. StoreTypes'
    BY <1>1, <2>1, <2>3, <2>5 DEF Load
  <2>7. ASSUME NEW f \in Files, NEW u \in Tasks PROVE content'[f].table[u] <= begun'[u]
    <3>1. content[f].table[u] \in Nat /\ begun[u] \in Nat /\ begun'[u] \in Nat
      BY <2>3, TaskStoreAssumption DEF Contents, Table
    <3>2. content[f].table[u] <= begun[u]
      BY DEF Counted
    <3> QED
      BY <1>1, <2>3, <3>1, <3>2 DEF Load
  <2>8. ASSUME NEW q \in Ops, NEW u \in Tasks PROVE copy'[q][u] <= begun'[u]
    <3>1. copy[q][u] \in Nat /\ begun[u] \in Nat /\ begun'[u] \in Nat /\ Loaded[u] \in Nat
      BY <2>3, <2>4, TaskStoreAssumption DEF Table
    <3>2. copy[q][u] <= begun[u] /\ Loaded[u] <= begun[u] /\ begun[u] <= begun'[u]
      BY <2>3, LoadedCounted DEF Counted
    <3>3. CASE q # o
      BY <2>1, <3>1, <3>2, <3>3
    <3>4. CASE q = o /\ u # t
      BY <2>1, <2>4, <3>1, <3>2, <3>4
    <3>5. CASE q = o /\ u = t
      <4>1. copy'[q][u] = Loaded[u] + 1
        BY <2>1, <2>4, <3>5
      <4>2. begun'[u] = begun[u] + 1
        BY <2>1, <2>2, <3>5
      <4> QED
        BY <4>1, <4>2, <3>1, <3>2
    <3> QED
      BY <3>3, <3>4, <3>5
  <2> QED
    BY <2>6, <2>7, <2>8 DEF Counted
<1>2. ASSUME NEW o \in Ops, Open(o) PROVE StoreTypes' /\ Counted'
  <2>1. PICK f \in Files :
          /\ name' = [name EXCEPT ![Target] = f]
          /\ content' = [content EXCEPT ![f] = Torn]
          /\ fd' = [fd EXCEPT ![o] = f]
    BY <1>2 DEF Open, Unused, Target
  <2>2. StoreTypes'
    BY <1>2, <2>1, EmptyType DEF Open, Target
  <2>3. \A t \in Tasks : Torn.table[t] <= begun[t]
    BY DEF Torn, Empty, Table
  <2>4. Counted'
    BY <1>2, <2>1, <2>3 DEF Open, Counted
  <2> QED
    BY <2>2, <2>4
<1>3. ASSUME NEW o \in Ops, Write(o) PROVE StoreTypes' /\ Counted'
  <2>1. PICK c \in {Whole(copy[o]), Torn} : content' = [content EXCEPT ![fd[o]] = c]
    BY <1>3 DEF Write, Written
  <2>2. c \in Contents /\ \A t \in Tasks : c.table[t] <= begun[t]
    BY <2>1, EmptyType DEF Whole, Torn, Empty, Contents, Counted, Table
  <2>3. StoreTypes'
    BY <1>3, <2>1, <2>2 DEF Write
  <2>4. Counted'
    BY <1>3, <2>1, <2>2 DEF Write, Counted
  <2> QED
    BY <2>3, <2>4
<1>4. ASSUME NEW o \in Ops, Done(o), UNCHANGED <<content, begun>> PROVE Counted'
  BY <1>4 DEF Done, Counted, Empty, Table
<1>5. ASSUME NEW o \in Ops, Rename(o) PROVE StoreTypes' /\ Counted'
  <2>1. StoreTypes'
    BY <1>5, EmptyType DEF Rename, Done
  <2>2. Counted'
    BY <1>4, <1>5 DEF Rename
  <2> QED
    BY <2>1, <2>2
<1>6. ASSUME NEW o \in Ops, RenameFails(o) PROVE StoreTypes' /\ Counted'
  <2>1. StoreTypes'
    BY <1>6, EmptyType DEF RenameFails, Done
  <2>2. Counted'
    BY <1>4, <1>6 DEF RenameFails
  <2> QED
    BY <2>1, <2>2
<1>7. ASSUME StoreRestart PROVE StoreTypes' /\ Counted'
  <2>1. StoreTypes'
    BY <1>7, EmptyType DEF StoreRestart
  <2>2. Counted'
    BY <1>7 DEF StoreRestart, Counted, Empty, Table
  <2> QED
    BY <2>1, <2>2
<1>8. ASSUME UNCHANGED storeVars PROVE StoreTypes' /\ Counted'
  BY <1>8 DEF storeVars, progress, Counted
<1> QED
  BY <1>1, <1>2, <1>3, <1>5, <1>6, <1>7, <1>8 DEF StoreNext

-----------------------------------------------------------------------------
(* While operations do not overlap, every step keeps the file readable and  *)
(* the one operation in progress in step with it; it changes what loadTasks *)
(* returns only in a rename, and then by one update.                        *)
Counts == \E t \in Tasks : Loaded' = [Loaded EXCEPT ![t] = @ + 1]

LEMMA StoreSerialStep ==
    ASSUME StoreInv, [StoreNext]_storeVars, ~overlap
    PROVE  AloneWhenSerial' /\ (Loaded' = Loaded \/ Counts)
<1> USE DEF StoreInv, StoreTypes
<1>0. /\ \A o, q \in Busy : o = q
      /\ name.tasks # NoFile => name.tasks # name.tmp
      /\ Readable
      /\ \A o \in Busy : Alone(o)
  BY DEF AloneWhenSerial
<1>1. ASSUME NEW o \in Ops, Load(o) PROVE AloneWhenSerial' /\ Loaded' = Loaded
  <2>1. Busy = {} /\ Busy' = {o} /\ at'[o] = "open"
    BY <1>1 DEF Load, Busy
  <2>2. Loaded' = Loaded /\ Readable'
    BY <1>0, <1>1 DEF Load, Loaded, Readable
  <2>3. Alone(o)'
    BY <1>1, <2>1, <2>2 DEF Load, Alone
  <2> QED
    BY <1>0, <1>1, <2>1, <2>2, <2>3 DEF AloneWhenSerial, Load
<1>2. ASSUME NEW o \in Ops, Open(o) PROVE AloneWhenSerial' /\ Loaded' = Loaded
  <2>1. PICK f \in Files :
          /\ f \in IF name.tmp = NoFile THEN Unused ELSE {name.tmp}
          /\ name' = [name EXCEPT !.tmp = f]
          /\ content' = [content EXCEPT ![f] = Torn]
          /\ fd' = [fd EXCEPT ![o] = f]
    BY <1>2 DEF Open, Unused, Target
  <2>2. f # name.tasks /\ f # NoFile
    BY <1>0, <2>1, TaskStoreAssumption DEF Unused
  <2>3. name'.tasks = name.tasks /\ name'.tmp = f
    BY <2>1
  <2>4. Loaded' = Loaded /\ Readable'
    BY <1>0, <2>1, <2>2, <2>3 DEF Loaded, Readable
  <2>5. Busy' = Busy /\ o \in Busy /\ at'[o] = "write"
    BY <1>2 DEF Open, Busy
  <2>6. Alone(o)'
    BY <1>0, <1>2, <2>1, <2>2, <2>3, <2>4, <2>5 DEF Alone, Open
  <2> QED
    BY <1>0, <2>2, <2>3, <2>4, <2>5, <2>6 DEF AloneWhenSerial
<1>3. ASSUME NEW o \in Ops, Write(o) PROVE AloneWhenSerial' /\ Loaded' = Loaded
  <2>1. /\ o \in Busy /\ Alone(o) /\ at[o] = "write"
        /\ Busy' = Busy /\ at'[o] = "rename"
    BY <1>0, <1>3 DEF Write, Busy
  <2>2. /\ fd[o] = name.tmp /\ name.tmp # NoFile /\ name.tmp \in Files
        /\ content[fd[o]] = Torn
    BY <2>1 DEF Alone
  <2>3. content' = [content EXCEPT ![name.tmp] = Whole(copy[o])]
    BY <1>3, <2>2 DEF Write, Written
  <2>4. Loaded' = Loaded /\ Readable'
    BY <1>0, <1>3, <2>2, <2>3 DEF Write, Loaded, Readable
  <2>5. Alone(o)'
    BY <1>3, <2>1, <2>2, <2>3, <2>4 DEF Write, Alone
  <2> QED
    BY <1>0, <1>3, <2>1, <2>4, <2>5 DEF AloneWhenSerial, Write
<1>4. ASSUME NEW o \in Ops, Rename(o) PROVE AloneWhenSerial' /\ Counts
  <2>1. o \in Busy /\ Alone(o) /\ at[o] = "rename" /\ Busy' = {}
    BY <1>0, <1>4 DEF Rename, Done, Busy
  <2>2. /\ name.tmp \in Files /\ name.tmp # NoFile
        /\ content[name.tmp] = Whole(copy[o])
        /\ copy[o] = [Loaded EXCEPT ![task[o]] = @ + 1]
    BY <2>1 DEF Alone
  <2>3. name'.tasks = name.tmp /\ name'.tmp = NoFile /\ content' = content
    BY <1>4 DEF Rename
  <2>4. Loaded' = copy[o] /\ Readable'
    BY <2>2, <2>3 DEF Loaded, Readable, Whole
  <2>5. Counts
    BY <2>2, <2>4 DEF Counts
  <2> QED
    BY <2>1, <2>2, <2>3, <2>4, <2>5 DEF AloneWhenSerial
<1>5. ASSUME NEW o \in Ops, RenameFails(o) PROVE FALSE
  BY <1>0, <1>5 DEF RenameFails, Busy, Alone
<1>6. ASSUME StoreRestart PROVE AloneWhenSerial' /\ Loaded' = Loaded
  BY <1>0, <1>6 DEF StoreRestart, AloneWhenSerial, Busy, Readable, Loaded
<1>7. ASSUME UNCHANGED storeVars PROVE AloneWhenSerial' /\ Loaded' = Loaded
  <2>1. Loaded' = Loaded /\ Busy' = Busy /\ Readable'
    BY <1>0, <1>7 DEF storeVars, progress, Loaded, Busy, Readable
  <2>2. \A o \in Busy : Alone(o)'
    BY <1>0, <1>7, <2>1 DEF storeVars, progress, Alone
  <2> QED
    BY <1>0, <1>7, <2>1, <2>2 DEF AloneWhenSerial, storeVars, progress
<1> QED
  BY <1>1, <1>2, <1>3, <1>4, <1>5, <1>6, <1>7 DEF StoreNext

LEMMA OverlapFixed == [StoreNext]_storeVars => overlap' = overlap
  BY DEF StoreNext, storeVars, Load, Open, Write, Rename, RenameFails, StoreRestart

LEMMA StoreStep == StoreInv /\ [StoreNext]_storeVars => StoreInv'
<1> SUFFICES ASSUME StoreInv, [StoreNext]_storeVars PROVE StoreInv'
  OBVIOUS
<1>1. StoreTypes' /\ Counted'
  BY StoreTypeStep DEF StoreInv
<1>2. ASSUME overlap PROVE AloneWhenSerial'
  BY <1>2, OverlapFixed DEF AloneWhenSerial
<1>3. AloneWhenSerial'
  BY <1>2, StoreSerialStep
<1> QED
  BY <1>1, <1>3 DEF StoreInv

THEOREM StoreInvariant == StoreSpec => []StoreInv
<1>1. StoreInit => StoreInv
  BY StoreInitInv
<1>2. StoreInv /\ [StoreNext]_storeVars => StoreInv'
  BY StoreStep
<1> QED
  BY <1>1, <1>2, PTL DEF StoreSpec

(* Every variable of the store keeps its type. *)
THEOREM StoreTypesCorrect == StoreSpec => []StoreTypes
<1>1. StoreInv => StoreTypes
  BY DEF StoreInv
<1> QED
  BY <1>1, StoreInvariant, PTL

(* writeJsonAtomic keeps tasks.json readable through every crash, for any   *)
(* number of operations, as long as they do not overlap.                    *)
THEOREM SerialStoreReadable == StoreSpec => []ReadableWhenSerial
<1>1. StoreInv => ReadableWhenSerial
  BY DEF StoreInv, AloneWhenSerial, ReadableWhenSerial
<1> QED
  BY <1>1, StoreInvariant, PTL

(* The store implements the table of atomic updates: each of its steps is   *)
(* an update of one entry or changes nothing.                               *)
THEOREM StoreImplementsTable == StoreSpec => ImplementsTaskTable
<1>1. StoreInit => Abstract!Init
  BY DEF StoreInit, Abstract!Init, Saved, Loaded, Empty
<1>2. StoreInv /\ [StoreNext]_storeVars => [Abstract!Next]_Saved
  <2> SUFFICES ASSUME StoreInv, [StoreNext]_storeVars PROVE [Abstract!Next]_Saved
    OBVIOUS
  <2>1. CASE overlap
    BY <2>1, OverlapFixed DEF Saved, Empty
  <2>2. CASE ~overlap
    <3>1. Saved = Loaded /\ Saved' = Loaded'
      BY <2>2, OverlapFixed DEF Saved
    <3>2. Loaded' = Loaded \/ Counts
      BY <2>2, StoreSerialStep
    <3> QED
      BY <3>1, <3>2 DEF Counts, Abstract!Next, Abstract!Update
  <2> QED
    BY <2>1, <2>2
<1> QED
  BY <1>1, <1>2, StoreInvariant, PTL DEF StoreSpec, ImplementsTaskTable, Abstract!Spec

-----------------------------------------------------------------------------
(* The claims.                                                              *)

(* A timely claim arrives before the window of a claim that is not earlier  *)
(* closes.                                                                  *)
TimelyDelivery == Delay < Window

Places == {"idle", "recover", "outbound", "claiming", "window", "won", "accepting", "accepted",
           "starting", "executing", "executed", "completing", "completed"}
Updates == [op : {"publish", "own", "recover", "accept", "run", "complete", "sent"}, snap : Copies]
           \cup [op : {"claim"}, claim : Claims, snap : Copies]
Messages == [to : Executors, claim : Claims, due : Nat]

Types ==
    /\ TypeOK
    /\ env \in Envs
    /\ held \in [Executors -> SUBSET Updates]
    /\ pc \in [Executors -> Places]
    /\ claimNet \subseteq Messages

(* While updates do not overlap there is one at a time, and the copy it has *)
(* read is still what the file holds.                                       *)
Serial ==
    "overlap" \notin env =>
        \A e \in Executors : \A u, v \in held[e] : u = v /\ u.snap = table[e]

(* Who has a result, on the way or on the disk, has executed the task.      *)
Produced ==
    /\ resultNet \subseteq ExecutedBy
    /\ \A e \in Executors :
         /\ pc[e] \in {"executed", "completing", "completed"} => executed[e] > 0
         /\ table[e].status = "done" => executed[e] > 0
         /\ \A u \in held[e] : u.op = "complete" \/ u.snap.status = "done" => executed[e] > 0

(* Without overlaps and restarts the status follows the loop, which has     *)
(* executed the task once from the execution on, and not before.            *)
InStep(e) ==
    /\ \/ pc[e] = "idle" /\ table[e].status \in {"absent", "published", "done"}
       \/ pc[e] \in {"claiming", "window", "won", "accepting"} /\ table[e].status = "published"
       \/ pc[e] \in {"accepted", "starting"} /\ table[e].status = "accepted"
       \/ pc[e] \in {"executing", "executed", "completing"} /\ table[e].status = "running"
       \/ pc[e] \in {"completed", "outbound"} /\ table[e].status = "done"
    /\ executed[e] = IF pc[e] \in {"executed", "completing"} \/ table[e].status = "done"
                     THEN 1 ELSE 0
    /\ \A u \in held[e] : u.op = "publish" => u.snap.status = "absent"

Lifecycle == env \cap {"overlap", "crash"} = {} => \A e \in Executors : InStep(e)

(* The claims of the tables, and where they come from: a claim is in the    *)
(* table of the node that made it, and in every other one unless it is on   *)
(* the way there and not late.                                              *)
Rooted(c) == c \in table[c.by].claims
Fresh(c) == now <= c.ts + Delay
Spread(c, e) ==
    \/ c \in table[e].claims
    \/ \E u \in held[e] : u.op = "claim" /\ u.claim = c
    \/ \E m \in claimNet : m.to = e /\ m.claim = c

ClaimsKnown ==
    /\ \A e \in Executors :
         /\ \A c \in table[e].claims : Rooted(c) /\ \A f \in Executors : Spread(c, f)
         /\ \A u \in held[e] : u.op = "claim" => Rooted(u.claim) /\ Fresh(u.claim)
         /\ table[e].status # "absent"
    /\ \A m \in claimNet : Rooted(m.claim) /\ m.due = m.claim.ts + Delay /\ Fresh(m.claim)

(* The window of a node is that of a claim it has made.                     *)
WindowOpen(e) ==
    /\ pc[e] = "claiming" => ts[e] = now /\ \E u \in held[e] : u.op = "own"
    /\ pc[e] = "window" => wake[e] = ts[e] + Window /\ Claim(e, ts[e]) \in table[e].claims

(* A node that won has the first claim of all, and no claim to come is      *)
(* before it.                                                               *)
First(e) ==
    \E c \in table[e].claims :
        /\ c.by = e /\ c.ts < now
        /\ \A f \in Executors : \A d \in table[f].claims : Before(c, d)

Committed(e) ==
    \/ pc[e] \in {"won", "accepting", "accepted", "starting", "executing", "executed",
                  "completing", "completed"}
    \/ table[e].status \in {"accepted", "running", "done"}
    \/ executed[e] > 0

Timely ==
    env = {} =>
        /\ ClaimsKnown
        /\ \A e \in Executors :
             WindowOpen(e) /\ (Committed(e) => First(e)) /\ ~table[e].invalid

(* What holds in every environment, and with it what needs timely claims.   *)
Always == Types /\ Serial /\ Produced /\ Lifecycle /\ ResultWasExecuted
Inv == Always /\ Timely
-----------------------------------------------------------------------------
(* Claims are totally ordered, and any set of them has a first one, whose   *)
(* node Winner names.                                                       *)
LEMMA ClaimOrder ==
    ASSUME NEW b \in Claims, NEW c \in Claims, NEW d \in Claims
    PROVE  /\ Before(c, d) \/ Before(d, c)
           /\ Before(c, d) /\ Before(d, c) => c = d
           /\ Before(b, c) /\ Before(c, d) => Before(b, d)
<1>1. /\ b.by \in Nat /\ c.by \in Nat /\ d.by \in Nat
      /\ b.ts \in Nat /\ c.ts \in Nat /\ d.ts \in Nat
  BY TaskClaimAssumption DEF Claims
<1>2. c.by = d.by /\ c.ts = d.ts => c = d
  BY DEF Claims
<1> QED BY <1>1, <1>2 DEF Before

LEMMA LeastNumber ==
    ASSUME NEW B \in SUBSET Nat, B # {}
    PROVE  \E b \in B : \A c \in B : b <= c
<1>1. PICK b \in B : \A c \in B : ~(<<c, b>> \in OpToRel(<, Nat))
  BY WFMin, NatLessThanWellFounded
<1>2. \A c \in B : ~(c < b)
  BY <1>1 DEF OpToRel
<1> QED BY <1>2

LEMMA FirstClaim ==
    ASSUME NEW C \in SUBSET Claims, C # {}
    PROVE  \E c \in C : c.by = Winner(C) /\ \A d \in C : Before(c, d)
<1>1. \A c \in C : c.by \in Nat /\ c.ts \in Nat
  BY TaskClaimAssumption DEF Claims
<1>2. PICK t \in {c.ts : c \in C} : \A s \in {c.ts : c \in C} : t <= s
  <2>1. {c.ts : c \in C} \in SUBSET Nat /\ {c.ts : c \in C} # {}
    BY <1>1
  <2> QED BY <2>1, LeastNumber
<1> DEFINE Early == {c \in C : c.ts = t}
<1>3. PICK n \in {c.by : c \in Early} : \A m \in {c.by : c \in Early} : n <= m
  <2>1. {c.by : c \in Early} \in SUBSET Nat /\ {c.by : c \in Early} # {}
    BY <1>1, <1>2
  <2> HIDE DEF Early
  <2> QED BY <2>1, LeastNumber
<1>4. PICK c \in Early : c.by = n
  BY <1>3
<1>5. c \in C /\ \A d \in C : Before(c, d)
  <2>1. c \in C /\ c.ts = t /\ c.ts \in Nat /\ c.by \in Nat
    BY <1>1, <1>4
  <2>2. ASSUME NEW d \in C PROVE Before(c, d)
    <3>1. t <= d.ts
      BY <1>2
    <3>2. d.ts = t => n <= d.by
      BY <1>3
    <3> QED BY <1>1, <1>4, <2>1, <3>1, <3>2 DEF Before
  <2> QED BY <2>1, <2>2
<1>6. (CHOOSE x \in C : \A d \in C : Before(x, d)) \in {x \in C : \A d \in C : Before(x, d)}
  BY <1>5
<1> QED BY <1>6 DEF Winner

LEMMA WinnerIs ==
    ASSUME NEW C \in SUBSET Claims, NEW c \in C, \A d \in C : Before(c, d)
    PROVE  Winner(C) = c.by
<1>1. PICK x \in C : x.by = Winner(C) /\ \A d \in C : Before(x, d)
  BY FirstClaim
<1> QED BY <1>1, ClaimOrder

-----------------------------------------------------------------------------
(* What an update does to the copy of the task.                             *)
LEMMA UpdateIs ==
    ASSUME Types, NEW e \in Executors, NEW u \in held[e]
    PROVE  /\ u \in Updates /\ u.snap \in Copies
           /\ u.op = "claim" => u.claim \in Claims
           /\ Updated(e, u) \in Copies
           /\ u.op = "own" => Updated(e, u).claims = u.snap.claims \cup {Claim(e, ts[e])}
           /\ u.op = "claim" => Updated(e, u).claims = u.snap.claims \cup {u.claim}
           /\ u.op \notin {"own", "claim"} => Updated(e, u).claims = u.snap.claims
           /\ Updated(e, u).status =
                CASE u.op \in {"publish", "recover"} -> "published"
                  [] u.op = "accept" -> "accepted"
                  [] u.op = "run" -> "running"
                  [] u.op = "complete" -> "done"
                  [] OTHER -> u.snap.status
           /\ Updated(e, u).invalid =
                (u.snap.invalid \/ /\ u.op = "claim" /\ u.snap.status = "running"
                                   /\ Winner(u.snap.claims \cup {u.claim}) # e)
<1>1. /\ u \in Updates /\ u.snap \in Copies
      /\ u.op \in {"publish", "own", "recover", "accept", "run", "complete", "sent", "claim"}
      /\ u.op = "claim" => u.claim \in Claims
  BY DEF Types, Updates
<1>2. Claim(e, ts[e]) \in Claims
  BY DEF Types, TypeOK, Claim, Claims
<1>3. CASE u.op = "claim"
  <2> DEFINE seen == [u.snap EXCEPT !.claims = @ \cup {u.claim}]
  <2>1. seen \in Copies /\ seen.claims = u.snap.claims \cup {u.claim} /\ seen.status = u.snap.status
        /\ seen.invalid = u.snap.invalid
    BY <1>1, <1>3 DEF Copies
  <2>2. Updated(e, u) = [seen EXCEPT !.invalid =
                           @ \/ (u.snap.status = "running" /\ Winner(seen.claims) # e)]
    BY <1>3 DEF Updated, ReceiveClaim, AddClaim
  <2> HIDE DEF seen
  <2>3. /\ Updated(e, u) \in Copies /\ Updated(e, u).claims = seen.claims
        /\ Updated(e, u).status = seen.status
        /\ Updated(e, u).invalid =
             (seen.invalid \/ (u.snap.status = "running" /\ Winner(seen.claims) # e))
    BY <2>1, <2>2 DEF Copies
  <2> QED BY <1>1, <1>3, <2>1, <2>3
<1>4. CASE u.op = "own"
  <2>1. Updated(e, u) = [u.snap EXCEPT !.claims = @ \cup {Claim(e, ts[e])}]
    BY <1>4 DEF Updated, AddClaim
  <2> HIDE DEF Claim
  <2> QED BY <1>1, <1>2, <1>4, <2>1 DEF Copies
<1>5. CASE u.op = "sent"
  BY <1>1, <1>5 DEF Updated, Copies
<1>6. CASE u.op \in {"publish", "recover", "accept", "run", "complete"}
  <2>1. PICK s \in Statuses :
          /\ s = CASE u.op \in {"publish", "recover"} -> "published"
                   [] u.op = "accept" -> "accepted"
                   [] u.op = "run" -> "running"
                   [] OTHER -> "done"
          /\ Updated(e, u) = [u.snap EXCEPT !.status = s]
    BY <1>6 DEF Updated, Statuses
  <2> QED BY <1>1, <1>6, <2>1 DEF Copies
<1> QED BY <1>1, <1>3, <1>4, <1>5, <1>6

LEMMA ReadIs ==
    ASSUME Types, NEW e \in Executors, NEW op \in {"publish", "own", "recover", "accept", "run",
                                                   "complete", "sent"},
           Read(e, op)
    PROVE  \E u \in Updates :
             /\ u.op = op /\ u.snap = table[e]
             /\ held' = [held EXCEPT ![e] = @ \cup {u}]
             /\ held' \in [Executors -> SUBSET Updates]
             /\ Free(e)
<1> DEFINE u == [op |-> op, snap |-> table[e]]
<1>1. u \in Updates
  BY DEF Types, TypeOK, Updates
<1>2. u.op = op /\ u.snap = table[e]
  OBVIOUS
<1>3. held' = [held EXCEPT ![e] = @ \cup {u}] /\ Free(e)
  BY DEF Read, ReadWith
<1> HIDE DEF u
<1> QED BY <1>1, <1>2, <1>3 DEF Types

LEMMA SaveTypes ==
    ASSUME Types, NEW e \in Executors, NEW op, Save(e, op)
    PROVE  table' \in [Executors -> Copies] /\ held' \in [Executors -> SUBSET Updates]
<1>1. PICK u \in held[e] : /\ table' = [table EXCEPT ![e] = Updated(e, u)]
                           /\ held' = [held EXCEPT ![e] = @ \ {u}]
  BY DEF Save
<1>2. Updated(e, u) \in Copies
  BY UpdateIs
<1> QED BY <1>1, <1>2 DEF Types, TypeOK

(* Every step keeps the types. *)
LEMMA TypesStep == ASSUME Types, [Next]_vars PROVE Types'
<1> USE TaskClaimAssumption DEF Types, TypeOK, Places, Goto, context, window, net, None
<1>1. ASSUME held' \in [Executors -> SUBSET Updates]
      PROVE  \A e \in Executors : \A u \in held'[e] : u.snap \in Copies
  BY <1>1 DEF Updates
<1>2. ASSUME NEW e \in Executors, NEW op \in {"publish", "own", "recover", "accept", "run",
                                                   "complete", "sent"},
             Read(e, op), UNCHANGED <<env, now, table, claimNet, result, wake, executed>>,
             pc' \in [Executors -> Places], ts' \in [Executors -> Nat],
             tries' \in [Executors -> 0..MaxTries], resultNet' \subseteq Executors
      PROVE  Types'
  <2>1. held' \in [Executors -> SUBSET Updates]
    BY <1>2, ReadIs
  <2> QED BY <1>1, <1>2, <2>1
<1>3. ASSUME NEW e \in Executors, NEW op, Save(e, op),
             UNCHANGED <<env, now, ts, tries, resultNet, result, executed>>,
             pc' \in [Executors -> Places], wake' \in [Executors -> Nat],
             claimNet' \subseteq Messages
      PROVE  Types'
  <2>1. table' \in [Executors -> Copies] /\ held' \in [Executors -> SUBSET Updates]
    BY <1>3, SaveTypes
  <2>2. \A m \in claimNet' : m.to \in Executors /\ m.claim \in Claims
    BY <1>3 DEF Messages
  <2> QED BY <1>1, <1>3, <2>1, <2>2
<1>4. ASSUME NEW e \in Executors, Loop(e) PROVE Types'
  <2>1. CASE RecoverRead(e) \/ AcceptRead(e) \/ RunRead(e) \/ CompleteRead(e)
    <3>1. pc' \in [Executors -> Places]
      BY <2>1 DEF RecoverRead, AcceptRead, RunRead, CompleteRead
    <3>2. CASE RecoverRead(e)
      BY <1>2, <3>1, <3>2 DEF RecoverRead
    <3>3. CASE AcceptRead(e)
      BY <1>2, <3>1, <3>3 DEF AcceptRead
    <3>4. CASE RunRead(e)
      BY <1>2, <3>1, <3>4 DEF RunRead
    <3>5. CASE CompleteRead(e)
      BY <1>2, <3>1, <3>5 DEF CompleteRead
    <3> QED BY <2>1, <3>2, <3>3, <3>4, <3>5
  <2>2. CASE OutboundRead(e)
    BY <1>2, <2>2 DEF OutboundRead, SendResult
  <2>3. CASE OpenWindow(e)
    <3>1. PICK skew \in 0..(IF "skew" \in env THEN MaxSkew ELSE 0) : ts' = [ts EXCEPT ![e] = now + skew]
      BY <2>3 DEF OpenWindow
    <3>2. now + skew \in Nat
      BY <3>1
    <3>3. ts' \in [Executors -> Nat]
      BY <3>1, <3>2
    <3>4. tries' \in [Executors -> 0..MaxTries]
      BY <2>3 DEF OpenWindow
    <3>5. pc' \in [Executors -> Places] /\ Read(e, "own")
      BY <2>3 DEF OpenWindow
    <3> QED BY <1>2, <2>3, <3>3, <3>4, <3>5 DEF OpenWindow
  <2>4. CASE RecoverSave(e) \/ OutboundSave(e) \/ AcceptSave(e) \/ RunSave(e) \/ CompleteSave(e)
    <3>1. pc' \in [Executors -> Places]
      BY <2>4 DEF RecoverSave, OutboundSave, AcceptSave, RunSave, CompleteSave
    <3>2. \E op : Save(e, op)
      BY <2>4 DEF RecoverSave, OutboundSave, AcceptSave, RunSave, CompleteSave
    <3> QED BY <1>3, <2>4, <3>1, <3>2 DEF RecoverSave, OutboundSave, AcceptSave, RunSave, CompleteSave
  <2>5. CASE BroadcastClaim(e)
    <3>1. claimNet' \subseteq Messages
      <4> DEFINE message(f) == [to |-> f, claim |-> Claim(e, ts[e]), due |-> Due]
      <4>1. \A f \in Executors : message(f) \in Messages
        BY DEF Messages, Claim, Claims, Due
      <4>2. claimNet' = claimNet \cup {message(f) : f \in Executors \ {e}}
        BY <2>5 DEF BroadcastClaim
      <4>3. claimNet \subseteq Messages
        OBVIOUS
      <4> HIDE DEF message
      <4> QED BY ONLY <4>1, <4>2, <4>3
    <3>2. wake' \in [Executors -> Nat] /\ pc' \in [Executors -> Places]
      BY <2>5 DEF BroadcastClaim
    <3> QED BY <1>3, <2>5, <3>1, <3>2 DEF BroadcastClaim
  <2>6. CASE CloseWindow(e) \/ AcceptRefused(e) \/ RunRefused(e)
    BY <2>6 DEF CloseWindow, AcceptRefused, RunRefused
  <2>7. CASE ExecuteTask(e)
    <3>1. executed' \in [Executors -> Nat]
      BY <2>7 DEF ExecuteTask
    <3> QED BY <2>7, <3>1 DEF ExecuteTask
  <2>8. CASE LoopSendsResult(e)
    BY <2>8 DEF LoopSendsResult, SendResult
  <2> QED BY <1>4, <2>1, <2>2, <2>3, <2>4, <2>5, <2>6, <2>7, <2>8 DEF Loop
<1>5. ASSUME NEW e \in Executors, Handler(e) PROVE Types'
  <2>1. CASE PublishArrives(e)
    BY <1>2, <2>1 DEF PublishArrives
  <2>2. CASE PublishSaved(e) \/ ClaimSaved(e)
    <3>1. \E op : Save(e, op)
      BY <2>2 DEF PublishSaved, ClaimSaved
    <3> QED BY <1>3, <2>2, <3>1 DEF PublishSaved, ClaimSaved
  <2>3. CASE ClaimArrives(e)
    <3>1. PICK m \in claimNet :
            /\ claimNet' = claimNet \ {m}
            /\ IF table[e].status = "absent" THEN Free(e) /\ UNCHANGED held
               ELSE ReadWith(e, [op |-> "claim", claim |-> m.claim, snap |-> table[e]])
            /\ UNCHANGED <<context, now, table, pc, window, resultNet, result, executed>>
      BY <2>3 DEF ClaimArrives
    <3>2. [op |-> "claim", claim |-> m.claim, snap |-> table[e]] \in Updates
      BY DEF Updates
    <3>3. held' \in [Executors -> SUBSET Updates]
      BY <3>1, <3>2 DEF ReadWith
    <3> QED BY <1>1, <3>1, <3>3
  <2> QED BY <1>5, <2>1, <2>2, <2>3 DEF Handler
<1>6. ASSUME NEW e \in Executors, Restart(e) PROVE Types'
  <2>1. held' \in [Executors -> SUBSET Updates]
    BY <1>6 DEF Restart
  <2> QED BY <1>1, <1>6, <2>1 DEF Restart
<1>7. CASE ClaimLost
  BY <1>7 DEF ClaimLost
<1>8. CASE ResultArrives
  BY <1>8 DEF ResultArrives
<1>9. CASE Tick
  BY <1>9 DEF Tick
<1>10. CASE UNCHANGED vars
  BY <1>10 DEF vars
<1> QED BY <1>4, <1>5, <1>6, <1>7, <1>8, <1>9, <1>10 DEF Next

-----------------------------------------------------------------------------
(* What a step does to the tables: it reads one for an update, saves an     *)
(* update, stops the updates of a node, or leaves all of this alone.        *)
Reads(e, u) == /\ Free(e) /\ u.snap = table[e]
               /\ u.op = "complete" => pc[e] = "executed"
               /\ u.op = "publish" => table[e].status = "absent"
               /\ held' = [held EXCEPT ![e] = @ \cup {u}] /\ table' = table
Saves(e, u) == /\ table' = [table EXCEPT ![e] = Updated(e, u)]
               /\ held' = [held EXCEPT ![e] = @ \ {u}]
               /\ u.op = "own" => pc[e] = "claiming"
               /\ u.op \in {"accept", "run", "complete"}
                     => pc[e] \in {"accepting", "starting", "completing"}
Stops(e) == held' = [held EXCEPT ![e] = {}] /\ table' = table

LEMMA DiskStep ==
    ASSUME Types, [Next]_vars
    PROVE  /\ env' = env
           /\ \/ \E e \in Executors : \E u \in Updates : Reads(e, u)
              \/ \E e \in Executors : \E u \in held[e] : Saves(e, u)
              \/ \E e \in Executors : Stops(e)
              \/ UNCHANGED <<table, held>>
<1> USE DEF context, window, net
<1>1. ASSUME NEW e \in Executors, NEW op \in {"publish", "own", "recover", "accept", "run",
                                                   "complete", "sent"},
             Read(e, op), table' = table, op = "complete" => pc[e] = "executed",
             op = "publish" => table[e].status = "absent"
      PROVE  \E u \in Updates : Reads(e, u)
  BY <1>1, ReadIs DEF Reads
<1>2. ASSUME NEW e \in Executors, Loop(e)
      PROVE  env' = env /\ \/ \E u \in Updates : Reads(e, u)
                           \/ \E u \in held[e] : Saves(e, u)
                           \/ UNCHANGED <<table, held>>
  <2>1. CASE RecoverRead(e) \/ AcceptRead(e) \/ RunRead(e) \/ CompleteRead(e)
             \/ OutboundRead(e) \/ OpenWindow(e)
    BY <1>1, <2>1
       DEF RecoverRead, AcceptRead, RunRead, CompleteRead, OutboundRead, OpenWindow, Goto
  <2>2. CASE RecoverSave(e) \/ OutboundSave(e) \/ AcceptSave(e) \/ RunSave(e) \/ CompleteSave(e)
             \/ BroadcastClaim(e)
    BY <2>2 DEF RecoverSave, OutboundSave, AcceptSave, RunSave, CompleteSave, BroadcastClaim,
                Save, Saves, Goto
  <2>3. CASE CloseWindow(e) \/ AcceptRefused(e) \/ RunRefused(e) \/ ExecuteTask(e)
             \/ LoopSendsResult(e)
    BY <2>3 DEF CloseWindow, AcceptRefused, RunRefused, ExecuteTask, LoopSendsResult
  <2> QED BY <1>2, <2>1, <2>2, <2>3 DEF Loop
<1>3. ASSUME NEW e \in Executors, Handler(e)
      PROVE  env' = env /\ \/ \E u \in Updates : Reads(e, u)
                           \/ \E u \in held[e] : Saves(e, u)
                           \/ UNCHANGED <<table, held>>
  <2>1. CASE PublishArrives(e)
    BY <1>1, <2>1 DEF PublishArrives
  <2>2. CASE PublishSaved(e) \/ ClaimSaved(e)
    BY <2>2 DEF PublishSaved, ClaimSaved, Save, Saves
  <2>3. CASE ClaimArrives(e)
    <3>1. PICK m \in claimNet :
            /\ IF table[e].status = "absent" THEN Free(e) /\ UNCHANGED held
               ELSE ReadWith(e, [op |-> "claim", claim |-> m.claim, snap |-> table[e]])
            /\ UNCHANGED <<context, now, table, pc, window, resultNet, result, executed>>
      BY <2>3 DEF ClaimArrives
    <3> DEFINE u == [op |-> "claim", claim |-> m.claim, snap |-> table[e]]
    <3>2. u \in Updates /\ u.snap = table[e] /\ u.op = "claim"
      BY DEF Updates, Types, TypeOK
    <3> HIDE DEF u
    <3>3. ReadWith(e, u) => Reads(e, u)
      BY <3>1, <3>2 DEF ReadWith, Reads
    <3> QED BY <3>1, <3>2, <3>3 DEF u
  <2> QED BY <1>3, <2>1, <2>2, <2>3 DEF Handler
<1>4. ASSUME NEW e \in Executors, Restart(e) PROVE env' = env /\ Stops(e)
  BY <1>4 DEF Restart, Stops
<1>5. CASE ClaimLost \/ ResultArrives \/ Tick \/ UNCHANGED vars
  BY <1>5 DEF ClaimLost, ResultArrives, Tick, vars
<1> QED BY <1>2, <1>3, <1>4, <1>5 DEF Next

LEMMA SerialStep == ASSUME Types, Serial, [Next]_vars PROVE Serial'
<1> SUFFICES ASSUME "overlap" \notin env, NEW f \in Executors, NEW v \in held'[f], NEW w \in held'[f]
             PROVE  v = w /\ v.snap = table'[f]
  BY DiskStep DEF Serial
<1>1. \A x, y \in held[f] : x = y /\ x.snap = table[f]
  BY DEF Serial
<1>2. ASSUME NEW e \in Executors, NEW u \in Updates, Reads(e, u) PROVE v = w /\ v.snap = table'[f]
  BY <1>1, <1>2 DEF Reads, Free, Types
<1>3. ASSUME NEW e \in Executors, NEW u \in held[e], Saves(e, u) PROVE v = w /\ v.snap = table'[f]
  <2>1. CASE e = f
    BY <1>1, <1>3, <2>1 DEF Saves, Types
  <2>2. CASE e # f
    BY <1>1, <1>3, <2>2 DEF Saves, Types, TypeOK
  <2> QED BY <2>1, <2>2
<1>4. ASSUME NEW e \in Executors, Stops(e) PROVE v = w /\ v.snap = table'[f]
  BY <1>1, <1>4 DEF Stops, Types
<1>5. CASE UNCHANGED <<table, held>>
  BY <1>1, <1>5
<1> QED BY <1>2, <1>3, <1>4, <1>5, DiskStep

(* While updates do not overlap no claim of a table is lost.                *)
LEMMA ClaimsKept ==
    ASSUME Types, Serial, [Next]_vars, "overlap" \notin env, NEW f \in Executors
    PROVE  table[f].claims \subseteq table'[f].claims
<1>1. ASSUME NEW e \in Executors, NEW u \in held[e], Saves(e, u)
      PROVE  table[f].claims \subseteq table'[f].claims
  <2>1. u.snap = table[e]
    BY DEF Serial
  <2>2. table[e].claims \subseteq Updated(e, u).claims
    BY <2>1, UpdateIs
  <2> QED BY <1>1, <2>2 DEF Saves, Types, TypeOK
<1> QED BY <1>1, DiskStep DEF Reads, Stops

-----------------------------------------------------------------------------
(* Executions are not undone. *)
LEMMA ExecutionsStay ==
    ASSUME Types, [Next]_vars
    PROVE  \A f \in Executors : executed[f] > 0 => executed'[f] > 0
<1> USE DEF context, window, net
<1>1. ASSUME NEW e \in Executors, ExecuteTask(e)
      PROVE  \A f \in Executors : executed[f] > 0 => executed'[f] > 0
  BY <1>1 DEF ExecuteTask, Types, TypeOK
<1>2. CASE UNCHANGED executed
  BY <1>2
<1> QED BY <1>1, <1>2 DEF Next, Loop, Handler, RecoverRead, RecoverSave, OutboundRead,
      OutboundSave, OpenWindow, BroadcastClaim, CloseWindow, AcceptRead, AcceptRefused, AcceptSave,
      RunRead, RunSave, RunRefused, CompleteRead, CompleteSave, LoopSendsResult, PublishArrives,
      PublishSaved, ClaimArrives, ClaimSaved, Restart, ClaimLost, ResultArrives, Tick, vars

(* Results come from nodes that have executed the task.                     *)
LEMMA ProducedStep == ASSUME Types, Produced, [Next]_vars PROVE Produced'
<1> DEFINE after == {"executed", "completing", "completed"}
<1> USE DEF context, window, net, Goto
<1>1. \A f \in Executors : executed[f] > 0 => executed'[f] > 0
  BY ExecutionsStay
<1>2. \A f \in Executors : pc'[f] \in after => executed'[f] > 0
  <2>1. ASSUME NEW e \in Executors, ExecuteTask(e), NEW f \in Executors, pc'[f] \in after
        PROVE  executed'[f] > 0
    BY <2>1 DEF ExecuteTask, Types, TypeOK, Produced
  <2>2. ASSUME NEW f \in Executors, pc'[f] \in after => pc[f] \in after
        PROVE  pc'[f] \in after => executed'[f] > 0
    BY <1>1, <2>2 DEF Produced
  <2>3. ASSUME NEW e \in Executors, Loop(e), ~ExecuteTask(e), NEW f \in Executors
        PROVE  pc'[f] \in after => pc[f] \in after
    BY <2>3 DEF Loop, RecoverRead, RecoverSave, OutboundRead, OutboundSave, OpenWindow,
        BroadcastClaim, CloseWindow, AcceptRead, AcceptRefused, AcceptSave, RunRead, RunSave,
        RunRefused, CompleteRead, CompleteSave, LoopSendsResult, Types
  <2>4. ASSUME NEW e \in Executors, Restart(e), NEW f \in Executors
        PROVE  pc'[f] \in after => pc[f] \in after
    BY <2>4 DEF Restart, Types
  <2>5. CASE UNCHANGED pc
    BY <2>2, <2>5
  <2> QED BY <2>1, <2>2, <2>3, <2>4, <2>5 DEF Next, Handler, PublishArrives, PublishSaved,
        ClaimArrives, ClaimSaved, ClaimLost, ResultArrives, Tick, vars
<1>3. \A f \in Executors :
        /\ table'[f].status = "done" => executed'[f] > 0
        /\ \A v \in held'[f] : v.op = "complete" \/ v.snap.status = "done" => executed'[f] > 0
  <2> SUFFICES ASSUME NEW f \in Executors
               PROVE  /\ table'[f].status = "done" => executed[f] > 0
                      /\ \A v \in held'[f] : v.op = "complete" \/ v.snap.status = "done"
                                               => executed[f] > 0
    BY <1>1
  <2>1. ASSUME NEW e \in Executors, NEW u \in Updates, Reads(e, u)
        PROVE  \A v \in held'[f] : v \in held[f] \/ (f = e /\ v = u)
    BY <2>1 DEF Reads, Types
  <2>2. ASSUME NEW e \in Executors, NEW u \in Updates, Reads(e, u)
        PROVE  u.op = "complete" \/ u.snap.status = "done" => executed[e] > 0
    BY <2>2 DEF Reads, Produced
  <2>3. ASSUME NEW e \in Executors, NEW u \in held[e], Saves(e, u)
        PROVE  /\ table'[f].status = "done" => executed[f] > 0
               /\ held'[f] \subseteq held[f]
    <3>1. Updated(e, u).status = "done" => executed[e] > 0
      BY UpdateIs DEF Produced
    <3> QED BY <2>3, <3>1 DEF Saves, Types, TypeOK, Produced
  <2>4. ASSUME NEW e \in Executors, Stops(e) PROVE table' = table /\ held'[f] \subseteq held[f]
    BY <2>4 DEF Stops, Types
  <2> QED BY <2>1, <2>2, <2>3, <2>4, DiskStep DEF Produced, Reads
<1>4. resultNet' \subseteq ExecutedBy'
  <2>1. ASSUME NEW e \in Executors, executed[e] > 0, SendResult(e)
        PROVE  resultNet' \subseteq ExecutedBy'
    BY <1>1, <2>1 DEF SendResult, ExecutedBy, Produced, Types, TypeOK
  <2>2. ASSUME NEW e \in Executors, OutboundRead(e) \/ LoopSendsResult(e)
        PROVE  executed[e] > 0 /\ SendResult(e)
    BY <2>2 DEF OutboundRead, LoopSendsResult, HasResult, Produced
  <2>3. CASE resultNet' \subseteq resultNet
    BY <1>1, <2>3 DEF ExecutedBy, Produced
  <2> QED BY <2>1, <2>2, <2>3 DEF Next, Loop, Handler, RecoverRead, RecoverSave,
        OutboundSave, OpenWindow, BroadcastClaim, CloseWindow, AcceptRead, AcceptRefused, AcceptSave,
        RunRead, RunSave, RunRefused, ExecuteTask, CompleteRead, CompleteSave, PublishArrives,
        PublishSaved, ClaimArrives, ClaimSaved, Restart, ClaimLost, ResultArrives, Tick, vars
<1> QED BY <1>2, <1>3, <1>4 DEF Produced

(* What the creator has recorded stays, or comes from a result on its way.  *)
LEMMA RecordedStep ==
    ASSUME Types, Produced, ResultWasExecuted, [Next]_vars PROVE ResultWasExecuted'
<1> USE DEF context, window, net, ResultWasExecuted, ExecutedBy
<1>1. \A f \in Executors : executed[f] > 0 => executed'[f] > 0
  BY ExecutionsStay
<1>2. CASE ResultArrives
  BY <1>1, <1>2 DEF ResultArrives, Produced
<1>3. CASE result' = result
  BY <1>1, <1>3
<1> QED BY <1>2, <1>3 DEF Next, Loop, Handler, RecoverRead, RecoverSave, OutboundRead,
      OutboundSave, OpenWindow, BroadcastClaim, CloseWindow, AcceptRead, AcceptRefused, AcceptSave,
      RunRead, RunSave, RunRefused, ExecuteTask, CompleteRead, CompleteSave, LoopSendsResult,
      PublishArrives, PublishSaved, ClaimArrives, ClaimSaved, Restart, ClaimLost, Tick, vars

-----------------------------------------------------------------------------
(* A save while updates do not overlap.                                     *)
LEMMA SaveIs ==
    ASSUME Types, Serial, "overlap" \notin env, NEW e \in Executors, NEW op, Save(e, op)
    PROVE  \E u \in held[e] :
             /\ u.op = op /\ u.snap = table[e] /\ held[e] = {u}
             /\ table'[e] = Updated(e, u)
             /\ table'[e].status = CASE op \in {"publish", "recover"} -> "published"
                                      [] op = "accept" -> "accepted"
                                      [] op = "run" -> "running"
                                      [] op = "complete" -> "done"
                                      [] OTHER -> table[e].status
             /\ \A f \in Executors \ {e} : table'[f] = table[f] /\ held'[f] = held[f]
             /\ held'[e] = {}
<1>1. PICK u \in held[e] : /\ u.op = op
                           /\ table' = [table EXCEPT ![e] = Updated(e, u)]
                           /\ held' = [held EXCEPT ![e] = @ \ {u}]
  BY DEF Save
<1>2. u.snap = table[e] /\ held[e] = {u}
  BY DEF Serial
<1>3. table'[e] = Updated(e, u)
  BY <1>1 DEF Types, TypeOK
<1>4. table'[e].status = CASE op \in {"publish", "recover"} -> "published"
                           [] op = "accept" -> "accepted"
                           [] op = "run" -> "running"
                           [] op = "complete" -> "done"
                           [] OTHER -> table[e].status
  <2>1. Updated(e, u).status = CASE u.op \in {"publish", "recover"} -> "published"
                                 [] u.op = "accept" -> "accepted"
                                 [] u.op = "run" -> "running"
                                 [] u.op = "complete" -> "done"
                                 [] OTHER -> u.snap.status
    BY UpdateIs
  <2> QED BY <1>1, <1>2, <1>3, <2>1
<1> QED BY <1>1, <1>2, <1>3, <1>4 DEF Types, TypeOK

(* Without overlaps and restarts every step keeps the loop and the status   *)
(* of the task together.                                                    *)
LEMMA LifecycleStep == ASSUME Types, Serial, Lifecycle, [Next]_vars PROVE Lifecycle'
<1> SUFFICES ASSUME env \cap {"overlap", "crash"} = {} PROVE \A e \in Executors : InStep(e)'
  BY DiskStep DEF Lifecycle
<1> USE DEF context, window, net, Goto, Types, TypeOK
<1>1. \A e \in Executors : InStep(e)
  BY DEF Lifecycle
<1>2. ASSUME NEW f \in Executors, NEW v \in held'[f], v.op = "publish" PROVE v.snap.status = "absent"
  <2>1. ASSUME NEW e \in Executors, NEW u \in Updates, Reads(e, u) PROVE v.snap.status = "absent"
    BY <1>1, <1>2, <2>1 DEF Reads, InStep
  <2>2. ASSUME NEW e \in Executors, NEW u \in held[e], Saves(e, u) \/ Stops(e)
        PROVE  v \in held[f]
    BY <1>2, <2>2 DEF Saves, Stops
  <2>3. ASSUME NEW e \in Executors, Stops(e) PROVE v \in held[f]
    BY <1>2, <2>3 DEF Stops
  <2> QED BY <1>1, <1>2, <2>1, <2>2, <2>3, DiskStep DEF InStep
<1>3. ASSUME NEW e \in Executors,
             \A f \in Executors \ {e} : /\ pc'[f] = pc[f] /\ table'[f].status = table[f].status
                                        /\ executed'[f] = executed[f],
             /\ \/ pc'[e] = "idle" /\ table'[e].status \in {"absent", "published", "done"}
                \/ pc'[e] \in {"claiming", "window", "won", "accepting"}
                   /\ table'[e].status = "published"
                \/ pc'[e] \in {"accepted", "starting"} /\ table'[e].status = "accepted"
                \/ pc'[e] \in {"executing", "executed", "completing"}
                   /\ table'[e].status = "running"
                \/ pc'[e] \in {"completed", "outbound"} /\ table'[e].status = "done"
             /\ executed'[e] = IF \/ pc'[e] \in {"executed", "completing"}
                                  \/ table'[e].status = "done"
                               THEN 1 ELSE 0
      PROVE  \A f \in Executors : InStep(f)'
  BY <1>1, <1>2, <1>3 DEF InStep
<1>4. ASSUME NEW e \in Executors, Loop(e) PROVE \A f \in Executors : InStep(f)'
  <2>1. ASSUME UNCHANGED <<table, executed>>,
               pc' \in [Executors -> Places], \A f \in Executors \ {e} : pc'[f] = pc[f],
               \/ pc[e] = "idle" /\ pc'[e] = "outbound" /\ table[e].status = "done"
               \/ pc[e] = "idle" /\ pc'[e] = "claiming" /\ table[e].status = "published"
               \/ pc[e] = "window" /\ pc'[e] \in {"won", "idle"}
               \/ pc[e] = "won" /\ pc'[e] \in {"accepting", "idle"}
               \/ pc[e] = "accepted" /\ pc'[e] = "starting"
               \/ pc[e] = "executed" /\ pc'[e] = "completing"
               \/ pc[e] = "completed" /\ pc'[e] = "idle"
        PROVE  \A f \in Executors : InStep(f)'
    BY <1>1, <1>3, <2>1 DEF InStep
  <2>2. CASE RecoverRead(e) \/ RecoverSave(e) \/ RunRefused(e)
    BY <1>1, <2>2 DEF RecoverRead, RecoverSave, RunRefused, Stuck, InStep
  <2>3. CASE OutboundRead(e) \/ OpenWindow(e) \/ CloseWindow(e) \/ AcceptRead(e) \/ AcceptRefused(e)
             \/ RunRead(e) \/ CompleteRead(e) \/ LoopSendsResult(e)
    BY <2>1, <2>3 DEF OutboundRead, HasResult, OpenWindow, CloseWindow, AcceptRead, AcceptRefused,
                      RunRead, CompleteRead, LoopSendsResult, Places
  <2>4. CASE ExecuteTask(e)
    BY <1>1, <1>3, <2>4 DEF ExecuteTask, InStep
  <2>5. ASSUME NEW op, Save(e, op), executed' = executed, \A f \in Executors \ {e} : pc'[f] = pc[f],
               \/ op = "sent" /\ pc[e] = "outbound" /\ pc'[e] = "idle"
               \/ op = "own" /\ pc[e] = "claiming" /\ pc'[e] = "window"
               \/ op = "accept" /\ pc[e] = "accepting" /\ pc'[e] = "accepted"
               \/ op = "run" /\ pc[e] = "starting" /\ pc'[e] = "executing"
               \/ op = "complete" /\ pc[e] = "completing" /\ pc'[e] = "completed"
        PROVE  \A f \in Executors : InStep(f)'
    <3>1. PICK u \in held[e] :
            /\ table'[e].status = CASE op \in {"publish", "recover"} -> "published"
                                     [] op = "accept" -> "accepted"
                                     [] op = "run" -> "running"
                                     [] op = "complete" -> "done"
                                     [] OTHER -> table[e].status
            /\ \A f \in Executors \ {e} : table'[f] = table[f]
      BY <2>5, SaveIs
    <3> QED BY <1>1, <1>3, <2>5, <3>1 DEF InStep
  <2>6. CASE OutboundSave(e) \/ BroadcastClaim(e) \/ AcceptSave(e) \/ RunSave(e) \/ CompleteSave(e)
    BY <2>5, <2>6 DEF OutboundSave, BroadcastClaim, AcceptSave, RunSave, CompleteSave
  <2> QED BY <1>4, <2>2, <2>3, <2>4, <2>6 DEF Loop
<1>5. ASSUME NEW e \in Executors, Handler(e) PROVE \A f \in Executors : InStep(f)'
  <2>1. CASE PublishArrives(e) \/ ClaimArrives(e)
    <3>1. UNCHANGED <<pc, table, executed>>
      BY <2>1 DEF PublishArrives, ClaimArrives
    <3> QED BY <1>1, <1>3, <3>1 DEF InStep
  <2>2. CASE PublishSaved(e) \/ ClaimSaved(e)
    <3>1. PICK op \in {"publish", "claim"} : Save(e, op)
      BY <2>2 DEF PublishSaved, ClaimSaved
    <3>2. PICK u \in held[e] :
            /\ u.op = op /\ u.snap = table[e]
            /\ table'[e].status = CASE op \in {"publish", "recover"} -> "published"
                                     [] op = "accept" -> "accepted"
                                     [] op = "run" -> "running"
                                     [] op = "complete" -> "done"
                                     [] OTHER -> table[e].status
            /\ \A f \in Executors \ {e} : table'[f] = table[f]
      BY <3>1, SaveIs
    <3>3. table'[e].status = IF op = "publish" THEN "published" ELSE table[e].status
      BY <3>1, <3>2
    <3>4. op = "publish" => table[e].status = "absent"
      BY <1>1, <3>2 DEF InStep
    <3>5. UNCHANGED <<pc, executed>>
      BY <2>2 DEF PublishSaved, ClaimSaved
    <3> QED BY <1>1, <1>3, <3>2, <3>3, <3>4, <3>5 DEF InStep
  <2> QED BY <1>5, <2>1, <2>2 DEF Handler
<1>6. CASE (\E e \in Executors : Restart(e)) \/ ClaimLost \/ ResultArrives \/ Tick \/ UNCHANGED vars
  <2>1. UNCHANGED <<pc, table, executed>>
    BY <1>6 DEF Restart, ClaimLost, ResultArrives, Tick, vars
  <2> QED BY <1>1, <1>2, <2>1 DEF InStep
<1> QED BY <1>4, <1>5, <1>6 DEF Next

-----------------------------------------------------------------------------
(* Timely claims.  A claim that is new in a table is that of an open window *)
(* or has been in another table before.                                     *)
LEMMA NewClaims ==
    ASSUME Types, Serial, env = {}, ClaimsKnown, \A e \in Executors : WindowOpen(e), [Next]_vars,
           NEW f \in Executors, NEW d \in table'[f].claims
    PROVE  d \in Claims /\ ((\E x \in Executors : d \in table[x].claims) \/ d.ts = now)
<1> USE DEF Types, TypeOK
<1>1. table[f].claims \subseteq Claims
  BY DEF Copies
<1>2. ASSUME NEW e \in Executors, NEW u \in held[e], Saves(e, u), e = f
      PROVE  d \in Claims /\ ((\E x \in Executors : d \in table[x].claims) \/ d.ts = now)
  <2>1. d \in Updated(e, u).claims
    BY <1>2 DEF Saves
  <2>2. u.snap = table[e]
    BY DEF Serial
  <2>3. CASE u.op = "own"
    <3>1. d \in table[e].claims \/ d = Claim(e, ts[e])
      <4>1. Updated(e, u).claims = u.snap.claims \cup {Claim(e, ts[e])}
        BY <2>3, UpdateIs
      <4> QED BY <2>1, <2>2, <4>1
    <3>2. ts[e] = now
      BY <1>2, <2>3 DEF Saves, WindowOpen
    <3> QED BY <1>1, <1>2, <3>1, <3>2 DEF Claim, Claims
  <2>4. CASE u.op = "claim"
    <3>1. d \in table[e].claims \/ d = u.claim
      <4>1. Updated(e, u).claims = u.snap.claims \cup {u.claim}
        BY <2>4, UpdateIs
      <4> QED BY <2>1, <2>2, <4>1
    <3>2. u.claim \in table[u.claim.by].claims /\ u.claim \in Claims
      BY <2>4, UpdateIs DEF ClaimsKnown, Rooted
    <3> QED BY <1>1, <1>2, <3>1, <3>2 DEF Claims
  <2>5. CASE u.op \notin {"own", "claim"}
    <3>1. d \in table[e].claims
      BY <2>1, <2>2, <2>5, UpdateIs
    <3> QED BY <1>1, <1>2, <3>1
  <2> QED BY <2>3, <2>4, <2>5
<1>3. ASSUME table'[f] = table[f]
      PROVE  d \in Claims /\ ((\E x \in Executors : d \in table[x].claims) \/ d.ts = now)
  BY <1>1, <1>3
<1> QED BY <1>2, <1>3, DiskStep DEF Saves, Reads, Stops

(* Who is first stays first. *)
LEMMA FirstKept ==
    ASSUME Types, Serial, env = {}, ClaimsKnown, \A e \in Executors : WindowOpen(e), [Next]_vars,
           NEW e \in Executors, First(e)
    PROVE  First(e)'
<1>1. PICK c \in table[e].claims :
        /\ c.by = e /\ c.ts < now
        /\ \A f \in Executors : \A d \in table[f].claims : Before(c, d)
  BY DEF First
<1>2. c \in table'[e].claims
  BY ClaimsKept
<1>3. c \in Claims /\ c.ts \in Nat /\ now \in Nat
  BY DEF Types, TypeOK, Copies, Claims
<1>4. c.ts < now'
  <2>1. now' = now \/ now' = now + 1
    BY DEF Next, Loop, Handler, RecoverRead, RecoverSave, OutboundRead, OutboundSave, OpenWindow,
       BroadcastClaim, CloseWindow, AcceptRead, AcceptRefused, AcceptSave, RunRead, RunSave,
       RunRefused, ExecuteTask, CompleteRead, CompleteSave, LoopSendsResult, PublishArrives,
       PublishSaved, ClaimArrives, ClaimSaved, Restart, ClaimLost, ResultArrives, Tick, vars
  <2> QED BY <1>1, <1>3, <2>1
<1>5. ASSUME NEW f \in Executors, NEW d \in table'[f].claims PROVE Before(c, d)
  BY <1>1, <1>3, NewClaims DEF Before
<1> QED BY <1>1, <1>2, <1>4, <1>5 DEF First

(* A node whose window closes with its claim before those it knows has the  *)
(* first claim of all: an earlier one of another node would have arrived.   *)
LEMMA CloseFirst ==
    ASSUME Types, TimelyDelivery, ClaimsKnown, NEW e \in Executors, WindowOpen(e),
           pc[e] = "window", now >= wake[e], WinnerSeenBy(e) = e
    PROVE  First(e)
<1>0. now \in Nat /\ ts[e] \in Nat /\ Window \in Nat /\ Delay \in Nat /\ Delay < Window
  BY TaskClaimAssumption DEF Types, TypeOK, TimelyDelivery
<1>1. wake[e] = ts[e] + Window /\ Claim(e, ts[e]) \in table[e].claims
  BY DEF WindowOpen
<1>2. \A f \in Executors : table[f].claims \in SUBSET Claims
  BY DEF Types, TypeOK, Copies
<1>3. PICK c \in table[e].claims : c.by = e /\ \A d \in table[e].claims : Before(c, d)
  BY <1>1, <1>2, FirstClaim DEF WinnerSeenBy
<1>4. c.ts \in Nat /\ c.ts <= ts[e]
  BY <1>0, <1>1, <1>2, <1>3 DEF Before, Claim, Claims
<1>5. c.ts < now
  BY <1>0, <1>1, <1>4
<1>6. ASSUME NEW f \in Executors, NEW d \in table[f].claims PROVE Before(c, d)
  <2>1. d \in Claims /\ d.ts \in Nat
    BY <1>2 DEF Claims
  <2>2. CASE d.ts > ts[e]
    BY <1>0, <1>4, <2>1, <2>2 DEF Before
  <2>3. CASE ~(d.ts > ts[e])
    <3>1. ~(now <= d.ts + Delay)
      BY <1>0, <1>1, <2>1, <2>3
    <3>2. d \in table[e].claims
      BY <3>1 DEF ClaimsKnown, Spread, Fresh
    <3> QED BY <1>3, <3>2
  <2> QED BY <2>2, <2>3
<1> QED BY <1>3, <1>5, <1>6 DEF First

(* A node that is committed has won a window.                               *)
LEMMA CommittedStep ==
    ASSUME Types, Serial, env = {}, TimelyDelivery, ClaimsKnown,
           \A e \in Executors : WindowOpen(e) /\ (Committed(e) => First(e)), [Next]_vars,
           NEW f \in Executors, Committed(f)'
    PROVE  First(f)'
<1> USE DEF context, window, net, Goto, Types, TypeOK
<1>1. ASSUME CloseWindow(f) PROVE First(f)'
  <2>1. CASE WinnerSeenBy(f) = f
    BY <1>1, <2>1, CloseFirst, FirstKept DEF CloseWindow
  <2>2. CASE WinnerSeenBy(f) # f
    BY <1>1, <2>2, FirstKept DEF CloseWindow, Committed
  <2> QED BY <2>1, <2>2
<1>2. ASSUME ~CloseWindow(f) PROVE Committed(f)
  <2> DEFINE bound == {"won", "accepting", "accepted", "starting", "executing", "executed",
                       "completing", "completed"}
  <2>1. pc'[f] \in bound => pc[f] \in bound
    <3>1. ASSUME NEW e \in Executors, Loop(e) PROVE pc'[f] \in bound => pc[f] \in bound
      BY <1>2, <3>1 DEF Loop, RecoverRead, RecoverSave, OutboundRead, OutboundSave, OpenWindow,
        BroadcastClaim, CloseWindow, AcceptRead, AcceptRefused, AcceptSave, RunRead, RunSave,
        RunRefused, ExecuteTask, CompleteRead, CompleteSave, LoopSendsResult
    <3>2. ASSUME NEW e \in Executors, Restart(e) PROVE pc'[f] \in bound => pc[f] \in bound
      BY <3>2 DEF Restart
    <3>3. CASE UNCHANGED pc
      BY <3>3
    <3> QED BY <3>1, <3>2, <3>3 DEF Next, Handler, PublishArrives, PublishSaved,
        ClaimArrives, ClaimSaved, ClaimLost, ResultArrives, Tick, vars
  <2>2. table'[f].status \in {"accepted", "running", "done"} => Committed(f)
    <3>1. ASSUME NEW u \in held[f], Saves(f, u), table'[f].status \in {"accepted", "running", "done"}
          PROVE  Committed(f)
      <4>1. table'[f].status = Updated(f, u).status /\ u.snap = table[f]
        BY <3>1 DEF Saves, Serial
      <4>2. Updated(f, u).status = CASE u.op \in {"publish", "recover"} -> "published"
                                     [] u.op = "accept" -> "accepted"
                                     [] u.op = "run" -> "running"
                                     [] u.op = "complete" -> "done"
                                     [] OTHER -> u.snap.status
        BY UpdateIs
      <4> QED BY <3>1, <4>1, <4>2 DEF Saves, Committed
    <3>2. ASSUME table'[f] = table[f] PROVE table'[f].status \in {"accepted", "running", "done"} => Committed(f)
      BY <3>2 DEF Committed
    <3> QED BY <3>1, <3>2, DiskStep DEF Saves, Reads, Stops
  <2>3. executed'[f] > 0 => Committed(f)
    <3>1. ASSUME NEW e \in Executors, ExecuteTask(e) PROVE executed'[f] > 0 => Committed(f)
      BY <3>1 DEF ExecuteTask, Committed
    <3>2. CASE UNCHANGED executed
      BY <3>2 DEF Committed
    <3> QED BY <3>1, <3>2 DEF Next, Loop, Handler, RecoverRead, RecoverSave, OutboundRead,
        OutboundSave, OpenWindow, BroadcastClaim, CloseWindow, AcceptRead, AcceptRefused, AcceptSave,
        RunRead, RunSave, RunRefused, CompleteRead, CompleteSave, LoopSendsResult, PublishArrives,
        PublishSaved, ClaimArrives, ClaimSaved, Restart, ClaimLost, ResultArrives, Tick, vars
  <2> QED BY <2>1, <2>2, <2>3 DEF Committed
<1> QED BY <1>1, <1>2, FirstKept

(* The winner's result stays valid: a claim that arrives while it runs is   *)
(* not before its own.                                                      *)
LEMMA ValidStep ==
    ASSUME Types, Serial, env = {}, ClaimsKnown,
           \A e \in Executors : (Committed(e) => First(e)) /\ ~table[e].invalid, [Next]_vars,
           NEW f \in Executors
    PROVE  ~table'[f].invalid
<1>1. ASSUME NEW u \in held[f], Saves(f, u) PROVE ~table'[f].invalid
  <2>1. table'[f] = Updated(f, u) /\ u.snap = table[f]
    BY <1>1 DEF Saves, Types, TypeOK, Serial
  <2>2. table[f].claims \subseteq Claims
    BY DEF Types, TypeOK, Copies
  <2>3. ASSUME u.op = "claim", table[f].status = "running"
        PROVE  Winner(table[f].claims \cup {u.claim}) = f
    <3>1. First(f)
      BY <2>3 DEF Committed
    <3>2. PICK c \in table[f].claims :
            c.by = f /\ \A e \in Executors : \A d \in table[e].claims : Before(c, d)
      BY <3>1 DEF First
    <3>3. u.claim \in Claims /\ u.claim \in table[u.claim.by].claims
      BY <2>3, UpdateIs DEF ClaimsKnown, Rooted
    <3>4. u.claim.by \in Executors
      BY <3>3 DEF Claims
    <3>5. \A d \in table[f].claims \cup {u.claim} : Before(c, d)
      BY <3>2, <3>3, <3>4
    <3> DEFINE seen == table[f].claims \cup {u.claim}
    <3>6. seen \in SUBSET Claims /\ c \in seen /\ \A d \in seen : Before(c, d)
      BY <2>2, <3>3, <3>5
    <3> HIDE DEF seen
    <3>7. Winner(seen) = c.by
      BY <3>6, WinnerIs
    <3> QED BY <3>2, <3>7 DEF seen
  <2>4. Updated(f, u).invalid =
          (u.snap.invalid \/ /\ u.op = "claim" /\ u.snap.status = "running"
                             /\ Winner(u.snap.claims \cup {u.claim}) # f)
    BY UpdateIs
  <2> QED BY <2>1, <2>3, <2>4
<1>2. CASE table'[f] = table[f]
  BY <1>2
<1> QED BY <1>1, <1>2, DiskStep DEF Saves, Reads, Stops, Types, TypeOK

(* The window of a node stays that of its claim.                            *)
LEMMA WindowStep ==
    ASSUME Types, Serial, env = {}, \A e \in Executors : WindowOpen(e), [Next]_vars,
           NEW f \in Executors
    PROVE  WindowOpen(f)'
<1> USE DEF context, window, net, Goto, Types, TypeOK
<1>1. table[f].claims \subseteq table'[f].claims
  BY ClaimsKept
<1>2. ASSUME now' = now, ts'[f] = ts[f], wake'[f] = wake[f],
             pc'[f] = "claiming" => pc[f] = "claiming", pc'[f] = "window" => pc[f] = "window",
             pc'[f] = "claiming" => \A u \in held[f] : u.op = "own" => u \in held'[f]
      PROVE  WindowOpen(f)'
  BY <1>1, <1>2 DEF WindowOpen
<1>3. ASSUME NEW e \in Executors, NEW op, Save(e, op), op # "own",
             now' = now, ts' = ts, wake' = wake,
             pc'[f] = "claiming" => pc[f] = "claiming", pc'[f] = "window" => pc[f] = "window"
      PROVE  WindowOpen(f)'
  <2>1. \A u \in held[f] : u.op = "own" => u \in held'[f]
    BY <1>3 DEF Save
  <2> QED BY <1>2, <1>3, <2>1
<1>4. ASSUME NEW e \in Executors, NEW op, Read(e, op), now' = now, ts' = ts, wake' = wake,
             pc'[f] = "claiming" => pc[f] = "claiming", pc'[f] = "window" => pc[f] = "window"
      PROVE  WindowOpen(f)'
  <2>1. held[f] \subseteq held'[f]
    BY <1>4 DEF Read, ReadWith
  <2> QED BY <1>2, <1>4, <2>1
<1>5. ASSUME NEW e \in Executors, Loop(e) PROVE WindowOpen(f)'
  <2>1. CASE OpenWindow(e)
    <3>1. now' = now /\ wake' = wake /\ held[f] \subseteq held'[f]
      BY <2>1 DEF OpenWindow, Read, ReadWith
    <3>2. CASE e = f
      <4>1. PICK skew \in 0..0 : ts' = [ts EXCEPT ![e] = now + skew]
        BY <2>1 DEF OpenWindow
      <4>2. ts'[f] = now
        BY <3>2, <4>1
      <4>3. \E u \in held'[f] : u.op = "own"
        BY <2>1, <3>2, ReadIs DEF OpenWindow
      <4>4. pc'[f] = "claiming"
        BY <2>1, <3>2 DEF OpenWindow
      <4> QED BY <3>1, <4>2, <4>3, <4>4 DEF WindowOpen
    <3>3. CASE e # f
      BY <1>2, <2>1, <3>1, <3>3 DEF OpenWindow
    <3> QED BY <3>2, <3>3
  <2>2. CASE BroadcastClaim(e)
    <3>1. PICK u \in held[e] :
            u.op = "own" /\ u.snap = table[e] /\ table'[e] = Updated(e, u)
            /\ \A x \in Executors \ {e} : table'[x] = table[x] /\ held'[x] = held[x]
      BY <2>2, SaveIs DEF BroadcastClaim
    <3>2. CASE e = f
      <4>1. u.op = "own" => Updated(e, u).claims = u.snap.claims \cup {Claim(e, ts[e])}
        BY UpdateIs
      <4>2. table'[e].claims = u.snap.claims \cup {Claim(e, ts[e])}
        BY <3>1, <4>1
      <4>3. Claim(e, ts[e]) \in table'[e].claims
        BY <4>2
      <4> QED BY <2>2, <3>2, <4>3 DEF BroadcastClaim, WindowOpen
    <3>3. CASE e # f
      BY <1>2, <2>2, <3>1, <3>3 DEF BroadcastClaim
    <3> QED BY <3>2, <3>3
  <2>3. CASE RecoverRead(e) \/ OutboundRead(e) \/ AcceptRead(e) \/ RunRead(e) \/ CompleteRead(e)
    BY <1>4, <2>3 DEF RecoverRead, OutboundRead, AcceptRead, RunRead, CompleteRead
  <2>4. CASE RecoverSave(e) \/ OutboundSave(e) \/ AcceptSave(e) \/ RunSave(e) \/ CompleteSave(e)
    BY <1>3, <2>4 DEF RecoverSave, OutboundSave, AcceptSave, RunSave, CompleteSave
  <2>5. CASE CloseWindow(e) \/ AcceptRefused(e) \/ RunRefused(e) \/ ExecuteTask(e)
             \/ LoopSendsResult(e)
    BY <1>2, <2>5 DEF CloseWindow, AcceptRefused, RunRefused, ExecuteTask, LoopSendsResult
  <2> QED BY <1>5, <2>1, <2>2, <2>3, <2>4, <2>5 DEF Loop
<1>6. ASSUME NEW e \in Executors, Handler(e) PROVE WindowOpen(f)'
  <2>1. CASE PublishArrives(e)
    BY <1>4, <2>1 DEF PublishArrives
  <2>2. CASE PublishSaved(e) \/ ClaimSaved(e)
    BY <1>3, <2>2 DEF PublishSaved, ClaimSaved
  <2>3. CASE ClaimArrives(e)
    <3>1. held[f] \subseteq held'[f]
      BY <2>3 DEF ClaimArrives, ReadWith
    <3> QED BY <1>2, <2>3, <3>1 DEF ClaimArrives
  <2> QED BY <1>6, <2>1, <2>2, <2>3 DEF Handler
<1>7. CASE ResultArrives \/ UNCHANGED vars
  BY <1>2, <1>7 DEF ResultArrives, vars
<1>8. CASE Tick
  <2>1. held[f] = {} /\ pc[f] # "claiming"
    BY <1>8 DEF Tick, Overdue, WindowOpen
  <2> QED BY <1>1, <1>8, <2>1 DEF Tick, WindowOpen
<1> QED BY <1>5, <1>6, <1>7, <1>8 DEF Next, Restart, ClaimLost

(* Every claim is where it was made, and everywhere else or on its way and  *)
(* not late.                                                                *)
LEMMA ClaimsStep ==
    ASSUME Types, Serial, env = {}, ClaimsKnown, \A e \in Executors : WindowOpen(e), [Next]_vars
    PROVE  ClaimsKnown'
<1> USE DEF context, window, net, Goto, Types, TypeOK
<1>0. \A f \in Executors : \A c \in table[f].claims : c \in Claims /\ c.by \in Executors
  BY DEF Copies, Claims
<1>1. ASSUME UNCHANGED <<table, claimNet, now>>,
             \A f \in Executors : /\ held[f] \subseteq held'[f]
                                  /\ \A u \in held'[f] : u \in held[f] \/ u.op # "claim"
      PROVE  ClaimsKnown'
  <2>1. ASSUME NEW f \in Executors, NEW c \in table[f].claims, NEW x \in Executors
        PROVE  Spread(c, x)'
    BY <1>1 DEF ClaimsKnown, Spread
  <2>2. ASSUME NEW f \in Executors, NEW u \in held'[f], u.op = "claim"
        PROVE  Rooted(u.claim)' /\ Fresh(u.claim)'
    BY <1>1, <2>2 DEF ClaimsKnown, Rooted, Fresh
  <2> QED BY <1>1, <2>1, <2>2 DEF ClaimsKnown, Rooted, Fresh
<1>2. ASSUME NEW e \in Executors, NEW op \in {"publish", "own", "recover", "accept", "run",
                                                   "complete", "sent"},
             Read(e, op), UNCHANGED <<table, claimNet, now>>
      PROVE  ClaimsKnown'
  <2>1. PICK u \in Updates : u.op = op /\ held' = [held EXCEPT ![e] = @ \cup {u}]
    BY <1>2, ReadIs
  <2> QED BY <1>1, <1>2, <2>1
<1>3. ASSUME NEW e \in Executors, NEW op, Save(e, op), op \notin {"own", "claim"},
             UNCHANGED <<claimNet, now>>
      PROVE  ClaimsKnown'
  <2>1. PICK u \in held[e] :
          /\ u.op = op /\ u.snap = table[e] /\ held[e] = {u} /\ table'[e] = Updated(e, u)
          /\ table'[e].status = CASE op \in {"publish", "recover"} -> "published"
                                  [] op = "accept" -> "accepted"
                                  [] op = "run" -> "running"
                                  [] op = "complete" -> "done"
                                  [] OTHER -> table[e].status
          /\ \A f \in Executors \ {e} : table'[f] = table[f] /\ held'[f] = held[f]
          /\ held'[e] = {}
    BY <1>3, SaveIs
  <2>2. \A f \in Executors : table'[f].claims = table[f].claims
    <3>1. Updated(e, u).claims = u.snap.claims
      BY <1>3, <2>1, UpdateIs
    <3> QED BY <2>1, <3>1
  <2>3. table'[e].status # "absent"
    BY <2>1 DEF ClaimsKnown
  <2>4. ASSUME NEW f \in Executors, NEW c \in table[f].claims
        PROVE  Rooted(c)' /\ \A x \in Executors : Spread(c, x)'
    BY <1>0, <1>3, <2>1, <2>2 DEF ClaimsKnown, Rooted, Spread
  <2>5. ASSUME NEW c \in Claims, Rooted(c) PROVE Rooted(c)'
    BY <2>2, <2>5 DEF Rooted, Claims
  <2>6. ASSUME NEW f \in Executors, NEW v \in held'[f], v.op = "claim"
        PROVE  Rooted(v.claim)' /\ Fresh(v.claim)'
    <3>1. v \in held[f] /\ v.claim \in Claims
      BY <2>1, <2>6, UpdateIs
    <3> QED BY <1>3, <2>5, <2>6, <3>1 DEF ClaimsKnown, Fresh
  <2>7. ASSUME NEW m \in claimNet' PROVE Rooted(m.claim)' /\ m.due = m.claim.ts + Delay /\ Fresh(m.claim)'
    BY <1>3, <2>5, <2>7 DEF ClaimsKnown, Fresh
  <2> QED BY <2>1, <2>2, <2>3, <2>4, <2>6, <2>7 DEF ClaimsKnown
<1>4. ASSUME NEW e \in Executors, BroadcastClaim(e) PROVE ClaimsKnown'
  <2>1. PICK own \in Claims : own = Claim(e, ts[e]) /\ own.by = e /\ own.ts = now
    <3>1. ts[e] = now /\ now \in Nat
      BY <1>4 DEF BroadcastClaim, WindowOpen
    <3>2. Claim(e, ts[e]) \in Claims /\ Claim(e, ts[e]).by = e /\ Claim(e, ts[e]).ts = now
      BY <3>1 DEF Claim, Claims
    <3> QED BY <3>2
  <2>2. PICK u \in held[e] :
          /\ u.op = "own" /\ u.snap = table[e] /\ held[e] = {u} /\ table'[e] = Updated(e, u)
          /\ table'[e].status = table[e].status
          /\ \A f \in Executors \ {e} : table'[f] = table[f] /\ held'[f] = held[f]
          /\ held'[e] = {}
    BY <1>4, SaveIs DEF BroadcastClaim
  <2>3. table'[e].claims = table[e].claims \cup {own}
    <3>1. Updated(e, u).claims = u.snap.claims \cup {own}
      BY <2>1, <2>2, UpdateIs
    <3> QED BY <2>2, <3>1
  <2>4. /\ claimNet \subseteq claimNet' /\ now' = now
        /\ \A f \in Executors \ {e} : \E m \in claimNet' : m.to = f /\ m.claim = own
        /\ \A m \in claimNet' : m \in claimNet \/ (m.claim = own /\ m.due = now + Delay)
    <3>1. claimNet' = claimNet \cup {[to |-> f, claim |-> own, due |-> now + Delay]
                                    : f \in Executors \ {e}}
      BY <1>4, <2>1 DEF BroadcastClaim, Due
    <3>2. now' = now
      BY <1>4 DEF BroadcastClaim
    <3>3. ASSUME NEW f \in Executors \ {e} PROVE \E m \in claimNet' : m.to = f /\ m.claim = own
      <4>1. [to |-> f, claim |-> own, due |-> now + Delay] \in claimNet'
        BY <3>1
      <4> QED BY <4>1
    <3>4. ASSUME NEW m \in claimNet' PROVE m \in claimNet \/ (m.claim = own /\ m.due = now + Delay)
      BY <3>1
    <3> QED BY <3>1, <3>2, <3>3, <3>4
  <2>5. ASSUME NEW c \in Claims, Rooted(c) PROVE Rooted(c)'
    BY <2>2, <2>3, <2>5 DEF Rooted, Claims
  <2>6. Rooted(own)' /\ Fresh(own)' /\ \A f \in Executors : Spread(own, f)'
    <3>1. Rooted(own)'
      BY <2>1, <2>3 DEF Rooted
    <3>2. Fresh(own)'
      BY <2>1, <2>4, TaskClaimAssumption DEF Fresh
    <3> QED BY <2>3, <2>4, <3>1, <3>2 DEF Spread
  <2>7. ASSUME NEW f \in Executors, NEW c \in table'[f].claims
        PROVE  Rooted(c)' /\ \A x \in Executors : Spread(c, x)'
    <3>1. CASE c = own
      BY <2>6, <3>1
    <3>2. CASE c # own
      <4>1. c \in table[f].claims
        BY <2>2, <2>3, <3>2
      <4>2. Rooted(c)'
        BY <1>0, <2>5, <4>1 DEF ClaimsKnown
      <4>3. ASSUME NEW x \in Executors PROVE Spread(c, x)'
        <5>1. Spread(c, x)
          BY <4>1 DEF ClaimsKnown
        <5>2. c \in table[x].claims => c \in table'[x].claims
          BY <2>2, <2>3
        <5>3. \A v \in held[x] : v.op = "claim" => v \in held'[x]
          BY <2>2
        <5> QED BY <2>4, <5>1, <5>2, <5>3 DEF Spread
      <4> QED BY <4>2, <4>3
    <3> QED BY <3>1, <3>2
  <2>8. ASSUME NEW f \in Executors, NEW v \in held'[f], v.op = "claim"
        PROVE  Rooted(v.claim)' /\ Fresh(v.claim)'
    <3>1. v \in held[f] /\ v.claim \in Claims
      BY <2>2, <2>8, UpdateIs
    <3> QED BY <2>4, <2>5, <2>8, <3>1 DEF ClaimsKnown, Fresh
  <2>9. ASSUME NEW m \in claimNet' PROVE Rooted(m.claim)' /\ m.due = m.claim.ts + Delay /\ Fresh(m.claim)'
    BY <2>1, <2>4, <2>5, <2>6, <2>9 DEF ClaimsKnown, Fresh
  <2>10. \A f \in Executors : table'[f].status # "absent"
    BY <2>2 DEF ClaimsKnown
  <2> QED BY <2>7, <2>8, <2>9, <2>10 DEF ClaimsKnown
<1>5. ASSUME NEW e \in Executors, ClaimArrives(e) PROVE ClaimsKnown'
  <2>1. PICK m \in claimNet :
          /\ m.to = e /\ claimNet' = claimNet \ {m}
          /\ ReadWith(e, [op |-> "claim", claim |-> m.claim, snap |-> table[e]])
          /\ table' = table /\ now' = now
    BY <1>5 DEF ClaimArrives, ClaimsKnown
  <2> DEFINE u == [op |-> "claim", claim |-> m.claim, snap |-> table[e]]
  <2>2. u.op = "claim" /\ u.claim = m.claim /\ held' = [held EXCEPT ![e] = @ \cup {u}]
    BY <2>1 DEF ReadWith
  <2> HIDE DEF u
  <2>3. ASSUME NEW f \in Executors, NEW c \in table[f].claims, NEW x \in Executors
        PROVE  Spread(c, x)'
    <3>1. Spread(c, x)
      BY DEF ClaimsKnown
    <3>2. held[x] \subseteq held'[x] /\ u \in held'[e]
      BY <2>2
    <3> QED BY <2>1, <2>2, <3>1, <3>2 DEF Spread
  <2>4. ASSUME NEW f \in Executors, NEW v \in held'[f], v.op = "claim"
        PROVE  Rooted(v.claim)' /\ Fresh(v.claim)'
    <3>1. v \in held[f] \/ v = u
      BY <2>2
    <3> QED BY <2>1, <2>2, <2>4, <3>1 DEF ClaimsKnown, Rooted, Fresh
  <2> QED BY <2>1, <2>3, <2>4 DEF ClaimsKnown, Rooted, Fresh
<1>6. ASSUME NEW e \in Executors, ClaimSaved(e) PROVE ClaimsKnown'
  <2>1. PICK u \in held[e] :
          /\ u.op = "claim" /\ u.snap = table[e] /\ held[e] = {u} /\ table'[e] = Updated(e, u)
          /\ table'[e].status = table[e].status
          /\ \A f \in Executors \ {e} : table'[f] = table[f] /\ held'[f] = held[f]
          /\ held'[e] = {}
    BY <1>6, SaveIs DEF ClaimSaved
  <2>2. table'[e].claims = table[e].claims \cup {u.claim}
    <3>1. Updated(e, u).claims = u.snap.claims \cup {u.claim}
      BY <2>1, UpdateIs
    <3> QED BY <2>1, <3>1
  <2>3. u.claim \in Claims /\ u.claim.by \in Executors /\ Rooted(u.claim)
    BY <2>1, UpdateIs DEF ClaimsKnown, Claims
  <2>4. UNCHANGED <<claimNet, now>>
    BY <1>6 DEF ClaimSaved
  <2>5. ASSUME NEW c \in Claims, Rooted(c) PROVE Rooted(c)'
    BY <2>1, <2>2, <2>5 DEF Rooted, Claims
  <2>6. ASSUME NEW f \in Executors, NEW c \in table[f].claims, NEW x \in Executors
        PROVE  Spread(c, x)'
    <3>1. Spread(c, x)
      BY DEF ClaimsKnown
    <3>2. c \in table[x].claims => c \in table'[x].claims
      BY <2>1, <2>2
    <3>3. ASSUME NEW v \in held[x], v.op = "claim", v.claim = c
          PROVE  v \in held'[x] \/ c \in table'[x].claims
      BY <2>1, <2>2, <3>3
    <3> QED BY <2>4, <3>1, <3>2, <3>3 DEF Spread
  <2>7. ASSUME NEW f \in Executors, NEW c \in table'[f].claims
        PROVE  Rooted(c)' /\ \A x \in Executors : Spread(c, x)'
    <3>1. PICK x \in Executors : c \in table[x].claims
      BY <2>1, <2>2, <2>3 DEF Rooted
    <3> QED BY <1>0, <2>5, <2>6, <3>1 DEF ClaimsKnown
  <2>8. ASSUME NEW f \in Executors, NEW v \in held'[f], v.op = "claim"
        PROVE  Rooted(v.claim)' /\ Fresh(v.claim)'
    <3>1. v \in held[f] /\ v.claim \in Claims
      BY <2>1, <2>8, UpdateIs
    <3> QED BY <2>4, <2>5, <2>8, <3>1 DEF ClaimsKnown, Fresh
  <2>9. ASSUME NEW m \in claimNet' PROVE Rooted(m.claim)' /\ m.due = m.claim.ts + Delay /\ Fresh(m.claim)'
    BY <2>4, <2>5, <2>9 DEF ClaimsKnown, Fresh
  <2>10. \A f \in Executors : table'[f].status # "absent"
    BY <2>1 DEF ClaimsKnown
  <2> QED BY <2>7, <2>8, <2>9, <2>10 DEF ClaimsKnown
<1>7. CASE Tick
  <2>1. /\ \A f \in Executors : held[f] = {}
        /\ \A m \in claimNet : ~(m.due <= now)
        /\ now' = now + 1 /\ UNCHANGED <<table, held, claimNet>>
    BY <1>7 DEF Tick, Overdue
  <2>2. ASSUME NEW m \in claimNet PROVE Fresh(m.claim)'
    <3>1. m.due \in Nat /\ m.due = m.claim.ts + Delay
      BY DEF ClaimsKnown, Messages
    <3> QED BY <2>1, <3>1 DEF Fresh
  <2>3. ASSUME NEW c, NEW x \in Executors, Spread(c, x) PROVE Spread(c, x)'
    BY <2>1, <2>3 DEF Spread
  <2> QED BY <2>1, <2>2, <2>3 DEF ClaimsKnown, Rooted
<1>8. ASSUME NEW e \in Executors, Loop(e) PROVE ClaimsKnown'
  <2>1. CASE RecoverRead(e) \/ OutboundRead(e) \/ AcceptRead(e) \/ RunRead(e) \/ CompleteRead(e)
             \/ OpenWindow(e)
    BY <1>2, <2>1 DEF RecoverRead, OutboundRead, AcceptRead, RunRead, CompleteRead, OpenWindow
  <2>2. CASE RecoverSave(e) \/ OutboundSave(e) \/ AcceptSave(e) \/ RunSave(e) \/ CompleteSave(e)
    BY <1>3, <2>2 DEF RecoverSave, OutboundSave, AcceptSave, RunSave, CompleteSave
  <2>3. CASE CloseWindow(e) \/ AcceptRefused(e) \/ RunRefused(e) \/ ExecuteTask(e)
             \/ LoopSendsResult(e)
    BY <1>1, <2>3 DEF CloseWindow, AcceptRefused, RunRefused, ExecuteTask, LoopSendsResult
  <2> QED BY <1>4, <1>8, <2>1, <2>2, <2>3 DEF Loop
<1>9. ASSUME NEW e \in Executors, Handler(e) PROVE ClaimsKnown'
  BY <1>3, <1>5, <1>6, <1>9 DEF Handler, PublishArrives, PublishSaved
<1>10. CASE ResultArrives \/ UNCHANGED vars
  BY <1>1, <1>10 DEF ResultArrives, vars
<1> QED BY <1>7, <1>8, <1>9, <1>10 DEF Next, Restart, ClaimLost

-----------------------------------------------------------------------------
LEMMA TimelyStep == ASSUME Types, Serial, TimelyDelivery, Timely, [Next]_vars PROVE Timely'
<1> SUFFICES ASSUME env = {}
             PROVE  /\ ClaimsKnown'
                    /\ \A e \in Executors : /\ WindowOpen(e)' /\ (Committed(e)' => First(e)')
                                            /\ ~table'[e].invalid
  BY DiskStep DEF Timely
<1>1. ClaimsKnown /\ \A e \in Executors : /\ WindowOpen(e) /\ (Committed(e) => First(e))
                                          /\ ~table[e].invalid
  BY DEF Timely
<1>2. ClaimsKnown'
  BY <1>1, ClaimsStep
<1>3. ASSUME NEW f \in Executors
      PROVE  WindowOpen(f)' /\ (Committed(f)' => First(f)') /\ ~table'[f].invalid
  BY <1>1, WindowStep, CommittedStep, ValidStep
<1> QED BY <1>2, <1>3

LEMMA InitInv == ASSUME Init PROVE Inv
<1>1. Absent \in Copies /\ Published \in Copies
  BY DEF Absent, Published, Copies, Statuses
<1>2. /\ Absent.status = "absent" /\ Published.status = "published"
      /\ Absent.claims = {} /\ Published.claims = {} /\ ~Absent.invalid /\ ~Published.invalid
  BY DEF Absent, Published
<1> HIDE DEF Absent, Published
<1>3. Types
  BY <1>1, TaskClaimAssumption DEF Init, Types, TypeOK, Places
<1>4. Serial
  BY DEF Init, Serial
<1>5. Produced /\ ResultWasExecuted
  BY <1>2 DEF Init, Produced, ResultWasExecuted
<1>6. Lifecycle
  BY <1>2 DEF Init, Lifecycle, InStep
<1>7. Timely
  BY <1>2 DEF Init, Timely, ClaimsKnown, WindowOpen, Committed
<1> QED BY <1>3, <1>4, <1>5, <1>6, <1>7 DEF Inv, Always

LEMMA AlwaysStep == ASSUME Always, [Next]_vars PROVE Always'
<1>1. Types'
  BY TypesStep DEF Always
<1>2. Serial' /\ Produced' /\ ResultWasExecuted'
  BY SerialStep, ProducedStep, RecordedStep DEF Always
<1>3. Lifecycle'
  BY LifecycleStep DEF Always
<1> QED BY <1>1, <1>2, <1>3 DEF Always

(* What is not about time holds in every environment. *)
THEOREM AlwaysSafe == Spec => []Always
<1>1. Init => Always
  BY InitInv DEF Inv
<1>2. Always /\ [Next]_vars => Always'
  BY AlwaysStep
<1> QED BY <1>1, <1>2, PTL DEF Spec

(* The inductive invariant, where a claim needs less time than a window.    *)
THEOREM Invariance == ASSUME TimelyDelivery PROVE Spec => []Inv
<1>1. Init => Inv
  BY InitInv
<1>2. Inv /\ [Next]_vars => Inv'
  BY AlwaysStep, TimelyStep DEF Inv, Always
<1> QED BY <1>1, <1>2, PTL DEF Spec

(* Two nodes that executed the task would both have the first claim.        *)
LEMMA OneFirst ==
    ASSUME Types, NEW e \in Executors, NEW f \in Executors, First(e), First(f)
    PROVE  e = f
<1>1. PICK c \in table[e].claims :
        c.by = e /\ \A x \in Executors : \A d \in table[x].claims : Before(c, d)
  BY DEF First
<1>2. PICK b \in table[f].claims :
        b.by = f /\ \A x \in Executors : \A d \in table[x].claims : Before(b, d)
  BY DEF First
<1>3. c \in Claims /\ b \in Claims
  BY DEF Types, TypeOK, Copies
<1> QED BY <1>1, <1>2, <1>3, ClaimOrder

LEMMA AtMostOne ==
    ASSUME NEW A, \A x, y \in A : x = y
    PROVE  Cardinality(A) <= 1
<1>1. CASE A = {}
  BY <1>1, FS_EmptySet
<1>2. CASE A # {}
  <2>1. PICK x : A = {x}
    BY <1>2
  <2> QED BY <2>1, FS_Singleton
<1> QED BY <1>1, <1>2

(* However late, lost or skewed claims are, a node executes the task once   *)
(* while its updates do not overlap and it is not restarted, and in every   *)
(* environment the creator records results of executions only.              *)
THEOREM OnceInAnyNetwork == Spec => [](TypeOK /\ ExecutesOnce /\ ResultWasExecuted)
<1>1. Always => TypeOK /\ ExecutesOnce /\ ResultWasExecuted
  BY DEF Always, Types, Lifecycle, InStep, ExecutesOnce
<1> QED BY <1>1, AlwaysSafe, PTL

(* Arbitration, for any number of executors, windows and retries: while     *)
(* claims arrive within the window, clocks agree and updates of a file do   *)
(* not overlap, one node executes the task and its result stays valid.      *)
THEOREM OneWinner == ASSUME TimelyDelivery PROVE Spec => []ArbitrationSound
<1>1. ASSUME Inv PROVE OneExecutorWhenTimely
  <2> SUFFICES ASSUME env = {} PROVE Cardinality(ExecutedBy) <= 1
    BY DEF OneExecutorWhenTimely
  <2>1. \A e \in ExecutedBy : First(e)
    BY <1>1 DEF Inv, Timely, Committed, ExecutedBy
  <2>2. \A e, f \in ExecutedBy : e = f
    BY <1>1, <2>1, OneFirst DEF Inv, Always, ExecutedBy
  <2> QED BY <2>2, AtMostOne
<1>2. Inv => TimelyWinnerStaysValid
  BY DEF Inv, Timely, TimelyWinnerStaysValid
<1>3. Inv /\ TypeOK /\ ExecutesOnce /\ ResultWasExecuted => ArbitrationSound
  BY <1>1, <1>2 DEF ArbitrationSound
<1> QED BY <1>3, Invariance, OnceInAnyNetwork, PTL

(* No claim of a table is ever lost while its updates do not overlap,       *)
(* through retries, changes of status and restarts.                         *)
THEOREM ClaimsStay == Spec => ClaimsNeverLost
<1>1. ASSUME Always, [Next]_vars
      PROVE  \A e \in Executors :
               "overlap" \notin env => table[e].claims \subseteq table'[e].claims
  BY <1>1, ClaimsKept DEF Always
<1>2. Always /\ [Next]_vars =>
        [\A e \in Executors :
           "overlap" \notin env => table[e].claims \subseteq table'[e].claims]_vars
  BY <1>1
<1> QED BY <1>2, AlwaysSafe, PTL DEF Spec, ClaimsNeverLost
-----------------------------------------------------------------------------
(* What becomes of the losers.  A node whose claims are all behind that of  *)
(* another, the one it is about to save included, is outdone.               *)
OutdoneBy(e, c) ==
    /\ c.by # e /\ c.ts < now
    /\ \A d \in table[e].claims : d.by = e => Before(c, d)
    /\ \A u \in held[e] : u.op = "own" => c.ts < ts[e]
Outdone(e) == \E c \in table[e].claims : OutdoneBy(e, c)

(* Nobody is sent a claim of its own. *)
FromOthers ==
    /\ \A m \in claimNet : m.claim.by # m.to
    /\ \A e \in Executors : \A u \in held[e] : u.op = "claim" => u.claim.by # e

(* A claim that was recorded before a node makes its next one beats every   *)
(* later one of that node, whether the node that made it executes the task, *)
(* fails or is gone: the table has no claim expire, so who was outdone once *)
(* wins no window of this task any more.                                    *)
OutdoneForGood ==
    [][\A e \in Executors :
         "overlap" \notin env /\ Outdone(e) =>
             /\ Outdone(e)'
             /\ WinnerSeenBy(e) # e
             /\ pc'[e] = "won" => pc[e] = "won"]_vars

LEMMA FromOthersStep == ASSUME Types, FromOthers, [Next]_vars PROVE FromOthers'
<1> USE DEF context, window, net
<1>0. held \in [Executors -> SUBSET Updates]
  BY DEF Types
<1>1. ASSUME NEW e \in Executors, NEW u, u.op # "claim", claimNet' = claimNet,
             held' = [held EXCEPT ![e] = @ \cup {u}]
      PROVE  FromOthers'
  BY <1>0, <1>1 DEF FromOthers
<1>2. ASSUME NEW e \in Executors, NEW op, op # "claim", Read(e, op), claimNet' = claimNet
      PROVE  FromOthers'
  <2> DEFINE u == [op |-> op, snap |-> table[e]]
  <2>1. u.op # "claim" /\ held' = [held EXCEPT ![e] = @ \cup {u}]
    BY <1>2 DEF Read, ReadWith
  <2> QED BY <1>1, <1>2, <2>1
<1>3. ASSUME claimNet' \subseteq claimNet, \A e \in Executors : held'[e] \subseteq held[e]
      PROVE  FromOthers'
  BY <1>3 DEF FromOthers
<1>4. ASSUME NEW e \in Executors, NEW op, Save(e, op)
      PROVE  \A f \in Executors : held'[f] \subseteq held[f]
  BY <1>0, <1>4 DEF Save
<1>5. ASSUME NEW e \in Executors, Loop(e) PROVE FromOthers'
  <2>1. CASE RecoverRead(e) \/ OutboundRead(e) \/ OpenWindow(e) \/ AcceptRead(e) \/ RunRead(e)
             \/ CompleteRead(e)
    BY <1>2, <2>1 DEF RecoverRead, OutboundRead, OpenWindow, AcceptRead, RunRead, CompleteRead
  <2>2. CASE RecoverSave(e) \/ OutboundSave(e) \/ AcceptSave(e) \/ RunSave(e) \/ CompleteSave(e)
    BY <1>3, <1>4, <2>2 DEF RecoverSave, OutboundSave, AcceptSave, RunSave, CompleteSave
  <2>3. CASE BroadcastClaim(e)
    <3>1. \A f \in Executors : held'[f] \subseteq held[f]
      BY <1>4, <2>3 DEF BroadcastClaim
    <3>2. ASSUME NEW m \in claimNet' PROVE m.claim.by # m.to
      <4>1. m \in claimNet \/ \E f \in Executors \ {e} :
                                m = [to |-> f, claim |-> Claim(e, ts[e]), due |-> Due]
        BY <2>3, <3>2 DEF BroadcastClaim
      <4>2. Claim(e, ts[e]).by = e
        BY DEF Claim
      <4> QED BY <4>1, <4>2 DEF FromOthers
    <3> QED BY <3>1, <3>2 DEF FromOthers
  <2>4. CASE CloseWindow(e) \/ AcceptRefused(e) \/ RunRefused(e) \/ ExecuteTask(e)
             \/ LoopSendsResult(e)
    BY <1>3, <2>4 DEF CloseWindow, AcceptRefused, RunRefused, ExecuteTask, LoopSendsResult
  <2> QED BY <1>5, <2>1, <2>2, <2>3, <2>4 DEF Loop
<1>6. ASSUME NEW e \in Executors, ClaimArrives(e) PROVE FromOthers'
  <2>1. PICK m \in claimNet :
          /\ m.to = e /\ claimNet' = claimNet \ {m}
          /\ \/ UNCHANGED held
             \/ held' = [held EXCEPT
                           ![e] = @ \cup {[op |-> "claim", claim |-> m.claim, snap |-> table[e]]}]
    BY <1>6 DEF ClaimArrives, ReadWith
  <2>2. m.claim.by # e
    BY <2>1 DEF FromOthers
  <2> QED BY <1>0, <2>1, <2>2 DEF FromOthers
<1>7. ASSUME NEW e \in Executors, Handler(e) \/ Restart(e) PROVE FromOthers'
  <2>1. CASE PublishArrives(e)
    BY <1>2, <2>1 DEF PublishArrives
  <2>2. CASE PublishSaved(e) \/ ClaimSaved(e)
    BY <1>3, <1>4, <2>2 DEF PublishSaved, ClaimSaved
  <2>3. CASE Restart(e)
    BY <1>0, <1>3, <2>3 DEF Restart
  <2> QED BY <1>6, <1>7, <2>1, <2>2, <2>3 DEF Handler
<1>8. CASE ClaimLost \/ ResultArrives \/ Tick \/ UNCHANGED vars
  BY <1>3, <1>8 DEF ClaimLost, ResultArrives, Tick, vars
<1> QED BY <1>5, <1>7, <1>8 DEF Next

(* Time goes on; a new claim_ts is that of a new window, which a node opens *)
(* while it has no other update in progress and which it has not won yet.   *)
LEMMA WindowStamp ==
    ASSUME Types, [Next]_vars, NEW e \in Executors
    PROVE  /\ now' >= now
           /\ ts'[e] # ts[e] => ts'[e] >= now /\ Free(e)
           /\ pc'[e] = "won" => pc[e] = "won" \/ WinnerSeenBy(e) = e
<1> USE DEF context, window, net
<1>0. now \in Nat /\ ts \in [Executors -> Nat] /\ pc \in [Executors -> Places]
  BY DEF Types, TypeOK
<1>1. now' = now \/ now' = now + 1
  BY DEF Next, Loop, Handler, RecoverRead, RecoverSave, OutboundRead, OutboundSave, OpenWindow,
     BroadcastClaim, CloseWindow, AcceptRead, AcceptRefused, AcceptSave, RunRead, RunSave,
     RunRefused, ExecuteTask, CompleteRead, CompleteSave, LoopSendsResult, PublishArrives,
     PublishSaved, ClaimArrives, ClaimSaved, Restart, ClaimLost, ResultArrives, Tick, vars
<1>2. ASSUME NEW f \in Executors, OpenWindow(f)
      PROVE  /\ ts'[e] # ts[e] => ts'[e] >= now /\ Free(e)
             /\ pc'[e] = "won" => pc[e] = "won"
  <2>1. PICK skew \in 0..(IF "skew" \in env THEN MaxSkew ELSE 0) :
          ts' = [ts EXCEPT ![f] = now + skew]
    BY <1>2 DEF OpenWindow
  <2>2. skew \in Nat
    BY <2>1, TaskClaimAssumption
  <2>3. Free(f) /\ pc' = [pc EXCEPT ![f] = "claiming"]
    BY <1>2 DEF OpenWindow, Read, ReadWith, Goto
  <2> QED BY <1>0, <2>1, <2>2, <2>3
<1>3. ASSUME NEW f \in Executors, CloseWindow(f)
      PROVE  /\ ts' = ts
             /\ pc'[e] = "won" => pc[e] = "won" \/ WinnerSeenBy(e) = e
  BY <1>0, <1>3 DEF CloseWindow, Goto
<1>4. ASSUME NEW f \in Executors, Loop(f), ~OpenWindow(f), ~CloseWindow(f)
      PROVE  ts' = ts /\ (pc'[e] = "won" => pc[e] = "won")
  <2>1. UNCHANGED ts
    BY <1>4 DEF Loop, RecoverRead, RecoverSave, OutboundRead, OutboundSave, BroadcastClaim,
       AcceptRead, AcceptRefused, AcceptSave, RunRead, RunSave, RunRefused, ExecuteTask,
       CompleteRead, CompleteSave, LoopSendsResult
  <2>2. PICK to \in Places \ {"won"} : pc' = [pc EXCEPT ![f] = to]
    BY <1>4 DEF Loop, RecoverRead, RecoverSave, OutboundRead, OutboundSave, BroadcastClaim,
       AcceptRead, AcceptRefused, AcceptSave, RunRead, RunSave, RunRefused, ExecuteTask,
       CompleteRead, CompleteSave, LoopSendsResult, Goto, Places
  <2> QED BY <1>0, <2>1, <2>2
<1>5. ASSUME NEW f \in Executors, Handler(f) \/ Restart(f)
      PROVE  ts' = ts /\ (pc'[e] = "won" => pc[e] = "won")
  BY <1>0, <1>5 DEF Handler, PublishArrives, PublishSaved, ClaimArrives, ClaimSaved, Restart
<1>6. ASSUME ClaimLost \/ ResultArrives \/ Tick \/ UNCHANGED vars
      PROVE  ts' = ts /\ pc' = pc
  BY <1>6 DEF ClaimLost, ResultArrives, Tick, vars
<1>7. /\ ts'[e] # ts[e] => ts'[e] >= now /\ Free(e)
      /\ pc'[e] = "won" => pc[e] = "won" \/ WinnerSeenBy(e) = e
  BY <1>2, <1>3, <1>4, <1>5, <1>6 DEF Next
<1> QED BY <1>0, <1>1, <1>7

(* An update with a new claim is that of the window a node opens.           *)
LEMMA OwnFromWindow ==
    ASSUME Types, [Next]_vars, NEW e \in Executors, NEW u \in held'[e],
           u.op = "own", u \notin held[e]
    PROVE  OpenWindow(e)
<1> USE DEF context, window, net
<1>0. held \in [Executors -> SUBSET Updates]
  BY DEF Types
<1>1. ASSUME NEW f \in Executors, NEW op, Read(f, op) PROVE f = e /\ op = "own"
  <2> DEFINE v == [op |-> op, snap |-> table[f]]
  <2>1. held' = [held EXCEPT ![f] = @ \cup {v}] /\ v.op = op
    BY <1>1 DEF Read, ReadWith
  <2> HIDE DEF v
  <2>2. f = e /\ u = v
    BY <1>0, <2>1
  <2> QED BY <2>1, <2>2
<1>2. ASSUME NEW f \in Executors, NEW op, Save(f, op) PROVE FALSE
  BY <1>0, <1>2 DEF Save
<1>3. ASSUME NEW f \in Executors, ClaimArrives(f) PROVE FALSE
  <2>1. PICK m \in claimNet :
          \/ UNCHANGED held
          \/ held' = [held EXCEPT
                        ![f] = @ \cup {[op |-> "claim", claim |-> m.claim, snap |-> table[f]]}]
    BY <1>3 DEF ClaimArrives, ReadWith
  <2> QED BY <1>0, <2>1
<1>4. ASSUME NEW f \in Executors, Loop(f) PROVE OpenWindow(e)
  <2>1. CASE RecoverRead(f) \/ OutboundRead(f) \/ AcceptRead(f) \/ RunRead(f) \/ CompleteRead(f)
    BY <1>1, <2>1 DEF RecoverRead, OutboundRead, AcceptRead, RunRead, CompleteRead
  <2>2. CASE OpenWindow(f)
    BY <1>1, <2>2 DEF OpenWindow
  <2>3. CASE RecoverSave(f) \/ OutboundSave(f) \/ AcceptSave(f) \/ RunSave(f) \/ CompleteSave(f)
             \/ BroadcastClaim(f)
    BY <1>2, <2>3 DEF RecoverSave, OutboundSave, AcceptSave, RunSave, CompleteSave, BroadcastClaim
  <2>4. CASE UNCHANGED held
    BY <2>4
  <2> QED BY <1>4, <2>1, <2>2, <2>3, <2>4
      DEF Loop, CloseWindow, AcceptRefused, RunRefused, ExecuteTask, LoopSendsResult
<1>5. ASSUME NEW f \in Executors, Handler(f) \/ Restart(f) PROVE FALSE
  <2>1. CASE PublishArrives(f)
    BY <1>1, <2>1 DEF PublishArrives
  <2>2. CASE PublishSaved(f) \/ ClaimSaved(f)
    BY <1>2, <2>2 DEF PublishSaved, ClaimSaved
  <2>3. CASE Restart(f)
    BY <1>0, <2>3 DEF Restart
  <2> QED BY <1>3, <1>5, <2>1, <2>2, <2>3 DEF Handler
<1>6. ~(ClaimLost \/ ResultArrives \/ Tick \/ UNCHANGED vars)
  BY DEF ClaimLost, ResultArrives, Tick, vars
<1> QED BY <1>4, <1>5, <1>6 DEF Next

(* The claim that outdoes a node stays, and so does the lead it has. *)
LEMMA OutdoneStep ==
    ASSUME Types, Serial, FromOthers, "overlap" \notin env, [Next]_vars,
           NEW e \in Executors, NEW c \in table[e].claims, OutdoneBy(e, c)
    PROVE  c \in table'[e].claims /\ OutdoneBy(e, c)'
<1>0. /\ c.ts \in Nat /\ now \in Nat /\ ts \in [Executors -> Nat]
      /\ held \in [Executors -> SUBSET Updates] /\ table \in [Executors -> Copies]
  <2>1. /\ now \in Nat /\ ts \in [Executors -> Nat]
        /\ held \in [Executors -> SUBSET Updates] /\ table \in [Executors -> Copies]
    BY DEF Types, TypeOK
  <2>2. c \in Claims
    BY <2>1 DEF Copies
  <2> QED BY <2>1, <2>2 DEF Claims
<1>1. c \in table'[e].claims
  BY ClaimsKept
<1>2. c.by # e /\ c.ts < now'
  <2>1. now' >= now /\ now' \in Nat
    BY WindowStamp, TypesStep DEF Types, TypeOK
  <2> QED BY <1>0, <2>1 DEF OutdoneBy
<1>3. ASSUME NEW d \in table'[e].claims, d.by = e PROVE Before(c, d)
  <2>1. CASE d \in table[e].claims
    BY <1>3, <2>1 DEF OutdoneBy
  <2>2. CASE d \notin table[e].claims
    <3>0. PICK f \in Executors : \E u \in held[f] : Saves(f, u)
      BY <1>3, <2>2, DiskStep DEF Reads, Stops
    <3>1. PICK u \in held[f] : Saves(f, u)
      BY <3>0
    <3>2. f = e
      BY <1>0, <1>3, <2>2, <3>1 DEF Saves
    <3>3. d \in Updated(e, u).claims /\ u.snap = table[e] /\ u \in held[e]
      BY <1>0, <1>3, <3>1, <3>2 DEF Saves, Serial
    <3>4. CASE u.op = "own"
      <4>0. Updated(e, u).claims = u.snap.claims \cup {Claim(e, ts[e])}
        BY <3>3, <3>4, UpdateIs
      <4>1. d = Claim(e, ts[e])
        BY <2>2, <3>3, <4>0
      <4>2. d.ts = ts[e] /\ c.ts < ts[e]
        BY <3>2, <3>4, <4>1 DEF Claim, OutdoneBy
      <4> QED BY <4>2 DEF Before
    <3>5. CASE u.op = "claim"
      <4>0. Updated(e, u).claims = u.snap.claims \cup {u.claim}
        BY <3>3, <3>5, UpdateIs
      <4>1. d = u.claim
        BY <2>2, <3>3, <4>0
      <4> QED BY <1>3, <3>2, <3>5, <4>1 DEF FromOthers
    <3>6. CASE u.op \notin {"own", "claim"}
      BY <2>2, <3>2, <3>3, <3>6, UpdateIs
    <3> QED BY <3>4, <3>5, <3>6
  <2> QED BY <2>1, <2>2
<1>4. ASSUME NEW u \in held'[e], u.op = "own" PROVE c.ts < ts'[e]
  <2>1. CASE ts'[e] # ts[e]
    <3>1. ts'[e] >= now /\ ts'[e] \in Nat
      BY <2>1, WindowStamp, TypesStep DEF Types, TypeOK
    <3> QED BY <1>0, <3>1 DEF OutdoneBy
  <2>2. CASE ts'[e] = ts[e] /\ u \in held[e]
    BY <1>4, <2>2 DEF OutdoneBy
  <2>3. CASE ts'[e] = ts[e] /\ u \notin held[e]
    <3>1. OpenWindow(e)
      BY <1>0, <1>4, <2>3, OwnFromWindow
    <3>2. ts'[e] >= now
      <4>1. PICK skew \in 0..(IF "skew" \in env THEN MaxSkew ELSE 0) :
              ts' = [ts EXCEPT ![e] = now + skew]
        BY <3>1 DEF OpenWindow
      <4> QED BY <1>0, <4>1, TaskClaimAssumption
    <3> QED BY <1>0, <2>3, <3>2 DEF OutdoneBy
  <2> QED BY <2>1, <2>2, <2>3
<1> QED BY <1>1, <1>2, <1>3, <1>4 DEF OutdoneBy

(* A node that was outdone once loses every later window, for any number of *)
(* executors, windows and restarts and however late or lost claims are.     *)
THEOREM LosersLoseForGood == Spec => OutdoneForGood
<1> DEFINE A(e) == "overlap" \notin env /\ Outdone(e) =>
                     /\ Outdone(e)'
                     /\ WinnerSeenBy(e) # e
                     /\ pc'[e] = "won" => pc[e] = "won"
<1>1. ASSUME Types, Serial, FromOthers, [Next]_vars, NEW e \in Executors PROVE A(e)
  <2> SUFFICES ASSUME "overlap" \notin env, NEW c \in table[e].claims, OutdoneBy(e, c)
               PROVE  Outdone(e)' /\ WinnerSeenBy(e) # e /\ (pc'[e] = "won" => pc[e] = "won")
    BY DEF Outdone
  <2>1. Outdone(e)'
    BY <1>1, OutdoneStep DEF Outdone
  <2>2. WinnerSeenBy(e) # e
    <3>1. table[e].claims \in SUBSET Claims /\ table[e].claims # {}
      BY <1>1 DEF Types, TypeOK, Copies
    <3>2. PICK d \in table[e].claims :
            d.by = Winner(table[e].claims) /\ \A x \in table[e].claims : Before(d, x)
      BY <3>1, FirstClaim
    <3>3. d.by # e
      BY <3>1, <3>2, ClaimOrder DEF OutdoneBy
    <3> QED BY <3>1, <3>2, <3>3 DEF WinnerSeenBy
  <2> QED BY <1>1, <2>1, <2>2, WindowStamp
<1>2. Init => FromOthers
  BY DEF Init, FromOthers
<1>3. Always /\ FromOthers /\ [Next]_vars => FromOthers' /\ [\A e \in Executors : A(e)]_vars
  BY <1>1, FromOthersStep DEF Always
<1> HIDE DEF A
<1>4. Spec => [][\A e \in Executors : A(e)]_vars
  BY <1>2, <1>3, AlwaysSafe, PTL DEF Spec
<1> QED BY <1>4 DEF OutdoneForGood, A
=============================================================================
