---------------------------- MODULE NodeIdentity ----------------------------
(***************************************************************************)
(* Who a node is: the files that scripts/run_agent_loop.mjs reads and      *)
(* writes before its loop starts, and the holder name that its supervisor  *)
(* (systemd, or scripts/supervisor_watchdog.mjs) read from them before.    *)
(* Every write may fail, the process may be killed in it, and the whole    *)
(* workspace may be copied to another machine and started there.           *)
(***************************************************************************)
EXTENDS Naturals, Sequences

CONSTANTS Machines, None, MaxBoots, MaxFaults, MaxMoves

VARIABLES
    machine,       \* where the workspace is
    mode,          \* what the environment says of AGENT_ID and AGENT_ID_MODE
    systemd,       \* the supervisor is systemd
    file,          \* the files, and the variable NODE_ID of the process
    pc, todo,      \* the writes the bootstrap has left
    holder,        \* --holder
    cloned,        \* this start found another machine's fingerprint
    boots, faults, moves,      \* bounds; boots also makes seeds and keys fresh
    used, carried, last        \* history: <<machine, id>> of every loop; ids that moved
                               \* without a fingerprint; identity since the last move

identityVars == <<machine, mode, systemd, file, pc, todo, holder, cloned, boots, faults, moves,
                  used, carried, last>>
bounds == <<boots, faults, moves>>
past == <<used, carried, last>>
setting == <<machine, mode, systemd>>

(* A value is a tuple; the empty one is a file that a kill left empty.      *)
Empty == <<>>
Files == {"node_id", "node_seed", "node_fingerprint", "agent_id", "agent_keypair", "NODE_ID"}
Read(f) == IF file[f] = Empty THEN None ELSE file[f]

Init ==
    /\ machine \in Machines /\ systemd \in BOOLEAN
    /\ mode \in {"none", "provided", "verifiable", "placeholder"}
    /\ file \in {[f \in Files |-> None],
                 [f \in Files |-> IF f = "node_id" THEN <<"host", 0>> ELSE None]}
    /\ pc = "down" /\ todo = <<>> /\ holder = None /\ cloned = FALSE
    /\ boots = 0 /\ faults = 0 /\ moves = 0
    /\ used = {} /\ carried = {} /\ last = [id |-> None, agent |-> None]

-----------------------------------------------------------------------------
(* The supervisor reads the holder, and writes one if there is no file; the *)
(* watchdog does not start a daemon without a name.                         *)
Supervise ==
    /\ pc = "down" /\ boots < MaxBoots
    /\ IF file["node_id"] = None
         THEN /\ holder' = <<"host", boots + 1>>
              /\ file' = [file EXCEPT !["node_id"] = holder', !["NODE_ID"] = None]
         ELSE /\ file["node_id"] = Empty => systemd
              /\ holder' = file["node_id"]
              /\ file' = [file EXCEPT !["NODE_ID"] = None]
    /\ pc' = "started" /\ boots' = boots + 1
    /\ UNCHANGED <<setting, todo, cloned, faults, moves, past>>

(* What the bootstrap will write, from what it reads: a new seed and id on  *)
(* another machine, else the id there is, else one derived from the seed.   *)
Clone_Never == FALSE                                                 \* mutant
Clone == Read("node_fingerprint") \notin {None, <<machine>>}
Seed == IF Clone \/ Read("node_seed") = None THEN <<boots>> ELSE Read("node_seed")
Derived == <<"id", machine, Seed>>
Write(f, v) == << <<f, v>> >>
WriteUnless(there, f, v) == IF there THEN <<>> ELSE Write(f, v)
HasPrint == Read("node_fingerprint") # None
IdWrites ==
    IF Clone
      THEN Write("node_seed", Seed) \o Write("node_id", Derived)
             \o Write("node_fingerprint", <<machine>>) \o Write("NODE_ID", Derived)
    ELSE IF Read("node_id") # None
      THEN WriteUnless(HasPrint, "node_fingerprint", <<machine>>)
             \o Write("NODE_ID", Read("node_id"))
    ELSE WriteUnless(Read("node_seed") # None, "node_seed", Seed) \o Write("node_id", Derived)
           \o WriteUnless(HasPrint, "node_fingerprint", <<machine>>)
           \o Write("NODE_ID", Derived)

(* The agent id: what there is, what the environment gives, or one made     *)
(* from the public key or the seed.  ensureKeypair asks what was read at    *)
(* the start, so a key it made itself is made again and written over.       *)
HasKey == file["agent_keypair"] \notin {None, Empty}
FirstKey == <<"key", boots, 1>>
SeedThen == IF Clone \/ Read("node_id") = None THEN Seed ELSE Read("node_seed")
NewAgentId ==
    CASE mode = "provided" -> <<"given">>
      [] mode = "verifiable" -> <<"of", IF HasKey THEN file["agent_keypair"] ELSE FirstKey>>
      [] mode = "placeholder" /\ SeedThen # None -> <<"of", SeedThen>>
      [] OTHER -> None
AgentId == IF Read("agent_id") # None THEN Read("agent_id") ELSE NewAgentId
AgentWrites ==
    IF AgentId = None THEN <<>>
    ELSE WriteUnless(HasKey \/ Read("agent_id") # None \/ mode # "verifiable",
                     "agent_keypair", FirstKey)
           \o WriteUnless(Read("agent_id") # None, "agent_id", AgentId)
           \o WriteUnless(HasKey, "agent_keypair", <<"key", boots, 2>>)

Boot ==
    /\ pc = "started" /\ pc' = "booting"
    /\ todo' = IdWrites \o AgentWrites /\ cloned' = Clone
    /\ UNCHANGED <<setting, file, holder, bounds, past>>

WriteNext ==
    /\ todo # <<>>
    /\ file' = [file EXCEPT ![Head(todo)[1]] = Head(todo)[2]]
    /\ todo' = Tail(todo)
    /\ UNCHANGED <<setting, pc, holder, cloned, bounds, past>>

(* A write that fails abandons the rest, but for the caught one of the      *)
(* fingerprint; a kill may leave the file empty.                            *)
Cut == {file, [file EXCEPT ![Head(todo)[1]] = Empty]}
WriteFails ==
    /\ todo # <<>> /\ Head(todo)[1] # "NODE_ID"
    /\ faults < MaxFaults /\ faults' = faults + 1
    /\ file' \in Cut
    /\ todo' = IF Head(todo)[1] = "node_fingerprint" /\ ~cloned THEN Tail(todo) ELSE <<>>
    /\ UNCHANGED <<setting, pc, holder, cloned, boots, moves, past>>
Killed ==
    /\ pc # "down" /\ pc' = "down"
    /\ faults < MaxFaults /\ faults' = faults + 1
    /\ file' \in IF todo # <<>> /\ Head(todo)[1] # "NODE_ID" THEN Cut
                 ELSE IF pc = "started" /\ file["node_id"] = <<"host", boots>>
                   THEN {file, [file EXCEPT !["node_id"] = Empty]} ELSE {file}
    /\ todo' = <<>>
    /\ UNCHANGED <<setting, holder, cloned, boots, moves, past>>

(* runLoop refuses an empty holder; the network id is NODE_ID, or the       *)
(* holder where the bootstrap did not get that far.                         *)
Id == IF file["NODE_ID"] = None THEN holder ELSE file["NODE_ID"]
Run ==
    /\ pc = "booting" /\ todo = <<>>
    /\ IF holder = Empty
         THEN pc' = "down" /\ UNCHANGED past
         ELSE /\ pc' = "running"
              /\ used' = IF file["NODE_ID"] = None THEN used ELSE used \cup {<<machine, Id>>}
              /\ last' = [id |-> IF file["NODE_ID"] = None THEN last.id ELSE Id,
                          agent |-> IF Read("agent_id") = None THEN last.agent ELSE Read("agent_id")]
              /\ UNCHANGED carried
    /\ UNCHANGED <<setting, file, todo, holder, cloned, bounds>>
Stop ==
    /\ pc = "running" /\ pc' = "down"
    /\ UNCHANGED <<setting, file, todo, holder, cloned, bounds, past>>

Move ==
    /\ pc = "down" /\ moves < MaxMoves /\ moves' = moves + 1
    /\ machine' \in Machines \ {machine}
    /\ carried' = IF HasPrint THEN carried ELSE carried \cup {file["node_id"]}
    /\ last' = [last EXCEPT !.id = None]
    /\ UNCHANGED <<mode, systemd, file, pc, todo, holder, cloned, boots, faults, used>>

Next == Supervise \/ Boot \/ WriteNext \/ WriteFails \/ Killed \/ Run \/ Stop \/ Move

-----------------------------------------------------------------------------
(* Every variable has its type. *)
TypeOK ==
    /\ machine \in Machines /\ DOMAIN file = Files
    /\ pc \in {"down", "started", "booting", "running"}
    /\ Len(todo) <= 7 /\ (todo # <<>> => pc = "booting")

(* Two machines never run under one id, unless it moved before it had a     *)
(* fingerprint; and the holder that claims tasks is the id of the network,  *)
(* unless this start gave the clone a new one.                              *)
OneMachinePerId ==
    /\ \A u, v \in used : u[2] = v[2] /\ u[1] # v[1] => u[2] \in carried
    /\ pc = "running" /\ Id # holder => cloned

(* On one machine a node keeps its id through every failure, and its agent  *)
(* id wherever it goes.                                                     *)
KeepsIdentity(before, after) ==
    /\ before.id # None /\ after.id # None => after.id = before.id
    /\ before.agent # None => after.agent = before.agent
=============================================================================
