# Verification of the A2A node: TLA+ models, TLC runs and TLAPS proofs

This directory specifies the protocols that make the A2A runtime work and checks
them. Every definition is translated from the code under `src/`; `PROJECT.json`
says for each one which lines it stands for ("map"), for each run what it asks,
for each property the plausible bugs that break it ("mutants"), and for each
hazard of the code the properties that watch it.

Run a check with `tlc -workers 2 -config X.cfg M`, a proof with `tlapm M.tla`.

## 1. The system

A node is one Node.js process per workspace. It keeps JSON files in `data/`
(`tasks.json`, `runtime_state.json`, peers, presence, memory, ledgers), holds one
WebSocket to a relay, and runs an agent loop on a timer. Nodes find each other through
a bootstrap directory and by gossip, and exchange task traffic through the relay. There
is no shared database: agreement between nodes comes only from messages, and agreement
between the parts of one node only from files that each of them reads, changes and
writes back. The hard part is everywhere the same: something is read before an await
and used after it.

| Component (under `src/src/`) | State | Operations | Hard behaviour | Module |
|---|---|---|---|---|
| Relay core `relay/relayCoreV0_1` | `conns`, `socketToNode` | upgrade, REGISTER, SEND, ping, close, sweep | late close events of replaced sockets; two ids on a socket; sweep against touch | RelayCore |
| Relay servers `relay/relayServerV2`, `relayServer` | sessions per node, latest session | the same, without sweep | a close event after its replacement | RelayServerV2, RelayServerV1 |
| Node relay link `runtime/network/nodeNetworkIntegrationV0_1` | connection state, active socket, guard, timers | rounds, register, timeout, loss, reconnect, close | late callbacks, failed rounds, close in a round | NodeRelayLink |
| the same file, second half | presence cache, known peers, welcomes | presence, join announce, gossip, saves | sequences of verdicts, restarts, distrust | PeerTrust, PeerGossip |
| Relay singleton `runtime/network/relaySingleton` | one socket per process | ensureConnected, send, reconnect, close | events of sockets given up | RelaySingleton |
| Transports `runtime/transport` | none that lasts | probe, decide, send | the peer changes between probe and send | Transport |
| Directory `bootstrap/bootstrapServer` | the registry file | publish, heartbeat, peers | overlapping requests write the whole file | Directory |
| Peer table `peers`, agent directory `discovery/networkAgentDirectory` | `peers.json`, published cards | refresh, gossip received, statistics | two processes save copies of different age; a cap | PeerTable |
| Automatic join `runtime/bootstrap`, `scripts/start-node` | known peers file | join, fetch, persist, fallback | answers that are lost | NodeJoin |
| Agent loop, claims `runtime/agentRuntimeLoop`, `tasks` | task status, claims, lease | window, accept, run, complete, recover | decisions on partial information | TaskClaim |
| Task delivery `runtime/network/taskMessageFlowV0_1` | `publish_delivery` | publish, ack, claim, result | a snapshot held over awaits, retries | TaskDelivery |
| Task table `tasks/taskStore` | `tasks.json` and its temporary file | load, change, save | overlapping saves, crashes | TaskStore, TaskTable |
| Task messages and sync `tasks/taskReceiver`, `taskClaim`, `taskSync` | the task in each node's table | publish, accepted, result, sync, recover | any order, any number of times | TaskLifecycle |
| Duties of the loop `runtime/agentRuntimeLoop` | `runtime_state.json` | join signal, radar, generator | send first, remember later | DailyDuties |
| Phase 2 sessions `phase2`, `phase3/friendship`, `runtime/router` | snapshots, friends list | envelope, local event, write | two handlers of one session | SessionRouter, MutualEntry |
| Phase 3 encounter `phase3/session`, `runtime/inbound`, `friendship` | the receiver's session state | probe, candidate, confirmations | lost and repeated probes, restarts | Encounter |
| Remote execution `remote`, `capability`, `execution` | invocation in progress | request, gate, run, result | retries over two transports | RemoteExecution |
| Upgrade `runtime/autoUpgrade`, `runtime/upgrade` | working tree, backup, state file | check, checkout, test, roll back | a kill between any two steps | AutoUpgrade |
| Supervision `runtime/autoRecovery`, `scripts/supervisor_watchdog`, `scripts/run_agent_loop` | lock file, recovery state | start, lock, restart the gateway | read, judge, write of a lock | Supervision |
| Identity `scripts/run_agent_loop` | seed, id, fingerprint, keys | bootstrap of a process | half-written files, a copied workspace | NodeIdentity |
| Market and books `market`, `value`, `reward`, `reputation` | feed, ledgers, indexes | discover, pick up, post, rebuild | processes race on files | OfferMarket |
| Strategy `strategy`, `analytics` | parameters, pending adjustment | evaluate, adjust, roll back | what is there to go back to | Strategy |
| Dialogues `social/*Dialogue*` | turn per dialogue | ask, answer, save | repeated turns, timeouts, restart | Dialogue |
| Acquaintance `memory`, `social/agentSocialEngineLiveRun` | memory of a peer | discover, shake, exchange, decide | overlapping read-change-write | Acquaintance |

What each must guarantee is the property of section 4 that names it. The parts without a
module are in section 7.

## 2. Plan

Done: the modules of section 3, in two rounds: first the relay core, the claims, the link,
the delivery, the task file and the sessions; then the second half of the network, the older
relays, the bootstrap and the join, the encounter, remote execution, the life of a task over
several tables, the daemon, its upgrade and its identity, and the market, strategy and social
parts. The proofs of section 6 cover every safety property of the passing runs.

Next, in this order:

1. Theorems: the safety halves of the remaining liveness properties (ReachesTargets,
   ResultReturned, Settles, WorkFinishes), as done for the relay, the link and the delivery.
2. Compositions: the link with the relay core (does a link that believes to be registered
   have a route?), the delivery over the link, the claims over TaskStore with overlap.
3. Parts left open: the presence cache as input of the gossip targets; the dispatch of
   inbound messages to receivers.

## 3. Modules

`X` is a specification, `XProofs` holds theorems about it, and `MCX` gives it what a run
needs beyond the values of its constants (a symmetry, a choice of values, a definition); a
run whose cfg says all of that checks `X` itself, with `MCX.cfg`. Network and Work
each instantiate several components, with the constants of all of them as parameters: the
variable `part` is chosen in the initial state and says which one runs; the others keep one
fixed initial state. The behaviours are therefore the union of the behaviours of the
components, never their product: the components share no state, and what is shown of one is
what it does on its own. MCNetwork and MCWork give the constants values. MCLife puts
TaskLifecycle and Supervision together once more, under fairness, for liveness alone.

### Relays and connections

**RelayCore.** `conns[n]` is the socket of `conns.get(n)`, `lastSeen[n]` its age in sweep
intervals, `socketToNode` the second map. An action is one callback: `Connect` (upgrade),
`Register`, `Send`, `Answer` (ping and frames that are refused), `Disconnect` (end, close
or error of a socket), `Sweep`, `Close`. `Reads(s)` says when `data` can still reach the
handler. All of them run `touch` first when the code does. `latest`, `quiet` and `multi`
are history. Data abstracted: payloads, traces, byte framing.

**RelayServerV2, RelayServerV1.** V2 keeps an entry per node and session and the latest
session of each node; `Register` replaces the entry of the same session, `Cleanup` runs on
the close frame and on the close event and recomputes the latest. V1 has one socket per
node and is the specification that V2 implements when every node has one session.

**NodeRelayLink.** One process and its WebSockets. `conn`, `active`, `global`, `relay`,
`ready` and `retry` are `connection_state`, `activeWs`, `__A2A_ACTIVE_RELAY_WS__`,
`relay_url`, `relay_registered` and the reconnect timer. `loop` is the position of
`ensureConnected` in its two for loops. Actions are event-loop callbacks together with the
promise continuation they resolve: `Retry` and `Wake` (timers), `Open`, `Acked`,
`HandshakeFails`, `Timeout`, `Error`, `Closed` (socket events) and `Close`. Delays and the
backoff are untimed: any armed timer may fire.

**RelaySingleton.** The same idea in the older client: `conn` is `S.connection_state`,
`loop` the position of `ensureConnected`. Every socket ever made may still deliver a late
event, and each of them writes the shared state.

**Transport.** One `executeTransport`: the probe, the decision, the send over the chosen
way. The peer and the relay link change between the steps; a direct send may be carried
out and still fail for the sender. It is instantiated by RemoteExecution.

### Peers

**Directory.** `registry` is the file; a request is the copy it read and the record it will
write. Country lookup, addresses and URLs are one Boolean, whether details are known.

**PeerTrust.** `cache[p]` is the presence entry of a peer with its level, state, counters;
`saved` the file. A sighting carries one of four outcomes of the signature check.

**PeerGossip.** `known[n]`, `peerCache[n]`; a gossip message is delivered at once or lost,
which is sound because merging only adds.

**PeerTable.** `table[p]` is the entry of a peer in `peers.json` (on the relay, off it, or
absent), `copy[a]` the table the loop or the relay listener has built and not yet saved.
A refresh replaces the table, with whatever its two sources answered; gossip and statistics
change the copy they read and cut it at `Cap` names. `past` is history: who stayed on the
relay through refreshes that saw it. Writing the file is TaskStore's subject.

**NodeJoin.** Start, join, fetch, persist of `start-node.mjs` against two directories.
The repository's own `bootstrapServer` serves no `POST /join`: a directory whose protocol
is "current" refuses.

**Encounter.** Machine A's plan of probes, the relay's queue, machine B's phase 3 state,
candidates and friendship records. `harness` says which of the end-to-end scripts plays the
two machines, since only they call these functions; `Base` is the state B's
`protocolProcessor` supplies.

### Tasks

**TaskClaim.** One task, its executors and the creator. Each executor has its own copy of
the task; an update is a read step, which puts a snapshot into `held`, and a save step.
`Loop(e)` walks the agent loop through claim window, accept, re-check, markRunning,
execution, completion and result; handlers of `task.publish` and `task.claim` run between
its steps. Time is discrete (`now`, `Window`, `Delay`). `env` fixes at the start what the
environment may do, so one run holds an ideal network and several hostile ones.

**TaskDelivery.** The broadcaster. `snap` is the table the outbound tick loaded once,
`disk` is `tasks.json`, `held` are handlers between load and save. The tick visits the
tasks in order (`pos`), creates `publish_delivery`, closes it, counts and saves an attempt
and sends.

**TaskStore, TaskTable.** The directory has the names `tasks` and `tmp`; files keep their
identity when a name moves, so a descriptor opened before a rename writes into the file
that is now `tasks.json`. An operation is `Load`, `Open` (truncate), `Write`, `Rename` or
`RenameFails`. `TaskTable` is the abstract specification: one table, one-step updates.
The names of TaskStore (`StoreInit`, `StoreNext`, `StoreSpec`) differ from those of TaskClaim
so that TaskProofs can extend both.

**TaskLifecycle.** The record of one task in the tables of several nodes. Handlers of
`A2A_TASK_PUBLISHED`, `A2A_TASK_ACCEPTED`, `A2A_TASK_RESULT` and sync responses are one
step each; the tick recovers, picks, accepts, runs and finishes. A sync response is the
peer's record at the time it answered and may arrive much later.

**DailyDuties.** One tick of the loop in its order, without claims: join signal, pending
queue, first tasks, generator, aggregation, radar, choice and execution. `mem` and `disk`
are the runtime state in memory and on disk; a save may fail unnoticed. The generator
pushes a task into the list twice, as the code does (`tasks/taskGenerator.mjs:140`).

### Sessions and calls

**SessionRouter, MutualEntry.** A handler stands for one envelope or one local event in
progress: `pc` is where it awaits, `job` the event and the snapshot it is going to write,
`list` the friends list it has read. `Receive` is `readSession` with the allowlist check;
the protocol processor is a pure function of snapshot and envelope, so the next snapshot
is computed there. `Reject` is every way in which the processor throws. `Process` writes
the snapshot and decides the friendship trigger; `ReadFriends` and `WriteFriends` are
`writeFriendshipIfNeeded`. `overlap` fixes whether handlers interleave at their awaits.
`MutualEntry` is what the layers above may rely on: enter, close, befriend.

**RemoteExecution.** A makes a request, Transport carries it, B checks friendship and
handler, runs, and answers over a Transport of its own. `taken` are the calls B took
(by which way), `runs` those that ran the handler. `T` is the Transport of a request.

### The process

**AutoUpgrade.** `code` is the working tree, `loaded` what the process runs, `phase`,
`current`, `retries` the state file, `backup` the copy of the strategy. Every command may
fail; `Kill` may follow any step. `legacy` selects the older upgrader.

**Supervision.** Processes by pid, the lock file, systemd or the watchdog, and the
recovery check of a running daemon as one step (its awaits overlap nothing that shares
its state). `age` counts checks since `last_recovery_action_at`.

**NodeIdentity.** The files, and the list of writes that the bootstrap has computed from
what it read; each write may fail, or a kill may leave the file empty; `Move` copies the
workspace to another machine.

### Market and social parts

**OfferMarket.** The feed as latest and earliest event of each offer, pickers with their
position, ledgers and the indexes beside them. `alone` says whether all pickers are in one
process, which gives way only at awaits, or in several.

**Strategy.** Parameters in steps, the pending adjustment with its rollback, the timeline.

**Dialogue.** Runner, relay, receiver for the three flows; `lastTurn` is the receiver's
session, in memory.

**Acquaintance.** The rank of what is known of a peer, the updates in progress with the
copy each has loaded, and the temporary file.

## 4. Runs

| Run | Asks | Bounds and why they suffice |
|---|---|---|
| `relay_core` | Do routes follow registrations, whatever closes late, and do dead routes go away while busy ones stay? | 2 ids, 3 sockets: replacement, re-registration and two ids on a socket need at most three; idle timeout of one sweep |
| `relay_link` | Is there ever a second socket, does every round end and none connect after close, does a lost link come back? | 3 sockets (one closing, one late, one new), 3 candidates of which one is local only, 2 attempts each |
| `relay_link_failover` | Does failover reach a candidate that is up? No. | as above |
| `task_claim` | What does arbitration promise in each environment? | 2 executors, 2 windows each, window 2 ticks, delay 1, skew 1: a retry of the loser while the winner runs, ties, both orders |
| `task_claim_late` | Does one node execute the task when claims may be late or lost? No. | 2 executors |
| `task_delivery` | Are acknowledgements true and kept, attempts bounded, does delivery end and reach its targets? | 2 peers, 2 attempts, 2 tasks in a table, one handler beside the tick, one restart |
| `task_store` | Is the file readable and the update atomic while operations do not overlap, crashes included? | 2 tasks, 2 operations, 4 files (two names, two open descriptors) |
| `task_store_overlap` | Is it readable when they do? No. | the same |
| `session_router` | Who becomes a friend, however handlers interleave, and do serial handlers implement MutualEntry? | 2 sessions with one peer or two, 2 handlers: a stale snapshot needs two handlers of one session |
| `network` | The components of Network (nine, the second relay twice): properties below | directory: 2 nodes, 2 requests (an old copy needs one beside another); trust: one peer (peers do not share state), counters up to 5, the quarantine limit; gossip: a chain of 3 with distrust; relays: 3 sockets, 2 sessions or 2 nodes; singleton: 3 sockets, rounds of 2; join: 2 nodes, 2 directories, at most 1 peer kept; encounter: A runs twice; peer table: 3 nodes, at most 2 kept, two processes |
| `work` | The ten components of Work | remote: one call over two ways; duties: 1 task, 1 day, 1 death; upgrade: 3 versions, one bad, 2 retries, 1 kill; identity: 2 machines, 3 boots, 1 fault, 1 move; market: 2 pickers, 1 offer, 2 cycles, 1 crash, a cap of 2 rewards an hour and of 1 for a competition; pricing: 6 windows, 3 rewards, 2 adjustments; dialogue: one, 1 restart; acquaintance: 1 handshake; lifecycle: 2 nodes, 1 crash, 1 sync, 2 messages; supervision: 2 pids, 1 death |
| `life` | Do tasks finish, daemons return, and is a gateway that is down tried again? | 2 nodes, 1 crash, 1 sync, 2 messages; 2 pids, 1 death |

The properties of the last three runs:

* `ListedAsSeen`: the directory lists a node only if it was itself heard within the
  timeout, although every request writes back the records of all others; the peer table
  has every node on the relay that stayed there, and none by hearsay, although gossip,
  statistics and refreshes overwrite one another's copies.
* `QuarantineEarned`: a quarantined peer failed three times since its last good sighting.
* `RouteIsLive`, `ImplementsV1`: the second relay routes to a session that registered last
  and drops only while a close event is still to come; with one session per node it
  implements the first relay.
* `OnlyOneSocket`, `Settles`: the singleton never has two live sockets, and can send for
  good once the relay stays up; nodes that stay online all come to know one another,
  although each was told one name and some distrust the first peer they hear of.
* `ServesJoined`: a node that serves after a join is a member of the directory whose peers
  it keeps, and the fallback is not a way around a refusal.
* `FriendsWereProbed`: a candidate comes from a session this process saw opened, a
  friendship from a candidate both sides confirmed.
* `RunsForFriendsOnce`: no handler runs for a stranger, none twice for one call.
* `ToldOnce`: one join signal, one radar a day, plus one for a death between send and save.
* `UpgradeSafe`: only verified versions are tried, at most `MaxRetries` times; no exit into
  a version that failed; what runs is what is in the tree; the strategy survives.
* `KeepsIdentity`: two machines never run under one id, a node keeps its id.
* `MarketFair`: pickers of one process win an offer once, and each picker is paid for it once.
* `BooksBalance`: a source gives no more than its caps, and an index is the sum of its ledger.
* `Reversible`, `DialogueSound`, `NothingUnlearned`: see the comments in their modules.
* `NeverReopened`: no message, sync or recovery opens a completed task again.
* `OneDaemon`: daemons not started at one moment never run together; one gateway restart
  per check at most.
* `WorkFinishes`: tasks finish, daemons return, a gateway that is down is restarted again.

`TypesOK` is the type invariant of a composed run. In RelayCore, TaskStore (where it
is called `StoreTypes`) and SessionRouter `TypeOK` is proved and not run; elsewhere it is a conjunct of the run's
`...Sound` property.

Some properties exclude a case in which the code does not keep them; the case is a conjunct
of the property and named in its comment: sockets that register two ids (`SweepIsRight`,
`RouteIsLive`), overlapping updates (`ClaimsNeverLost`, `UpdatesKept`, `NothingUnlearned`),
nodes that stop for good (`ResultReturned`), two daemons started at one moment
(`OneDaemon`), plugin files that are missing (`GatewayRetried`), pickers in several
processes (`MarketFair`), an id that moved without a fingerprint (`KeepsIdentity`),
names beyond the cap and refreshes the relay did not answer (`PeersAsSeen`).

`Envs` (TaskClaim, TaskDelivery) lists the environments a run starts in. In
`session_router` the handlers and the actors are symmetric, which is sound because its
properties are safety properties. State constraints are not used: every bound is a guard
named `Max...`, so liveness is checked on complete behaviours. Deadlock checking is off
because the bounded systems stop: nodes run out of windows, updates or tasks, a closed
link stays closed.

### Fairness

* Timers of Node.js fire, and a callback that is queued runs: weak fairness of `Tick`,
  `Sweep`, `Retry`, `Wake`, `Loop`, `Handler`, the tick of the delivery and every save.
* A destroyed or closing socket reports its close (`Disconnect` of a destroyed socket,
  `Closed` of a closing one, `SocketEvent` of the singleton): the WebSocket implementation
  bounds the closing handshake.
* The register timeout of the link is strongly fair: it is one `setTimeout` of eight
  seconds that relays going up and down do not reset, while the guard of the action that
  stands for it is on and off with the relay.
* In TaskDelivery `Try` and `Handle` are strongly fair: an armed retry or a delivered
  frame is postponed while another update is in progress, which does not starve it.
* `Send` of the singleton is weakly fair: its callers send on their timers.
* A gossip timer fires for ever and picks its target at random, so each pair is strongly
  fair (`Gossip`).
* A loop ticks (`Tick` of TaskLifecycle), and a lease runs out on every node that keeps
  looking: `Release` is strongly fair.
* The watchdog looks on its interval (`Counts`), and systemd and the watchdog start a
  daemon again and again (strong fairness: deaths of others interrupt them); a daemon that
  has started goes on and checks (`ReadLock`, `WriteLock`, `Recover`).
* Nothing makes a relay come up, a client close, a message arrive that the environment may
  lose, a node restart, a network stay up.

## 5. Findings

* `relay_link_failover`: a register timeout leaves `connection_state` at CONNECTING and
  the closing socket in the global guard, so every remaining attempt of the round is
  refused, on healthy candidates too; the round ends at RELAY_ALL_CANDIDATES_FAILED and
  nothing schedules another one.
* `task_claim_late`: the window is decided after a fixed sleep on what has arrived, so a
  lost or late claim gives two executors.
* `task_store_overlap`: all saves use one temporary name. Of two overlapping saves one
  renames the file the other has truncated; a reader takes it for an empty table and its
  own save then erases every task.

Three more definitions state what one might expect and are false of the code; put one of
them in place of the property of the named configuration to see it:

* `LateLoserSilent` (`MCTaskClaimLate.cfg`): the loop sends its result without looking at
  `invalid_result`.
* `AckFindsDelivery` (`MCTaskDelivery.cfg`): a handler of another task that loaded the
  table before the tick saved it writes the old table back, and the acknowledgement finds
  no delivery state.
* `ClosedStaysClosed` (`MCSessionRouter.cfg`): the router writes the whole snapshot it
  computed from an earlier read, so an envelope in progress reopens a session closed
  meanwhile.

Read in the code while modelling, and kept in the models as they are:

* the generator pushes each task twice (`tasks/taskGenerator.mjs:140`, `:141`);
* a node killed while its phase is "upgrading" never upgrades again
  (`runtime/upgrade/autoUpgradeV0_3_2.mjs:246`);
* an error in recovery prolongs the time in which nothing is restarted
  (`runtime/autoRecovery.mjs:130`), for ever if every check fails;
* two daemons that start at one moment both pass the lock;
* a refresh saves the table even when the relay did not answer, and gossip keeps the first
  100 names: recovery then takes tasks back from nodes that are well
  (`runtime/agentRuntimeLoop.mjs:483`, `peers/peerGossip.mjs:113`, `tasks/taskRecovery.mjs:59`);
* `close()` of the relay singleton sets `stopping` for good;
* the automatic join asks a directory for `POST /join`, which the repository's own
  bootstrap server does not serve;
* `sendTaskAccepted` and `sendTaskResult` have no callers in `src/`; TaskLifecycle lets
  them be called at any time.

## 6. Proofs

TLC checks small instances; the theorems hold for all values of the constants under the named
assumptions in the modules that declare them (`RelayCoreAssumption`, `TaskStoreAssumption`,
`TaskClaimAssumption`, `SessionsAssumption`, `NodeRelayLinkAssumption`, `TaskDeliveryAssumption`, and `BoundsAreNumbers`,
`NamesAreNodes`, `NoneIsNothing` of Network and of Work). They say that bounds are natural
numbers, that a null value is none of the values it stands beside, that there is a task, a
session, a candidate, a machine and a first version, that the lists of names a node is
given are names of nodes, and that there are finitely many pickers (each starts a ledger
with one entry). TLC evaluates each of them on the run of its module.

Every proof has the same shape: an inductive invariant, one lemma per action (or group of
actions) that keeps it, and theorems drawn from it. The properties the runs check are seldom
inductive, and what has to be added is nearly always the same thing: what a property says of
the file, the table or the socket that is looked at has to be said of everything that may
become it later, a copy on its way, a record a restart brings back, a socket in a late event.

**RelayCoreProofs.** For any ids, sockets and idle timeout: `TypeCorrect`,
`RoutesAreLatest`, `OpenRegistrationsRouted`, `NoTargetNeverLies`,
`SingleIdNeverDangles`, `ActiveSocketsSpared`, `DeadRoutesOnlyAge`. None of the routing invariants is
inductive alone: `touch` writes `conns` on every frame, so RouteIsLatest needs that an open socket owns its id
(OpenSocketOwnsItsId); that needs that a closed socket is forgotten (`ClosedForgotten`),
or a new connection would inherit an id; and a late disconnect releases only a route that
is its own. `RouteInv` is their conjunction; there is one lemma per action.
`ActiveSocketsSpared` is the action property SweepSparesActive (the safety half of
SweepIsRight). The sweep looks at the age of an entry, the property at the silence of a
socket; `SeenSinceQuiet` relates the two, and its proof needs both `RouteInv` (a frame
renews no entry of another socket) and NoDanglingRoute (it does renew the entry of its
own). `DeadRoutesOnlyAge` is what DeadRouteRemoved rests on: touch looks up the id of an open
socket, and no dead route leads to one, so a dead route is removed, replaced by a new
registration, or older by one after every interval.

**NodeRelayLinkProofs.** For any candidates, attempts and sockets: `LinkIsSound`,
`HandshakesAwaited`, `NoneAfterClose`, `NothingIsForgotten`. That a new socket finds no other one needs to know
where a live one can be: `LiveIsGlobal` says it is the one in globalThis, so the guard of
connectOnce sees it once it is open, and `HandshakeAwaited` that one in its handshake is
awaited by the round, so no second attempt starts before it ends.
`NothingIsForgotten` is what RoundEnds and RecoversFromLoss rest on: the socket a round awaits
is the one it made, with its timer armed and its handshake or registration pending; a loss
outside a round has left a reconnect armed that ensureConnected will not turn away.

**TaskDeliveryProofs.** For any peers, tasks, attempts, handlers and environments:
`DeliveryIsSound`, `UpdatesAreKept`, `AcksFindDelivery` and `DeliveriesProgress`. `Truth` holds however updates
overlap: every copy of the table, in the tick or in a handler, and every acknowledgement in
transit, claims only what happened. `Serial` holds where they do not: the copy about to be
saved differs from the file by one change, and an attempt is counted in the file before it is
made. `AcksFindDelivery` proves the comment of the code on acknowledgements where updates do
not overlap; section 5 says how it fails where they do. `DeliveriesProgress` is what
DeliveryConcludes rests on: no tick, handler or restart gives a delivery attempts back or
reopens one that has ended. It needs `FlagsFollow`: the table of the tick has the flags of the
file besides its own, and no flag is set for a delivery that was never turned on.

**TaskProofs, the file.** `StoreInv` is `StoreTypes`, `Counted` (no table on disk or in memory
counts more updates than were begun, so counters stay in range) and `AloneWhenSerial` (without
overlap at most one operation is in progress and its table is the one on disk plus its own
change, and neither name refers to the file it should not). `SerialStoreReadable` follows.
`StoreImplementsTable` proves `StoreSpec => ImplementsTaskTable`: under the mapping `Saved` a
rename is the abstract update and every other step, a crash included, stutters.

**TaskProofs, the claims.** For any executors, windows, tries and environments.
`OnceInAnyNetwork` and `ClaimsStay` hold without a hypothesis: without overlap the copy an
update has read is still the file (`Serial`), so the status follows the loop (`Lifecycle`) and
no claim is written over; a copy that is done, wherever it is held, is one of a node that has
executed (`Produced`). `OneWinner` states `ArbitrationSound` for `TimelyDelivery`
(`Delay < Window`: a claim needs less time than a window lasts, which the property's "delivered
within the window" means; with `Delay = Window` an earlier claim may arrive in the instant the
window closes). Its invariant `Timely` relates the window of one node to the messages of
another: a claim is in the table of the node that made it, and in every other table unless it
is on its way there, unread or read and not saved, and then it is no older than `Delay`
(`ClaimsKnown`). So when a window closes every claim that is not later is in the table, the
winner's is before all claims of all nodes (`First`) and before all to come, whose time is
later; two nodes cannot both have the first claim, and a claim that arrives while the winner
runs does not invalidate its result. `First` and not `Winner` is the inductive notion: a node
may win by the claim of an earlier window of its own. `LosersLoseForGood` is the other side of
`ClaimsStay`, and the reason why ResultReturned assumes that no node stops for good: while
updates do not overlap, a node that a recorded claim beats once wins no later window, whether
or not the claimant lives.

**SessionRouterProofs.** For any sessions, actors and handlers: `OnlyMutualFriends` and
`NoDuplicateFriends` hold even when handlers overlap, and `RouterImplementsEntry` proves
`Spec => ImplementsMutualEntry`. The invariant has two parts. `Facts` survives every
interleaving: a snapshot, stored or held, claims only entries that happened (plus the
holder's own), a handler that befriends has seen both, a held list has no record of the
actor it is about to add. `Serial` says that without overlap the one handler in progress
still works on what is stored; it is needed for the refinement only, where `Process` maps
to `Enter`, `Close` or a stutter, `WriteFriends` to `Befriend`, and all else stutters.

**RelayServerV2Proofs.** For any sockets, nodes and sessions: `RoutesAreLive`,
`NoInheritedRoute`, `RelayImplementsV1`. The route of a node is one session, but any
registered session may be the next route, so `Owned` speaks of all of them: its socket still
answers for it or has registered several. The theorems take their assumptions as a
hypothesis, since Network has two instances of this relay and cites them for both.

**NetworkProofs.** One invariant per component, kept by its actions and by the stutter of
the others (`StepOfParts`), and one theorem per safety property of the `network` run:
`ListsAreSeen` (`Honest` of the file and of the copy of every request, so an old copy may
bring back old records but never fresher ones; `AsSeen` of every table on its way),
`QuarantineIsEarned` (of what a restart reads back too), `RoutesAreLive` and
`RelayImplementsV1` (from RelayServerV2Proofs), `OneSocket` (a live socket is the one in the
shared state unless the client is stopping), `ServersJoined`, `FriendsAreProbed`. The cap of
the peer table is an argument about the cardinality of a set of names cut to its first ones
(`FirstFew`).

**WorkProofs.** The same for Work, one theorem per safety property of the `work` run. Where
the properties are not inductive:

* `CapabilitiesRunOnce`: nothing arrives before the last step of the call that sends it
  (`Carried`), so what a try delivers comes by one way, although the transport falls back.
* `OwnerIsToldOnce`: a notice more than deaths account for is one that memory knows of.
* `UpgradesAreSafe`: an attempt that has not counted as failed yet is one of those allowed,
  and a backup that succeeded is back before the health is looked at.
* `IdentityIsKept` needs most. Seed, id, fingerprint and `NODE_ID` are written one after
  another and any write may be lost, so the invariant follows the list of writes a start has
  left: `InOrder`, and for each write what the files hold before it. `UsedSound` says that an
  id that ran has the fingerprint of its machine beside it as long as it is in the files
  (or is known to have moved without one), and that its seed is not there without it: so
  another machine makes a new seed before it makes an id.
* `MarketIsFair`: in one process nobody else is between look and verdict (`OneAtWork`), so
  what was not executed then is not executed by another meanwhile.
* `BooksAreBalanced`: in one process the index lags its ledger by at most the one posting
  whose picker is between append and save, and the copy it is about to save is the index as
  it stands (`IndexFollows`); the cap is checked against the ledger that is then appended
  to, since a picker gives way at no point in between (`CapHeld`). The prover cannot
  instantiate the library's induction theorems, so `SetInduction` says it of the least
  member of a set of counterexamples: `SumsExist` and `SumsUnique` show by it that the sum
  of a ledger is defined, and `TotalOfAppend`, the fact the actions need, follows.
* `DialoguesAreSound`: the receiver notes a turn before it answers, so an inbox that holds
  the same turn twice is harmless within one life.
* `OneDaemonRuns`: while no two daemons start at one moment, one that runs has the lock,
  and none runs while another is about to write it.
* `NothingIsUnlearned` and `CompletedStaysCompleted` are action properties: the temporary
  file is what its writer computed; a tick that runs a task has it in its table.

Model-checked only:

* everything under fairness (DeadRouteRemoved in SweepIsRight, RoundEnds, RecoversFromLoss,
  DeliveryConcludes, ReachesTargets, ResultReturned, Settles, WorkFinishes): liveness and
  ENABLED are out of the prover's reach. What a step may not undo is proved for three of them
  (`DeadRoutesOnlyAge`, `NothingIsForgotten`, `DeliveriesProgress`); that the steps are taken
  is what TLC checks;
* the three properties that runs refute.

## 7. What is not modelled

Each component that is partly modelled, or not at all, is listed in `PROJECT.json` with the
reason. Not at all:

* reports and snapshots (`runtime/status`, `networkSnapshotV0_1`, `globalNetworkSnapshotV0_1`,
  `joinNetworkSignalStats`): they read the files of others and keep nothing;
* phase 4 to 7 (probe engine, key binding, egress, JSON storage): called with an empty
  transcript, or without state;
* `experience`, and the social flows around the modelled ones: text processing, scoring and
  formatting;
* validators and builders of documents, canonical JSON, cryptography: a signature is a
  predicate of what it signs, a schema is one rejecting step.

Inside the modelled parts, message texts, logs, metrics, traces and reports are left out.
