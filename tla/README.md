# A verification project for the Machine orchestration of myRemnawave

The repository is a fork of the Remnawave panel.  What it adds, and what is
verified here, is the orchestration of *Machines*: a panel (NestJS, PostgreSQL,
BullMQ) provisions, configures, publishes, retries and renews proxy Nodes on
remote hosts through an Agent (Go) that dials in over one WebSocket, and carries
every change of users and squads to those Nodes.  Of the panel underneath, the way
of the users' traffic from the Nodes to their accounts is verified too: what it
decides is who is limited, and so who is served.

Everything is TLA+: modules, TLC configurations and proofs for TLAPS.
`PROJECT.json` maps each definition to the lines it stands for and lists runs,
mutants, findings, hazards and theorems.

To repeat a run or the proofs:

    tlc -workers 2 -config ControlSessions.cfg MCControl.tla
    tlapm MachineControlProofs.tla

A first proof of everything takes about a quarter of an hour, most of it `ProvisioningProofs`.

## 1. Inventory

### 1.1 The parts of the system

| Part | State it keeps | Operations | Hard behaviour |
|---|---|---|---|
| Machine control gateway (`apps/backend/src/modules/machines/machine-control.gateway.ts`) | `sessions` map, one socket and one promise chain ("pipeline") per connection | connect and supersede, hello, heartbeat, result, dispatch (also from HTTP requests) | pipelines of superseded sessions go on; every `await` lets another pipeline, request or job in |
| Command rows (`machines.repository.ts`, table `machine_commands`) | rows QUEUED / RUNNING / final, in `queueSequence` order | create, claim, reset at hello, expire, complete with cascades | read-then-claim, payloads replaced in place, late results |
| Agent control client (`apps/machine-agent/internal/control`) | current session, channel of 16 commands, command loop | dial, hello, heartbeat, execute serially, answer | the loop of an ended session is not waited for |
| Agent executor and store (`internal/executor`, `internal/state`) | one result file per idempotency key | validate, replay, run, persist | crash between effect and file, unreadable or unwritable store, cancellation persisted as failure |
| Agent configuration handler (`internal/nodeconfig`) | the configuration the Node runs, `last-good-config.json` | apply, roll back | takes effect before its result is stored; the old configuration may be refused too |
| Agent instances (`internal/instance`) | docker containers, Reality key and short id | reconcile, start, stop | bind races, cut off between two docker commands, reboots |
| Agent certificates (`internal/certificate`) | chain and private key of a Node | install a pair | two renames, cut off between them |
| WARP of a Machine (`internal/warp`, `machines.repository.ts`) | `warpStatus`, `warpOwnership`, takeover plans; `ownership.json`, warp-cli, the relay | discover, authorize a takeover, reconcile | an installation of somebody else; a relay that dies with the Agent; two retries of one handler |
| Enrollment (`machines.service.ts`, `machines.repository.ts`, `internal/enrollment`) | token hash, fingerprint, stored response; pending request and configuration on disk | create, rotate, consume, replay, install | lost responses, a crash in the installation, a rotation beside an exchange |
| Plans (`machines.repository.ts`, `machine_provisioning_plans`) | PENDING, READY, BLOCKED, APPLIED, EXPIRED, FAILED; ten minutes of life | create or reuse, supersede, discover, apply | expiry against a running discovery, superseding, simultaneous requests |
| Managed Nodes, Hosts, Machine status (`machines.repository.ts`) | `lifecycleState`, `isPublished`, revisions, port, Host enabled, Machine status | retry, publish, the cascade of each finished command | five formulas for one Machine status; siblings; partial failure |
| Users and squads (`modules/users`, `modules/internal-squads`, user jobs) | users' status, limits, dates, credential; squads and the Nodes they grant | create, update, disable, extend, reset, revoke, delete, bulk forms, watchdogs | the user is read in one statement and written in another; events may overtake writes |
| Start-node queue (`queue/_nodes`) | BullMQ jobs | generate a configuration, coalesce it into a queued row or add one, fail closed | jobs are added after the transaction that needs them committed; two jobs of one Node are not ordered |
| Certificate renewal task (`scheduler/enqueue/renew-machine-certificates`) | nothing of its own | block an expired certificate, queue a renewal | decides on what it read before its transactions |
| Usage accounting and resets (`queue/_nodes/processors/record-user-usage.processor.ts`, `queue/push-from-redis`, `queue/_users`) | counters of Xray, a hash per Node and its renamed copy in Redis, jobs of four queues and their pause, `user_traffic`, `nodes_user_usage_history` | poll, count, charge, push to the history, limit, reset | counters are zero before anything is written; workers stop between a statement and the end of their job; queues paused in Redis; a reset beside charges |
| Discovery, dependencies and inventory of the Agent; renderer and templates; upstream Nodes, subscriptions, authentication; Node runtime; web interface; release scripts | | | not modelled, see 6 |

### 1.2 How the parts meet

* An HTTP request (plan, provision, retry, publish) commits rows and then asks
  the gateway to dispatch.  Dispatch also follows each hello, heartbeat and
  result, one row at a time.
* The gateway sends a claimed row; the Agent's loop executes it and answers; the
  gateway completes the row in one transaction that also updates the Node, its
  Hosts, the Machine and cancels queued dependents.
* A reconciled instance, a publication, a renewal and every change of users or
  squads add a start-node job; the job makes a configuration and puts it into
  the rows as `apply_config`.
* A hello and every heartbeat may queue a `reconcile_warp` (`ensureWarpCommand`).
* Polls charge users through a queue that a reset pauses; the watchdog that limits a
  user reads what the charges wrote, and its event starts Nodes.
* An enrollment gives the Agent the certificate with which it opens a session.

### 1.3 What makes each part correct

* **Control channel.** A command gets exactly one outcome; SUCCEEDED is said only
  of work that was done and recorded; Panel and Agent disagree only for named
  reasons; no command is forgotten; revisions are applied in order.
* **Plans.** A plan in time is being worked on; it is applied once.
* **Nodes and Machine.** When nothing is left to do, nothing is left provisioning;
  a published Machine is whole; a published port never moves; attempts to create
  one instance do not overlap.
* **Hosts and certificates.** A Host is enabled only for a published Node that has
  applied a configuration and whose certificate is not blocked.
* **Enrollment.** A token buys one certificate; an installed credential is the one
  the panel trusts; a lost response can be fetched again.
* **Instances.** What the panel was told is what is on the host; the Reality key that
  clients have is never replaced; a stopped instance stays stopped; a rollback is to
  the configuration applied before; a key fits its certificate.
* **WARP.** What others installed is not touched; what the Agent installed is
  recorded; an outage ends or is known.
* **Users.** When all is through, a Node accepts exactly those it should.
* **Usage.** Every unit of traffic comes to the history and to the account once, or is
  taken by a named fault; a reset erases no charge of its own time; a user is limited
  when the limit is used up, and only then.

## 2. Modules

| Module | Models | Extends / instantiates |
|---|---|---|
| `CommandQueue` | abstract: what the durable queue promises its callers | - |
| `MachineControl` | gateway, rows, client, executor, store, start-node job, at the grain of one database statement | INSTANCE `CommandQueue` |
| `Provisioning` | plans, Nodes, Hosts, certificates, publication, cascades, at the grain of one transaction | - |
| `Enrollment` | tokens and credentials, at the grain of one statement and one rename | - |
| `AgentInstance` | docker, files and Nodes of one host, at the grain of one docker command, rename or request | - |
| `UserAccess` | users, squads, events, jobs and what each Node accepts, at the grain of one statement | - |
| `WarpDependency` | the WARP of one Machine: plans, requests, heartbeats and the Agent's two handlers | - |
| `UsageAccounting` | polls, hashes, charges, history, limits, resets and the pauses of queues, at the grain of one Redis call or statement | - |
| `Subsequences` | what is left of a list of rows when some are taken out, given by positions | EXTENDED by `Provisioning` and `WarpDependency` |
| `MC...` | symmetry and small sets for TLC | EXTENDS the module |
| `MachineControlProofs`, `ProvisioningProofs`, `EnrollmentProofs`, `AgentInstanceProofs`, `WarpDependencyProofs`, `UsageAccountingProofs`, `UserAccessProofs` | theorems | EXTENDS the module, `TLAPS` |
| `SubsequenceProofs` | lemmas about lists without some of their elements | EXTENDED by the proofs of `Provisioning` and `WarpDependency` |

The modules are views of one system, cut where one part needs of another only a
promise that another module checks:

* `MachineControl` has the whole channel and two kinds of commands.  `Provisioning`
  and `WarpDependency` have the other kinds and what they do, and take from the
  channel what `CommandQueue` promises - one outcome per row - with rows claimed in
  order.  The theorem that the channel implements `CommandQueue` is what lets them.
* `MachineControl` lets a handler succeed, fail, or be cut off after its effect.
  `AgentInstance` and `WarpDependency` are the inside of such handlers.
* `UserAccess` produces the `apply_config` rows that `MachineControl` delivers in
  order and `AgentInstance` applies; there a row is applied, or fails, in one step.
* `Provisioning` has one step (`Reconfigure`) for what `UserAccess` has in full.
* `UserAccess` lets a user use up the limit at any time (`Consume`); `UsageAccounting` is
  how the panel comes to know of it.

### 2.1 MachineControl

| Variables | In the code |
|---|---|
| `created, kind, status, revision, late, overdue, errorCode` | rows of `machine_commands` and their deadlines against the clock |
| `desired, applied, lifecycle` | `desiredRevision`, `appliedRevision`, `lifecycleState` of the Node |
| `current, readyState` | the `sessions` map and the panel's sockets |
| `pc, doomed, held, target` | where a pipeline or an HTTP dispatch awaits, and its local variables |
| `toAgent, toPanel` | messages sent, and those waiting in the Agent's channel or for the pipeline |
| `agentOpen, exec, store, live` | the session's context, the handler a loop is in, the result files, the configuration the Node runs |
| `posted, picked, rewritten` | history |

| Actions | In the code |
|---|---|
| `Connect`, `PanelNotices`, `AgentNotices`, `ConnectionBreaks` | `startSession`, `runSession`, `readLoop` |
| `HandleHello`, `HandleHeartbeat`, `HandleResult` | `handleMessage`; `completeCommand` (`Complete`) |
| `Dispatch`, `ScanExpired`, `FailExpired`, `PickReady`, `Claim`, `Send` | `dispatchReady`, `getReadyCommands`, `sendReadyCommands` |
| `Begin`, `Effect`, `Finish`, `StoreUnreadable`, `StoreUnwritable`, `LoopReturns`, `SendHeartbeat` | `commandLoop`, `Execute`, `persist`, `Put` |
| `EnqueueTask`, `StartNode` | rows that touch no Node; `queueManagedConfig` |
| `PanelRestarts`, `AgentRestarts`, `TaskDeadlinePasses`, `ConfigDeadlinePasses` | processes and time |

### 2.2 Provisioning

One action per transaction of the repository, the queue and the task: `CreatePlan`,
`GetPlan`, `Provision`, `Retry`, `Publish`, `Reconfigure` (a user, squad or Node
change), `StartNode` (`QueueConfig` or `QueueFails`), and `Result` /
`DeadlineExceeded`, which are `completeCommand` for every kind that ends:
`Discovered`, `Reconciled`, `Certified`, `Applied`, `NothingElse`, and the failures
`DiscoveryFails`, `ClosedApplyFails`, `CertificateFails`, `ApplyRolledBack`,
`InstanceFails`, `MachineFails`.  `HelloReads` / `HelloWrites` and `RenewalReads` /
`RenewalBlocks` / `RenewalQueues` are pairs and triples because the code reads
outside of the transaction that writes.  `Enqueue` lets a crash lose the jobs that
follow a commit.  `DeadlineExceeded` may fail any row: `queueManagedConfig` renews the
deadline of a queued row whose configuration it replaces, so rows do not exceed theirs
in the order of their creation.  `lost`, `swept`, `clobbered`, `jobFailed`, `outlived`,
`outrun` and `raced` are history: what the exceptions of 3.2 name.  `outrun` has the
Nodes of which a configuration ended (failed, was cancelled, or exceeded its deadline)
while an older one was still under way, until the next one is queued; `Configs` are the
configurations under way, in rows or in an open completion.

**Transactions that are overtaken.**  The code opens its transactions without an
isolation level, so PostgreSQL runs them at READ COMMITTED, and nothing in them
locks a row it only reads.  `createProvisioningPlan`, `retry`, `publish` and the
completion of `apply_config` decide on rows they read first.  `TransactionReads`
puts such a decision into `open`; exactly one other action happens (`Overtakes`);
`TransactionWrites` does the writes.  One is enough to break a property, and the five
seconds Prisma gives an interactive transaction leave no room for a round of work
of the Agent.  `raced` remembers the Nodes that were no more what had been read;
the properties that need it name it.

### 2.3 Enrollment

| Variables | In the code |
|---|---|
| `status, tokenHash, tokenFresh, replayHost, replayToken, response, fingerprint, inTime` | the row of the Machine: `enrollmentTokenHash`, `enrollmentExpiresAt`, `enrollmentAttemptId` with `enrollmentCsrFingerprint`, `enrollmentReplayTokenHash`, `enrollmentResponse`, `clientCertFingerprint`, the thirty minutes of a replay |
| `tokens, rotation` | tokens made; a `rotateEnrollmentToken` between its check and its write |
| `stage, asked, answer` | a request in the panel, between the lookup, the guarded update and the second lookup of `enroll` |
| `session` | the control session of a host (opened, or past its hello) |
| `runs, step, received, pending, config` | the Agent's `enroll` command: its runs, its place, the validated response, the pending directory, the installed configuration |
| `issued, overtaken` | history: what each certificate was bought with; a rotation wrote to a Machine that was enrolled in between |

`RotateReads` / `RotateWrites`, `EnrollReads` / `EnrollConsumes` / `EnrollRereads` are
the panel's statements; `ExchangeLost`, `PanelRestarts`, `TokenExpires`,
`ReplayExpires` what may happen to a request; `Start`, `Receive`, `Stop`, `Install`,
`RemovePending` the Agent's command, which may stop after every rename; `Connect`,
`Hello`, `Disconnect` the first session (a hello clears the stored response).
Two hosts are two machines on which the command, with the same token, was started.

### 2.4 AgentInstance

| Variables | In the code |
|---|---|
| `container, taken` | docker: state, published port and hash label of each container; ports of other programs |
| `key, short, chain, private, lastGood` | `reality.key`, `reality.short-id`, `fullchain.pem`, `privkey.pem`, `last-good-config.json` |
| `active` | the configuration each Node process runs |
| `handler` | the one handler that runs: its place, command and local variables |
| `known, served, stopped, applied, rolledBack` | what the panel was told, by which result |
| `cut, crowded` | history: kinds that were cut off since they last succeeded; instances whose replacement lost its port |

| Actions | In the code |
|---|---|
| `Begin`, `Report`, `ReportRollback`, `Interrupted` | `Execute` calls a handler and stores its result; a failure, a dead Agent or a cancelled context ends it anywhere |
| `Inspect`, `Material`, `WriteKey`, `WriteShort`, `Pull`, `StartSame`, `StopOld`, `RemoveOld`, `Create`, `Bind`, `Cleanup` | `reconcile_instance`: `selectExternalPort`, `ensureRealityMaterial`, the docker commands, `removeFailedOwnedContainer` and the one retry |
| `StartInstance`, `StopInstance` | `start_instance`, `stop_instance` |
| `ReadPair`, `WriteChain`, `WritePrivate` | `reconcile_certificate` |
| `Post`, `Rollback`, `Persist` | `apply_config` |
| `OtherProgram`, `Reboot` | the rest of the host |

### 2.5 UserAccess

`user` and `grants` are the rows; `op` a request between the statement that reads and
the one that writes; `bus` the events in memory, `events` and `jobs` the two queues,
`worker` a start-node job between reading the users and queueing the row, `command`
the queued `apply_config`, `served` what each Node accepts.  `missed` is history: the
Nodes with a change that no step of the code tells them (the steps name it:
`Misses`); `late` the Nodes on which a command failed and left the users as they were.

The actions are the requests (`AskUser`, `AskReset`, `AskGrants`, then `DisableUser`,
`EnableUser`, `DeleteUser`, `RevokeUserSubscription`, `ExtendUserExpirationDate`,
`ResetUserTraffic`, `UpdateUser`, `UpdateUsersInternalSquads`, `CreateUser`,
`BulkExtendExpirationDate`, `UpdateInternalSquad`, `MoveMember`, `SquadOfAll`,
`BulkUpdateAllUsers`, `BulkAllExtendExpirationDate`, `DeleteByStatus`), the watchdogs
(`FindExceededUsers`, `FindExpiredUsers`, `ResetPeriod`), the jobs (`FireUserEvent`,
`AddUserToNode`, `RemoveUserFromNode`, `BeginStart`, `QueueManagedConfig`,
`HandleManagedConfigQueueFailure`), the health check, and the end of a command
(`ApplyConfig`, `ApplyConfigFails`).

### 2.6 WarpDependency

| Variables | In the code |
|---|---|
| `plan, rows, node, warpStatus, warpOwnership, due` | plans with their WARP finding, active commands with the Agent's stored results, what a Node has of WARP, the columns of the Machine, `warpLastChecked` |
| `session, handler` | the control session; the WARP handler that runs, and where |
| `record, cli, works, relay, xui` | `warp/ownership.json`, warp-cli and its tunnel, the listener for the containers, a 3X-UI on the host |
| `theirs, approved, intruded, swept` | history: whose installation it is, whether a takeover was allowed, whether others installed over the Agent's record, plans whose queued command a failure of the Machine cancelled |

`CreatePlan` ... `Provision`, `Retry`, `Publish`, `Reconfigure`, `NodeSettles` are the
panel; `MachineFails` is a failed preflight of the Machine or `reconcile_dependency`, which
cancels every queued command, also those of plans and of WARP; `Hello`, `Heartbeat` and
`CheckIsDue` call `ensureWarpCommand`, `OverdueHeartbeat` while the command that is there
is past its deadline and not failed yet; `Claim`, `Result`, `DeadlineExceeded` are the channel; `Discover`, `Begin`, `VerifyCompatibleExternal`,
`Detect3XUI`, `CheckOwnership`, `EnsureInstalled`, `Configure`, `Persist`,
`EnsureRelay`, `Adopt`, `CreateOwnership`, `FillOwnership`, `Fails` the Agent;
`Disconnect` its death or the end of its session; `OthersInstall`, `OthersRemove`,
`WarpChanges` other people on the host.

### 2.7 UsageAccounting

Traffic is a set of units, so that each can be followed on both of its ways; a column
that sums traffic is the number of times it has each unit.

| Variables | In the code |
|---|---|
| `spent, counters, connected` | what users consumed, what the counters of Xray still hold, `nodes.isConnected` |
| `poll` | the `recordUserUsage` job of each Node: waiting, with an answer, counted into the hash, charged |
| `hash, processing` | the hash `node_user_usage:<id>` of Redis and its renamed copy |
| `push, recorded` | the delayed job of each Node that renames the hash, and `nodes_user_usage_history` |
| `charges, used, charged` | the `updateUsersUsage` jobs, `usedTrafficBytes` and `lifetimeUsedTrafficBytes` |
| `status, limit` | `users.status`, `users.trafficLimitBytes` |
| `writes` | what each request about one user has decided and not written yet, with the status and limit it read |
| `bulk, reset, paused` | the job that updates all users, the one that resets all, the paused queues |
| `lostRecord, lostCharge, recharged, dropped, abandoned, stuck` | history: what a named fault or race did (3.2) |

`Consume`, `XrayRestarts`, `HealthCheck` are the Nodes; `RecordUserUsageTask` and the
`Poll...` actions the poll; `Push...` and `HashExpires` the way to the history;
`Charge...` that to the accounts; `FindExceededUsers` and `FindExpiredUsers` the watchdogs;
`ResetUserTraffic`, `ExtendUserExpirationDate`, `SetUserStatus` (enable and disable) and
`UpdateUser` read a user and decide, and `WriteUser` writes what was decided;
`BulkUpdateAllUsers`, `UpdateRanges`, `BulkSyncLimitedUsers` and their failures the update of
all users, `BulkSyncExpiredUsers` the end of an extension of many; `ResetTask`, `ResetPauses`, `ResetSelects`,
`ThrottleGivesUp`, `ResetActive`, `ResetLimited`, `ResetResumes` and their failures the
reset of all.  A `...CutOff` is a worker that stops; BullMQ gives its job to another
worker once and fails it the second time.  The identifier of a poll and the
deduplication of a push hold until the job has ended.

## 3. Runs

Every run is for two workers and ends within minutes.  `CHECK_DEADLOCK FALSE` is
in every configuration because the bounds on requests, faults and deadlines run
out, and a system nobody asks anything of may stop.

| Run | Bounds | Checks | Shows |
|---|---|---|---|
| `ControlSessions` | 2 sessions, 2 commands of a Node, 2 revisions, no deadline, 1 fault | `TypeOK`, `SucceededWasDone`, `OutcomesAgree`, `QuiescentNodeIsDecided`, `AppliedNeverRegresses` | outcomes survive a lost connection, a restart, a storage error and a superseded pipeline; without a fault revisions are applied in order |
| `ControlFaults` | 1 session slot, 1 HTTP dispatch, 1 command, 2 revisions, 2 deadlines, 1 fault; fairness | `UnchangedPayloadRan`, `QueueSpec`, `EveryCommandSettles` | every command ends; a success is a success of the payload in the row unless it was replaced after being read; two readers, one claim |
| `ControlDesiredState` | 2 sessions, 1 command, 2 revisions, 1 fault | `DesiredStateRecovers` **violated** | finding 1 |
| `ProvisioningPlans` | 2 Nodes, one with a certificate, 1 port, window 1, 2 plans, 2 revisions, 3 requests, 1 fault | `PendingPlanIsDiscovered`, `EnabledHostIsServed` | no plan waits without its discovery; no Host is enabled that is not served |
| `ProvisioningNodes` | 2 Nodes, 2 ports, window 2, 1 plan, 2 revisions, 3 requests, 1 fault | `TypeOK`, `PublishedMachineIsWhole`, `QuietNodesAreDecided`, `QuietMachineIsDecided`, `PublishedPortFixed` | siblings with two commands in flight: nothing is left waiting for nothing, but for a lost job and the hole `outrun` names |
| `ProvisioningPipelined` | 1 Node, window 2 | `NoDependentEscapes` **violated** | finding 2 |
| `Enrollment` | 2 hosts, 2 tokens, 2 runs of the command on each | `TokenIsSpentOnce`, `InstalledIsTrusted`, `IssuedIsResumable`, `LostResponseIsReplayed` | one token, one certificate; a lost response is fetched again, wherever anything stopped |
| `AgentInstance` | 2 instances (one with Reality), 2 ports, 1 version, 2 revisions, 4 commands, 2 faults | `ReportedIsServed`, `MaterialIsKept`, `StoppedStaysStopped`, `RolledBackToApplied` | what was reported is what is there, through interruptions between any two steps, reboots and other programs |
| `UserAccess` | 1 user, 2 squads, 1 Node, 2 administrators, 2 workers, 2 requests, 1 fault | `TypeOK`, `NodesServeTheGranted`, `NobodyElseIsServed` | when all is through a Node accepts whom it should, but for the steps that tell no Node |
| `UserAccessGrant` | as above | `FinalGrantRemoves` **violated** | finding 3 |
| `WarpDependency` | 1 Node, 2 plans, 1 request, 1 fault, 1 event; fairness | `TypeOK`, `OwnInstallIsRecorded`, `OwnershipAgrees`, `PendingPlanIsWorkedOn`, `OthersWarpIsUntouched`, `OutageIsNoticed` | the record says whose the installation is; others' WARP is left alone; an outage ends or is known |
| `UsageAccounting` | 1 user, 1 Node, 2 units, no answer ignored, limit 2 or none, 1 reset, change or expiry, 1 fault; fairness | `RecordedOnce`, `ChargedOnce`, `NothingLeavesHistory`, `NothingLeavesCharges`, `ResetHolds`, `LimitedIsOver`, `UsageIsCharged`, `OverIsLimited` | every unit arrives once on both ways, or a named fault took it; resets erase no charge of their time; who is limited is over the limit, but for named races; what was counted is charged and who is over the limit is limited |

### 3.1 Why the bounds are enough to be interesting

* Two session slots: the pipeline and the command loop of one connection beside
  those of the next, which is the only overlap the map and the dialer allow more
  than briefly.  A slot is used again once nothing of its connection is left.
* Two commands: one ahead of and one behind another, one that cancels another.
  Two revisions: one replaced by the next, in the same row or in two.
* A fault is a broken connection, a restart of either side, or a storage error.
  `MaxLate` counts tasks and revisions whose deadline may pass; for liveness it
  covers every row there can be.
* Two Nodes: one that fails and the sibling that must not be harmed.  Two ports:
  one to stay at and one to move to.  Window 1 is a channel where each command is
  answered before the next is claimed, Window 2 one where a heartbeat claimed
  another; two are enough for an older configuration that is applied while a newer
  one fails.  Three requests: publish, reconfigure and retry in any order.  The plans
  run has Window 1 to be finished in minutes: its two properties are proved for any
  number of commands in flight.  Also passing, outside of the runs: the properties of
  the nodes run with two requests and two faults, or with two requests and
  certificates, each with one port.
* `Enrollment`: two hosts that present one token, two tokens so that one is rotated,
  two runs so that one command repeats what another left.
* `AgentInstance`: two instances that compete for two ports, four commands so that
  one of each of two kinds is cut off and repeated, two interruptions so that the
  repetition is cut off too.
* `UserAccess`: two requests about one user overlap, with two jobs of one Node that
  overtake each other.  Two squads grant the same or different Nodes, or none.  Also
  passing, outside of the runs: 1 squad and 2 Nodes; 3 requests.
* `WarpDependency`: two plans so that one supersedes the other, a second Node of the
  same kind adds only another reason to ask for WARP.  Also passing, outside of the
  runs and without fairness: 2 faults; 2 events; 2 requests; 2 Nodes without requests.
* `UsageAccounting`: two units make one poll with both or two that meet in one hash; a
  fault is a job cut off, a poll or an answer lost, or a statement that fails; the reset
  runs beside any of it.  Polls and pushes of different Nodes share nothing but the
  queues.  A request is decided and written in two steps, so that one of them is enough
  to meet the watchdog, the charges and the job in between.  More faults and requests
  multiply the states beyond what liveness can be checked on; the safety properties are
  proved for any number, for users created with any status and limit.
  Also passing, outside of the runs and without fairness: 2 requests and 1 fault.
* The channel's properties of order were also checked, outside of the runs, with 3 and 4
  commands and revisions, with tasks between them, and with a fault or a deadline.
* Symmetry is over session slots, Nodes, hosts, ports, users, squads, administrators
  and workers, in runs without temporal properties beyond `[][A]_v` and refinement of
  a safety specification.

### 3.2 Properties with exceptions

Some properties hold only where the code keeps them, and say so:

* `QuiescentNodeIsDecided`, `AppliedNeverRegresses` speak of behaviours without a
  fault, a deadline or an HTTP dispatch (`Undisturbed`): with two pipelines a row can be
  claimed first and sent second, and a result that comes after its deadline closes the
  session.  The first also leaves out Nodes with a cancelled command: with three
  commands, one that escapes the failure of its predecessor (finding 2) succeeds for
  less than was asked for, when what asked for the rest was cancelled, and sets the
  Node back to PROVISIONING with nothing left to do.
* `QuietNodesAreDecided` and `QuietMachineIsDecided` hold for any number of commands in
  flight, faults and deadlines, and name the two ways in which the code leaves a Node
  PROVISIONING with nothing left to do, from which retry refuses it.  A start-node job
  was lost by a crash after the commit (`lost`).  Or a configuration that is RUNNING, or
  whose completion is open, succeeds after a newer one of its Node failed, was
  cancelled or exceeded its deadline (`outrun`): completing it sets the Node back to
  PROVISIONING, as it is behind, and nothing that asks for the newer one is left.  Two
  commands in flight are enough for that, and one with a deadline: that of a queued row
  is renewed when it is replaced (`start-node.processor.ts:449-453`), so a younger row
  can exceed its own first.  A Machine is left PROVISIONING by such a Node; the second
  property also names a job that failed, a plan that outlived its discovery, and an
  older status put back by a hello.
* `OutcomesAgree` names the deadline, the unusable store, and a preflight whose success is
  that the host is unfit, which the panel books as a failure (`Booked`).
* `UnchangedPayloadRan` leaves out rows whose payload was replaced after they were
  read; `DesiredStateRecovers` shows what happens to those.
* `PublishedPortFixed` and `EnabledHostIsServed` leave out Nodes of an overtaken
  transaction (`raced`): two retries at once are two retries, because the check for an
  active command and the creation of one are two statements without a lock; and a
  certificate blocked between the reads and the
  writes of a completion leaves an enabled Host with a blocked certificate.
* `InstalledIsTrusted`, `IssuedIsResumable` and `LostResponseIsReplayed` hold unless a
  rotation overtook an exchange (`overtaken`): `machines.service.ts:106-114` checks that
  the Machine is not enrolled, and `machines.repository.ts:907-923` then writes
  unconditionally, so that a Machine enrolled in between is a draft with a second
  valid token.
* `ReportedIsServed`, `RaceLeavesNothing`, `CertificateHasItsKey` and
  `RolledBackToApplied` name the commands that were cut off and not repeated (`cut`),
  and a replacement that lost its port (`crowded`): then the old container is gone,
  the new one stays without ever having run.
* `NodesServeTheGranted` and `NobodyElseIsServed` leave out the Nodes in `missed`.  The
  steps that put a Node there are: a request that writes back a status a watchdog
  changed in between; `resetUserTraffic`, which publishes before it writes; an update
  of squads (finding 3); a squad whose Nodes changed between the read and the
  write; the removal of all users from a squad, and the bulk changes of all users,
  which do not reach managed Nodes; an event about a user who was deleted meanwhile;
  a removal while the panel believes the Node disconnected; and two start-node jobs of
  one Node, of which the older reading is queued last.  A command that is not to
  fail closed may fail (`late`) and leave what was there, also a revoked credential;
  Nodes that failed closed are not started again in the module.
* `NothingLeavesHistory` and `NothingLeavesCharges` name what `IgnoreBelow` and the
  faults took (`lostRecord`, `lostCharge`): an Xray that restarts, an answer that is lost
  after the counters were set to zero, a poll cut off before its writes, a statement
  that fails and is only logged (its three attempts are never used), a hash that
  expires.  `ChargedOnce` names the jobs cut off between their statement and their
  end (`recharged`), whose units are charged twice.
* `HashIsPushed` names the Nodes whose push was asked for while another of theirs was at
  work after its rename, or whose asking failed (`dropped`): the next poll that reads
  something takes the hash along.
* `PausedByReset` and `UsageIsCharged` name a reset that failed to pause or resume, or
  stopped twice (`abandoned`); `ResetHolds` one that gave up waiting for a running job.
* `LimitedIsOver` names the users who are limited below their limit (`stuck`).  The steps
  that put a user there are: a request that writes for a user whose status or limit is no
  longer what it read - `resetUserTraffic` and `updateUser` leave limited who was limited
  meanwhile, `extendUserExpirationDate` writes back the LIMITED it read; and a reset or an
  update of all users whose second statement failed or was cut off.  Beside them are the
  users created so, and those a reset or update of all is about to deal with.  Every
  writer of the status and of the limit is in the module but the deletion of users.
* `PendingPlanIsWorkedOn` and `PendingPlanIsDiscovered` leave out the plans in `swept`: a
  failed preflight of the Machine, or a dependency that cannot be installed, cancels every
  queued command of the Machine (`machines.repository.ts:1753`, `1778`), also the discovery
  or the takeover of a plan, which stays PENDING until its time is over.
* `OthersWarpIsUntouched` names `intruded`: an installation made by others over the
  Agent's own record is taken for the Agent's.

### 3.3 Fairness

Three runs use fairness, and only of what the code drives by itself.

* `ControlFaults`: the Agent dials whenever it has no session (`Run`), a closed socket
  is noticed on both sides (heartbeats and read deadlines), promise chains and
  database calls do not hang, the heartbeat ticks, the command loop takes the next
  command and a handler ends (each has a time limit), and time passes deadlines.
  Without the deadlines the property fails: a command can be claimed and not sent,
  and only its deadline, or the next hello, finds it.
* `WarpDependency`: the Agent dials (`Hello`) and heartbeats, the two minutes of
  `warpLastChecked` pass (`CheckIsDue`), rows are claimed and results booked, and the
  Agent works on what it has (`Discover`, `Begin`, `HandlerSteps`).
* `UsageAccounting`: BullMQ runs what is in a queue that is not paused, the schedules come
  round, a statement that was begun ends.  A Node is polled only while it is
  connected, and a queue runs only while it is not paused; both come and go, so the
  polls and the beginnings of jobs are strongly fair, which a schedule that comes round
  is.  Nothing is assumed of the health check: the property leaves out a Node that
  does not stay connected.

Nothing is assumed of requests, of faults, of other people or of the outcome of a
handler.

## 4. Findings

Each is a counterexample TLC finds, against a sentence of the repository's documents
(quoted in `PROJECT.json`).

1. **A validated Node that runs another configuration** (`DesiredStateRecovers`).  The
   payload of a row that was read for dispatch, or that was executed and queued again
   by a hello, is replaced under the same idempotency key.
2. **A dependent command escapes a failed prerequisite** (`NoDependentEscapes`).  A
   heartbeat claims it while the prerequisite runs; only QUEUED rows are cancelled.
3. **The final grant is removed and the Node keeps the user** (`FinalGrantRemoves`).  An
   update of a user's squads starts the Nodes of the new squads only, and an update
   that disables the user as well publishes nothing at all.

Observed while modelling, and not a run of its own:

* A session that ends while a handler runs cancels it, and the cancellation is stored as
  the command's result and replayed: the command fails for good (`executor.go:92`), where
  `docs/development/machine-control.md:50-52` speaks of commands that can be received again.
* An `apply_config` that was RUNNING while the one before it failed sets a Node from FAILED
  to PROVISIONING when it succeeds for an older revision (`machines.repository.ts:1490-1506`),
  although nothing that asks for the newer one is left (3.2).
* A crash after a commit loses the start-node job that should follow it; two retries
  at once are two retries; a rotation overtakes an exchange (3.2).
* A crash between the creation of `ownership.json` and its content leaves a record that
  nothing repairs (`takeover.go:119`): every later takeover and reconciliation refuses it.
* A WARP that others installed over an `INSTALLING` record counts as the Agent's own
  (`reconcile.go:108`).
* Once `warpStatus` is FAILED, `ensureWarpCommand` stops (`machines.repository.ts:1070`),
  and retry needs a FAILED or DEGRADED Node: a Machine whose Nodes are all only
  validated has no request that tries again.  `docs/requirements/requirements-baseline-v1.0.md:191-193`
  and `v1.1.md:121-122` ask for a retry.
* A published Node that FAILED becomes DEGRADED when WARP fails and PUBLISHED when it
  recovers (`machines.repository.ts:1438`, `1739`); an `apply_config` after an outage shows
  PUBLISHED while `warpStatus` is FAILED (`1501`).
* `throttleQueues` runs before the `try` whose `finally` resumes the queues
  (`reset-user-traffic.processor.ts:45`), and a pause outlives the worker: after an
  error, or a second stop, users are not charged until the next reset.
* `extendUserExpirationDate` writes back the status it read (`users.service.ts:476-483`):
  a reset, an enabling or a raised limit between the two is undone, where
  `extend-user.command.ts:17` says that the status of a LIMITED user does not change.
* The jobs that charge users are added with three attempts
  (`users-queues.service.ts:299`), and catch every error themselves.

## 5. Proofs

All are for any values of the constants, from the named assumptions of the modules.

| Module | Theorem | States |
|---|---|---|
| `MachineControlProofs` | `TypeCorrect` | `Spec => []TypeOK` |
| | `SucceededOnlyIfDone` | `Spec => []SucceededWasDone` |
| | `ImplementsQueue` | `Spec => QueueSpec` |
| | `OutcomesNeverDisagree` | `Spec => []OutcomesAgree` |
| | `SucceededPayloadRan` | `Spec => []UnchangedPayloadRan` |
| | `QuietNodeIsDecided` | `Spec => []QuiescentNodeIsDecided` |
| | `RevisionsAreAppliedInOrder` | `Spec => AppliedNeverRegresses` |
| `ProvisioningProofs` | `ProvisioningTypes` | `Spec => []TypeOK` |
| | `BaseHolds` | `Spec => []Base`, the types and what rows, jobs and transactions in flight refer to |
| | `OnlyServedHostsAreEnabled` | `Spec => []EnabledHostIsServed` |
| | `OnlyWholeMachinesArePublished` | `Spec => []PublishedMachineIsWhole` |
| | `PendingPlansAreDiscovered` | `Spec => []PendingPlanIsDiscovered` |
| | `PublishedPortsAreFixed` | `Spec => PublishedPortFixed` |
| | `WaitingNodesAreWorkedOn` | `Spec => []NodeInv`, what a Node that is PROVISIONING waits for |
| | `NodesAreDecided` | `Spec => []QuietNodesAreDecided` |
| | `WaitingMachineIsWorkedOn` | `Spec => []MachineWaits`, what a Machine that is PROVISIONING waits for |
| | `MachineIsDecided` | `Spec => []QuietMachineIsDecided` |
| `EnrollmentProofs` | `TokensAreOneTime` | `Spec => []TokenIsSpentOnce` |
| | `EnrolledHostsAreTrusted` | `Spec => []InstalledIsTrusted` |
| | `ExchangesAreResumable` | `Spec => []IssuedIsResumable` |
| | `LostResponsesAreReplayed` | `Spec => LostResponseIsReplayed` |
| `AgentInstanceProofs` | `TypesHold` | `Spec => []TypeOK` |
| | `StoppedInstancesStayStopped` | `Spec => []StoppedStaysStopped` |
| | `CertificatesMatch` | `Spec => []CertificateHasItsKey` |
| | `RealityMaterialIsKept` | `Spec => []MaterialIsKept` |
| | `ReportsAreServed` | `Spec => []ReportedIsServed` |
| | `RacesLeaveNothing` | `Spec => []RaceLeavesNothing` |
| | `RollbacksAreToTheApplied` | `Spec => []RolledBackToApplied` |
| `WarpDependencyProofs` | `OwnInstallsAreRecorded` | `Spec => []OwnInstallIsRecorded` |
| | `ConfigurationIsRecorded` | WARP is configured only under a record, never beside a 3X-UI |
| | `WarpTypes` | `Spec => []TypeOK` |
| | `OwnershipNeverDisagrees` | `Spec => []OwnershipAgrees` |
| | `OthersWarpStaysUntouched` | `Spec => OthersWarpIsUntouched` |
| | `PendingPlansAreWorkedOn` | `Spec => []PendingPlanIsWorkedOn` |
| `UsageAccountingProofs` | `UsageTypes` | `Spec => []TypeOK` |
| | `HistoryRecordsOnce` | `Spec => []RecordedOnce` |
| | `HistoryIsWhole` | `Spec => []NothingLeavesHistory` |
| | `UsersAreChargedOnce` | `Spec => []ChargedOnce` |
| | `ChargesAreWhole` | `Spec => []NothingLeavesCharges` |
| | `HashesArePushed` | `Spec => []HashIsPushed` |
| | `ResetErasesNothing` | `Spec => []ResetHolds` |
| | `OnlyResetsPause` | `Spec => []PausedByReset` |
| | `LimitedUsersAreOver` | `Spec => []LimitedIsOver` |
| `UserAccessProofs` | `UserAccessTypes` | `Spec => []TypeOK` |
| | `GrantedAreServed` | `Spec => []NodesServeTheGranted` |
| | `NobodyElse` | `Spec => []NobodyElseIsServed` |
| | `ServingHolds` | `Spec => [](TypeOK /\ ServingInv)`, the invariant both rest on |

**MachineControl.**  `SucceededWasDone` is not inductive: HandleResult believes a
message.  `IInv` follows the success back to where it comes from:

* `ReportsStored` - a success on its way to the panel is in the store;
* `StoredWasPosted` - a success in the store took effect;
* `RunningWasPosted` - a handler that says it took effect did;
* `SucceededWasStored` - a row that is SUCCEEDED has its success in the store;
* `RowsExist`, `InFlightExists` - rows that do not exist have no status, no result and
  nothing in flight, so that a new row starts without a past;
* `Typed` - the type invariant.

It is kept because results are stored before they are sent, the store never replaces
a result, and idempotency keys are never used again.  The refinement is a step
simulation under `IInv`: each step of the channel is a `Submit`, `Perform`, `Succeed`,
`Fail` or a stutter of `CommandQueue`; a row may become "succeeded" only after its
`Perform`.  `OutcomesAgree` needs that every result on its way agrees with the store, or
comes of a store that could not be used (`ReportsAgree`), and that a row that failed has
its reason (`FailuresAgree`).  `UnchangedPayloadRan` needs that until a row's payload is
replaced, what was claimed, sent and executed of it is what the row has (`PInv`).

`QuiescentNodeIsDecided` and `AppliedNeverRegresses` rest on one invariant of undisturbed
behaviours, `OrderInv`, which TLC confirmed before it was proved:

* `Alone` - one session acts, and nothing of another is left anywhere;
* `Wire` - the RUNNING rows are those answered, being executed, sent and about to be sent,
  from the oldest to the youngest (`HasTheRunning`, `WorksInOrder`); what is about to be
  claimed is the first queued row; a hello finds nothing RUNNING, so that it queues
  nothing again;
* `RowsInOrder` - rows start and end in the order of the queue, and each `apply_config`
  asks for more than those before it;
* `RevisionsFit`, `Decided` - an active row asks for more than the Node has applied and for
  no more than is desired; a Node that is PROVISIONING has an active row that asks for
  what is desired, unless one was cancelled.

So the result at the head of the pipeline is that of the oldest active row
(`ResultOfTheOldest`), it is never refused, and its revision is above the applied one.

**Provisioning.**  The panel's rows are a list from which rows are taken, in which rows
are marked, and to which rows are added: `SubsequenceProofs` has what that does to their
order, and `Base` that rows, jobs, plans and open transactions speak of Nodes, revisions
and plans there are.  On it rest: `HostInv` - a Node that is published or validated has
applied a configuration, and so has one whose completion or publication is between its
reads and its writes; the status of the Machine, which every step that unpublishes or
fails a Node computes anew; that a plan's row is taken only by the step that decides the
plan; and `PortInv` - rows are claimed and sent from the first on (`SentFirst`), a
published Node's reconcile_instance has its port, a Node that is only validated has
none in flight, and the instance goes before the configuration (`PortsFit`), for every
Node no two transactions raced for.

That a system at rest has decided every Node is an invariant of what is still to come,
which TLC confirmed before it was proved.  `NodeInv` says of every Node in PROVISIONING
that a start-node job, its reconcile_instance or a configuration under way will decide it
(`ProvisioningIsWorked`), unless its job was lost or it was outrun.  It rests on which
configurations are under way (`Configs`): none asks for more than is desired, and an open
completion of the one that is desired has found the Node caught up (`ConfigsAsked`); and
while any is, the one that is desired is (`LastIsUnderWay`) - the step that ends it before
an older one records the Node in `outrun`, and the next one queued is again the desired
one.  So an older completion that sets the Node back to PROVISIONING leaves the newer one
to come.  Steps that claim, mark or add rows carry what is under way along (`Carries`),
cancellations only take from it.  `MachineInv` is about the Machine: it
waits for a discovery or for a Node that is PROVISIONING (`MachineWaits`), because each
step that makes it PROVISIONING leaves one of them: a plan that is READY has protocols to
provision (`ReadyPlans`), a retry or a publication has Nodes (`OpenNodes`), and a Node not
yet made is PROVISIONING when it is (`Unmade`).

**Enrollment.**  The inductive invariant adds to the properties what the panel and the
hosts know at each place: the certificate that is trusted is the last one issued
(`LastIsTrusted`); the token in the row has bought nothing yet (`RowTokenUnspent`);
without an overtaken rotation there is one exchange, which used up the token
(`EnrolledOnce`); a stored response and every answer are certificates
(`AnswersHaveCertificates`); a host that has asked is pending until it has installed
(`RequestsArePending`, `StepsAreBacked`), and only holds certificates for its own key
(`OwnKey`).

**AgentInstance.**  Each concern has its own invariant over the types and `Handled` (which
kind of command is at which place, and what its handler has by then), and each is
preserved without the others: `StoppedInv` (a command that may start the instance has
withdrawn what was said of its being stopped), `CertificateInv` (at the second write the
chain is of the drawn pair), `MaterialInv` (a key is written only where there was none),
`ServedInv` (what is about to be reported is what was started), `RaceInv` (a container
that never ran was there before, or is the command's own) and `ApplyInv` (the last good
configuration is the last applied one, except between `Persist` and `Report`).

**WarpDependency.**  `PlacesAreBacked` says what a handler has found out by the place where
it is; the panel's steps leave the host alone (`HostKept`), and the record is written
before the installation and removed only where it was of no use.  Between the host and
what the panel believes are the rows: `Base` adds that a stored result that will make
the panel an owner has a record behind it (`RowsFit`), that rows are claimed from the
first on (`RunningFirst`), and that a handler which is not orphaned by a deadline works
for the first row that runs without a result, of its own kind (`HandlerHasRow`,
`PlaceFitsMode`) - without which a result could be stored in the row of another
command.  Every step is a `Succession` of rows: it keeps some, in their order, and puts
fresh ones behind.  `OthersAreNotTaken` follows an installation that is not the Agent's:
it comes under the record by a takeover that was allowed, or by being installed over
it.  A plan that waits keeps its row because the row goes only with the outcome that
decides the plan, and a takeover is asked of plans that were used (`PlansInv`); when the
Machine fails the rows that run stay, and `swept` names the plans of the others.

**UsageAccounting.**  None of the properties is inductive: that a unit is recorded once
needs that it is in one place only.  `HistoryInv` says so for the counters, the answer
of a poll, the hash and its renamed copy, and that a unit in any of them is not
recorded - except in the copy once it was written (`HistoryPlaces`).  `ChargeInv` says
the same of the counters, the poll and the jobs, that no two jobs share a unit, and how
often a unit was charged at each stage of its job (`ChargedBy`), one more if the job
was cut off behind its statement.  `ResetInv` says that the queue is paused while the
reset is at work, also between its two runs, and that nothing of it runs once the
reset has seen it quiet.  `LimitedInv` adds to `LimitedIsOver` that
a reset about to resume the queues has dealt with every user, and that what a request
has decided fits what it read (`DecidedWell`): one that saw a limited user makes him
active when it takes the traffic from the account or raises the limit, and one that saw
another user limits none.  So only a write for a user who has changed meanwhile can leave
him limited below the limit (`WriteLimited`), and no step lowers what a user has used or
raises the limit without one of these (`StaysBelow`).  What a user has used is
the cardinality of a set (each unit as often as it was charged), so that more charges
are a larger set and no induction over a sum is needed; `FiniteInstance` (finitely many
users and Nodes) makes it finite.  `IdleIsNoJob` is what is assumed of `Idle`, which
stands for no job, and `SameIsNoValue` of `Same`, which stands for a column a request
leaves as it is.

**UserAccess.**  Both properties speak of a system where nothing is under way, so the
invariants say what is still to come.  `ReachInv`, for every user and every Node that was
not left out and on which nothing failed: an event or a job that has not read the users is
on its way; or a job that runs has read what the user is now; or the newest command, or
what the Node accepts if there is none, says it, and every job of the Node that runs and
read anything else has been overtaken - and the step by which such a job replaces the
command records the Node in `missed`.  `ExcessInv` is the weaker statement that survives
failures: a user who shall not be served is announced, or one of what is to come and fails
closed knows it; or neither the jobs that were not overtaken nor the newest command
have the user, and the Node does not accept him, or does until a command that fails
closed ends.  It needs that a command which replaces one that fails closed does so too
(`Closes`).  A step of the rows is shown to be a `FrontStep`: for every Node and user
it leaves everything as it was, records the Node, announces the change, queues a job that
fails closed, or queues any job for a user who is to be served.  Steps that change rows
are about one part of the state and steps of jobs and commands about the other, so each
kind is proved against the invariant without the other.  `IdleIsNoRecord` is what is
assumed of `Idle`, which stands for no request, job or command.

Not proved, and checked by TLC only, are the liveness properties `EveryCommandSettles`,
`OutageIsNoticed`, `UsageIsCharged` and `OverIsLimited`: liveness under fairness is beyond
this prover.

## 6. What is left out

* **Control channel.**  An effect that is rolled back counts as none
  (`AgentInstance` has both steps).  TLS, certificates and schema checks at the upgrade; the hello
  timer and pings (they close a session: `ConnectionBreaks`); back-off times; the
  overflow of the channel of 16 (it ends the session); the kinds of commands beyond
  "touches the Node" and "does not"; per-command time limits (a failed ending).
* **Statements inside `completeCommand`.**  In `MachineControl` a completion is one
  step, the payload it read with the row it ends.  In `Provisioning` only the
  completion of `apply_config` is split; the others, and `QueueFails`, `Provision` and
  `GetPlan`, are one step.  `Provision` claims its plan with a guarded update and the
  Nodes are unique per protocol; `QueueConfig` increments the revision in the row.
* **Completions of a Machine** come one at a time and in the order of the rows in
  `Provisioning` and `WarpDependency`; that pipelines overlap is `MachineControl`'s subject.
* **Provisioning data.**  Payloads, secrets, templates, port conflicts between siblings;
  Agent capabilities and the offline check (a refused request changes nothing); jobs
  merged by id (the set of jobs has each once); imported certificates, archiving and
  deletion of Machines.
* **Enrollment.**  Agents without an attempt identity (v0.1.1); archived Machines; a
  missing certificate authority; the contents of certificates; the ninety days of a
  client certificate, which nothing renews.
* **AgentInstance.**  One handler at a time (two sessions' loops may run two handlers:
  `MachineControl` has that overlap); the managed network; UDP beside TCP; certbot and
  DNS (a pair is found or not); ports that conflict when the host reboots; the twelve
  attempts of a request to a Node.
* **UserAccess.**  What another step does between the deletion and the insertion of
  `bulkUpdateUsersInternalSquads` (`users.service.ts:656-663`; that the insertion fails is
  modelled).  Nodes without a Machine; a panel that crashes with events in memory;
  the sweeps of ten thousand users or more, which start every Node; external squads,
  devices, tags, notifications.
* **UsageAccounting.**  The traffic of Nodes (`record-node-usage`), multipliers, thresholds
  and first connections, the cleaning of the history, the export to a stream, deleted
  users.  Users whose date has passed are any.  The ranges of an update of all users are
  one step, of which a failure may leave out any users.  Batches and chunks are one statement, one job, one scan: `HSCAN` returns a
  field of a hash that only grows once or more, and here once.  A job is given to
  another worker only when its first one has stopped: two at work on it at the same
  time, after a lost lock, are left out.  So is a push cut off before its rename, which has
  done nothing yet.
* **WarpDependency.**  Two pipelines that ask for WARP at once; `machines.status`; how a
  3X-UI or the traffic of the relay is recognised; a handler beside another command.
* **Not modelled.**  Dependencies, discovery's port planner and inventory of the Agent,
  `managed-config.renderer.ts` and the protocol templates: sequential or pure, without
  state of their own.  Subscriptions, devices, authentication, Hosts
  and Nodes without a Machine, the Node runtime and most of the panel are upstream
  Remnawave, imported by subtree (`UPSTREAM.md`); the web interface is presentation;
  the release scripts have no state of a running system.  They are most of the
  repository's lines, which is why the map covers a small share of them.

## 7. Plan

Done: `CommandQueue`, `MachineControl`, `Provisioning`, `Enrollment`, `AgentInstance`,
`UserAccess`, `WarpDependency`, `UsageAccounting`, and proofs for all of them.  What would
come next:

1. `completeCommand` split at its payload read in `MachineControl`, and two handlers at
   a time in `AgentInstance`.
2. The running state of instances in `Provisioning` (a Node that failed closed is
   stopped and stays so), and its restart in `UserAccess`.
3. Imported certificates and the archiving of Machines.
4. The port planner of discovery and the coalescing of `queueManagedConfig` as
   functions, checked against a reference definition.
5. Proofs: the refinement of an abstract life cycle of a Node (provisioning, validated,
   published, failed) by `Provisioning`.
