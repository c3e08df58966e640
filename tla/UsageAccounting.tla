--------------------------- MODULE UsageAccounting ---------------------------
(***************************************************************************)
(* How the traffic of users comes from the Nodes to the panel.             *)
(*                                                                         *)
(* Every 15 seconds a job per connected Node reads the counters of Xray    *)
(* and sets them to zero.  What it read goes two ways: into a hash of      *)
(* Redis, which a delayed job renames and adds to the history of the Node; *)
(* and into jobs that add it to what each user has used.  A watchdog       *)
(* limits the users over their limit, administrators change the status and *)
(* the limit of one user or of all, and a job resets what all users have   *)
(* used, for which it pauses the queues of the other two.                  *)
(*                                                                         *)
(* Traffic is a set of units, so that a unit can be followed on both ways: *)
(* <<u, n, i>> is the i-th unit of user u on Node n.  A column of the      *)
(* database that sums traffic is the number of times it has each unit.     *)
(*                                                                         *)
(* The queues are BullMQ's: a job that is cut off with its worker is given *)
(* to another one once, and failed the second time; a paused queue starts  *)
(* no job and lets the running ones finish.                                *)
(***************************************************************************)
EXTENDS Integers, FiniteSets

CONSTANTS
    Users, Nodes,
    Idle, Same,
    MaxUnits,       \* bound: units of a user on a Node
    IgnoreBelow,    \* USER_USAGE_IGNORE_BELOW_BYTES
    Limits,         \* the values of trafficLimitBytes; 0 is none
    Created,        \* the status and the limit users are created with
    Changes,        \* those an update sets
    MaxRequests,    \* bound: resets and changes of one user or of all, and
                    \* runs of the watchdog that find users whose date passed
    MaxFaults       \* bound: crashes, lost answers, failed statements

ASSUME FiniteInstance == IsFiniteSet(Users) /\ IsFiniteSet(Nodes)

ASSUME UsageBounds ==
    /\ MaxUnits \in Nat /\ IgnoreBelow \in Nat /\ Limits \subseteq Nat
    /\ MaxRequests \in Nat /\ MaxFaults \in Nat

Units == Users \X Nodes \X (1 .. MaxUnits)
Queues == {"charges", "push"}
Polls == [stage : {"waiting", "answered", "counted", "charged"},
          units : SUBSET Units, again : BOOLEAN]
Pushes == [stage : {"delayed", "renamed", "ending"}, again : BOOLEAN]
Charges == [stage : {"waiting", "active", "committed"}, units : SUBSET Units, again : BOOLEAN]
Resets == [stage : {"waiting", "pausing", "selected", "swept", "resuming"},
           targets : SUBSET Users, done : SUBSET Users, again : BOOLEAN, gaveUp : BOOLEAN]

Statuses == {"ACTIVE", "LIMITED", "DISABLED", "EXPIRED"}
Writes == [id : 1 .. MaxRequests, user : Users, zeroes : BOOLEAN,
           status : Statuses \cup {Same}, limit : Limits \cup {Same},
           seen : Statuses, seenLimit : Limits]
Updates == [stage : {"waiting", "written"}, status : {"ACTIVE", "DISABLED", Same},
            limit : Limits \cup {Same}, done : SUBSET Users, again : BOOLEAN]

ASSUME UserInputs ==
    /\ Created \subseteq [status : Statuses, limit : Limits]
    /\ Changes \subseteq [status : {"ACTIVE", "DISABLED", Same}, limit : Limits \cup {Same}]

ASSUME IdleIsNoJob == Idle \notin Polls \cup Pushes \cup Resets \cup Updates
ASSUME SameIsNoValue == Same \notin Statuses /\ Same \notin Limits

VARIABLES
    spent,          \* the units users have consumed
    counters,       \* those in the counters of Xray
    connected,      \* nodes.isConnected
    poll,           \* the recordUserUsage job of each Node
    hash,           \* node_user_usage:<id>
    processing,     \* the same, renamed
    push,           \* the recordUserUsage job of the queue push-to-db of each Node
    recorded,       \* nodes_user_usage_history
    charges,        \* the updateUsersUsage jobs
    used,           \* user_traffic.used_traffic_bytes
    charged,        \* user_traffic.lifetime_used_traffic_bytes
    status, limit,  \* users.status, users.traffic_limit_bytes
    writes,         \* what requests that have read a user will write
    bulk,           \* the update of all users
    reset,          \* the reset of all users
    paused,         \* the queues that are paused
    requests, faults,
    lostRecord, lostCharge, \* history: units a fault, or IgnoreBelow, took
    recharged,      \* history: units of a job that ran again after its statement
    dropped,        \* history: Nodes whose hash nothing will push, see below
    abandoned,      \* history: a reset ended and left queues paused
    stuck           \* history: users limited below their limit, see WriteUser

traffic == <<spent, counters, connected>>
recordVars == <<hash, processing, push, recorded, lostRecord, dropped>>
chargeVars == <<charges, used, charged, lostCharge, recharged>>
resetVars == <<status, limit, writes, bulk, reset, paused, requests, abandoned, stuck>>
vars == <<traffic, poll, recordVars, chargeVars, resetVars, faults>>

OnNode(units, n) == {p \in units : p[2] = n}
OfUser(units, u) == {p \in units : p[1] = u}
Used(u) == Cardinality(UNION {{p} \X (1 .. used[p]) : p \in OfUser(Units, u)})
Over(u) == limit[u] # 0 /\ Used(u) >= limit[u]
BelowLimit == {u \in Users : status[u] = "LIMITED" /\ ~Over(u)}

TypeOK ==
    /\ spent \subseteq Units /\ counters \subseteq Units
    /\ connected \in [Nodes -> BOOLEAN]
    /\ poll \in [Nodes -> Polls \cup {Idle}] /\ push \in [Nodes -> Pushes \cup {Idle}]
    /\ hash \subseteq Units /\ processing \subseteq Units /\ charges \subseteq Charges
    /\ recorded \in [Units -> Nat] /\ used \in [Units -> Nat] /\ charged \in [Units -> Nat]
    /\ status \in [Users -> Statuses] /\ limit \in [Users -> Limits]
    /\ writes \subseteq Writes /\ bulk \in Updates \cup {Idle}
    /\ reset \in Resets \cup {Idle}
    /\ paused \subseteq Queues /\ abandoned \in BOOLEAN /\ stuck \subseteq Users
    /\ lostRecord \subseteq Units /\ lostCharge \subseteq Units
    /\ recharged \subseteq Units /\ dropped \subseteq Nodes
    /\ requests \in 0 .. MaxRequests /\ faults \in 0 .. MaxFaults

Init ==
    /\ spent = {} /\ counters = {} /\ connected = [n \in Nodes |-> TRUE]
    /\ poll = [n \in Nodes |-> Idle] /\ push = [n \in Nodes |-> Idle]
    /\ hash = {} /\ processing = {} /\ charges = {}
    /\ recorded = [p \in Units |-> 0] /\ used = [p \in Units |-> 0]
    /\ charged = [p \in Units |-> 0]
    /\ \E user \in [Users -> Created] :
          /\ status = [u \in Users |-> user[u].status]
          /\ limit = [u \in Users |-> user[u].limit]
    /\ writes = {} /\ bulk = Idle /\ reset = Idle
    /\ paused = {} /\ requests = 0 /\ faults = 0
    /\ lostRecord = {} /\ lostCharge = {} /\ recharged = {} /\ dropped = {}
    /\ abandoned = FALSE /\ stuck = {u \in Users : status[u] = "LIMITED"}

Fault == faults < MaxFaults /\ faults' = faults + 1
Counts(column, units) == [p \in Units |-> IF p \in units THEN column[p] + 1 ELSE column[p]]

(***************************************************************************)
(* The Nodes.  Xray counts what users consume, and starts from nothing     *)
(* when startXray restarts it.                                             *)
(***************************************************************************)
Consume(p) ==
    /\ p \notin spent /\ \A i \in 1 .. p[3] - 1 : <<p[1], p[2], i>> \in spent
    /\ spent' = spent \cup {p} /\ counters' = counters \cup {p}
    /\ UNCHANGED <<connected, poll, recordVars, chargeVars, resetVars, faults>>

XrayRestarts(n) ==
    /\ Fault /\ OnNode(counters, n) # {}
    /\ counters' = counters \ OnNode(counters, n)
    /\ lostRecord' = lostRecord \cup OnNode(counters, n)
    /\ lostCharge' = lostCharge \cup OnNode(counters, n)
    /\ UNCHANGED <<spent, connected, poll, hash, processing, push, recorded, dropped,
                   charges, used, charged, recharged, resetVars>>

HealthCheck(n) ==
    /\ connected' = [connected EXCEPT ![n] = ~@]
    /\ UNCHANGED <<spent, counters, poll, recordVars, chargeVars, resetVars, faults>>

(***************************************************************************)
(* The job that polls a Node.  Its identifier is the Node's: while one     *)
(* waits or runs no other is added.                                        *)
(***************************************************************************)
NewPoll == [stage |-> "waiting", units |-> {}, again |-> FALSE]

RecordUserUsageTask ==
    /\ \E n \in Nodes : connected[n] /\ poll[n] = Idle
    /\ poll' = [n \in Nodes |-> IF connected[n] /\ poll[n] = Idle THEN NewPoll ELSE poll[n]]
    /\ UNCHANGED <<traffic, recordVars, chargeVars, resetVars, faults>>

Polling(n, stage) == poll[n] # Idle /\ poll[n].stage = stage
Pushing(n, stage) == push[n] # Idle /\ push[n].stage = stage
PollTo(n, stage) == poll' = [poll EXCEPT ![n].stage = stage]
PollEnds(n) == poll' = [poll EXCEPT ![n] = Idle]

(* A Node that has nothing to say leaves nothing to do. *)
PollAnswers(n) ==
    /\ Polling(n, "waiting")
    /\ counters' = counters \ OnNode(counters, n)
    /\ IF OnNode(counters, n) = {} THEN PollEnds(n)
         ELSE poll' = [poll EXCEPT ![n].stage = "answered", ![n].units = OnNode(counters, n)]
    /\ UNCHANGED <<spent, connected, recordVars, chargeVars, resetVars, faults>>

(* The Node does not answer, or fails to read its counters. *)
PollUnanswered(n) ==
    /\ Polling(n, "waiting") /\ PollEnds(n)
    /\ UNCHANGED <<traffic, recordVars, chargeVars, resetVars, faults>>

Kept(units) == {p \in units : Cardinality(OfUser(units, p[1])) >= IgnoreBelow}

PollCounts(n) ==
    /\ Polling(n, "answered")
    /\ LET kept == Kept(poll[n].units) ignored == poll[n].units \ kept
       IN  /\ hash' = hash \cup kept
           /\ poll' = [poll EXCEPT ![n].stage = "counted", ![n].units = kept]
           /\ lostRecord' = lostRecord \cup ignored /\ lostCharge' = lostCharge \cup ignored
    /\ UNCHANGED <<traffic, processing, push, recorded, dropped,
                   charges, used, charged, recharged, resetVars, faults>>

(* Mutant: one job at a time, as for the hash. *)
MutPollCharges(n) ==
    /\ Polling(n, "counted") /\ PollTo(n, "charged")
    /\ charges' = IF poll[n].units = {} \/ charges # {} THEN charges
                    ELSE {[stage |-> "waiting", units |-> poll[n].units, again |-> FALSE]}
    /\ UNCHANGED <<traffic, recordVars, used, charged, lostCharge, recharged, resetVars, faults>>

PollCharges(n) ==
    /\ Polling(n, "counted") /\ PollTo(n, "charged")
    /\ charges' = IF poll[n].units = {} THEN charges
                    ELSE charges \cup {[stage |-> "waiting", units |-> poll[n].units,
                                        again |-> FALSE]}
    /\ UNCHANGED <<traffic, recordVars, used, charged, lostCharge, recharged, resetVars, faults>>

(* recordUserUsageDelayed: a Node has one job until it has ended, also     *)
(* while it runs, after it has renamed the hash.                           *)
PollPushes(n) ==
    /\ Polling(n, "charged") /\ PollEnds(n)
    /\ push' = IF push[n] = Idle
                 THEN [push EXCEPT ![n] = [stage |-> "delayed", again |-> FALSE]] ELSE push
    /\ dropped' = IF push[n] = Idle \/ Pushing(n, "delayed") \/ OnNode(hash, n) = {}
                    THEN dropped \ {n} ELSE dropped \cup {n}
    /\ UNCHANGED <<traffic, hash, processing, recorded, lostRecord, chargeVars, resetVars, faults>>

(* What a poll that ends early leaves undone. *)
PollLoses(n) ==
    /\ lostRecord' = IF Polling(n, "answered") THEN lostRecord \cup poll[n].units ELSE lostRecord
    /\ lostCharge' = IF Polling(n, "answered") \/ Polling(n, "counted")
                       THEN lostCharge \cup poll[n].units ELSE lostCharge
    /\ dropped' = IF OnNode(hash, n) = {} \/ Pushing(n, "delayed") THEN dropped
                                                                  ELSE dropped \cup {n}
    /\ UNCHANGED <<spent, connected, hash, processing, push, recorded,
                   charges, used, charged, recharged, resetVars>>

(* A call to Redis fails: handleOk ends with its catch. *)
PollFails(n) ==
    /\ Fault /\ poll[n] # Idle /\ ~Polling(n, "waiting") /\ PollEnds(n)
    /\ PollLoses(n) /\ UNCHANGED counters

(* The answer is lost, the counters are zero. *)
PollAnswerLost(n) ==
    /\ Fault /\ Polling(n, "waiting") /\ PollEnds(n)
    /\ counters' = counters \ OnNode(counters, n)
    /\ lostRecord' = lostRecord \cup OnNode(counters, n)
    /\ lostCharge' = lostCharge \cup OnNode(counters, n)
    /\ UNCHANGED <<spent, connected, hash, processing, push, recorded, dropped,
                   charges, used, charged, recharged, resetVars>>

(* Mutant: it charges again for the answer it had. *)
MutPollCutOff(n) ==
    /\ Fault /\ poll[n] # Idle /\ ~Polling(n, "waiting")
    /\ poll' = [poll EXCEPT ![n] = IF @.again THEN Idle
                  ELSE IF Polling(n, "charged") THEN [@ EXCEPT !.stage = "counted", !.again = TRUE]
                  ELSE [NewPoll EXCEPT !.again = TRUE]]
    /\ PollLoses(n) /\ UNCHANGED counters

PollCutOff(n) ==
    /\ Fault /\ poll[n] # Idle /\ ~Polling(n, "waiting")
    /\ poll' = [poll EXCEPT ![n] = IF @.again THEN Idle ELSE [NewPoll EXCEPT !.again = TRUE]]
    /\ PollLoses(n) /\ UNCHANGED counters

(***************************************************************************)
(* The job that takes the hash of a Node to the history.                   *)
(***************************************************************************)
PushTo(n, stage) == push' = [push EXCEPT ![n].stage = stage]

(* Mutant: what is left under the new name is kept. *)
MutPushRenames(n) ==
    /\ Pushing(n, "delayed") /\ "push" \notin paused /\ OnNode(hash, n) # {}
    /\ processing' = processing \cup OnNode(hash, n)
    /\ hash' = hash \ OnNode(hash, n)
    /\ PushTo(n, "renamed") /\ dropped' = dropped \ {n}
    /\ UNCHANGED <<traffic, poll, recorded, lostRecord, chargeVars, resetVars, faults>>

(* The name the hash is given may still be that of an older one. *)
PushRenames(n) ==
    /\ Pushing(n, "delayed") /\ "push" \notin paused /\ OnNode(hash, n) # {}
    /\ processing' = (processing \ OnNode(processing, n)) \cup OnNode(hash, n)
    /\ hash' = hash \ OnNode(hash, n)
    /\ PushTo(n, "renamed") /\ dropped' = dropped \ {n}
    /\ UNCHANGED <<traffic, poll, recorded, lostRecord, chargeVars, resetVars, faults>>

PushFindsNothing(n) ==
    /\ Pushing(n, "delayed") /\ "push" \notin paused /\ OnNode(hash, n) = {}
    /\ PushTo(n, "ending")
    /\ UNCHANGED <<traffic, poll, hash, processing, recorded, lostRecord, dropped,
                   chargeVars, resetVars, faults>>

PushUpserts(n) ==
    /\ Pushing(n, "renamed") /\ PushTo(n, "ending")
    /\ recorded' = Counts(recorded, OnNode(processing, n))
    /\ UNCHANGED <<traffic, poll, hash, processing, lostRecord, dropped,
                   chargeVars, resetVars, faults>>

(* A statement that fails is only logged. *)
PushUpsertFails(n) ==
    /\ Fault /\ Pushing(n, "renamed") /\ PushTo(n, "ending")
    /\ lostRecord' = lostRecord \cup OnNode(processing, n)
    /\ UNCHANGED <<traffic, poll, hash, processing, recorded, dropped, chargeVars, resetVars>>

(* Mutant: the hash is deleted by the name the polls use. *)
MutPushEnds(n) ==
    /\ Pushing(n, "ending")
    /\ hash' = hash \ OnNode(hash, n)
    /\ push' = [push EXCEPT ![n] = Idle] /\ dropped' = dropped \ {n}
    /\ UNCHANGED <<traffic, poll, processing, recorded, lostRecord, chargeVars, resetVars, faults>>

PushEnds(n) ==
    /\ Pushing(n, "ending")
    /\ processing' = processing \ OnNode(processing, n)
    /\ push' = [push EXCEPT ![n] = Idle]
    /\ dropped' = IF OnNode(hash, n) = {} THEN dropped \ {n} ELSE dropped
    /\ UNCHANGED <<traffic, poll, hash, recorded, lostRecord, chargeVars, resetVars, faults>>

(* The job starts again from the hash; what it had renamed is not read. *)
PushCutOff(n) ==
    /\ Fault /\ push[n] # Idle /\ ~Pushing(n, "delayed")
    /\ push' = [push EXCEPT ![n] = IF @.again THEN Idle ELSE [stage |-> "delayed", again |-> TRUE]]
    /\ lostRecord' = IF Pushing(n, "renamed") THEN lostRecord \cup OnNode(processing, n)
                                               ELSE lostRecord
    /\ dropped' = IF push[n].again THEN dropped \cup {n} ELSE dropped \ {n}
    /\ UNCHANGED <<traffic, poll, hash, processing, recorded, chargeVars, resetVars>>

(* NODE_USER_USAGE: three hours after the last poll that read something. *)
HashExpires(n) ==
    /\ ~connected[n] /\ poll[n] = Idle
    /\ push[n] = Idle \/ (Pushing(n, "delayed") /\ "push" \in paused)
    /\ OnNode(hash, n) \cup OnNode(processing, n) # {}
    /\ hash' = hash \ OnNode(hash, n) /\ processing' = processing \ OnNode(processing, n)
    /\ lostRecord' = lostRecord \cup OnNode(hash, n)
    /\ dropped' = dropped \ {n}
    /\ UNCHANGED <<traffic, poll, push, recorded, chargeVars, resetVars, faults>>

(***************************************************************************)
(* The jobs that charge users.  A job whose statement fails ends like one  *)
(* that did its work: its three attempts are not used.                     *)
(***************************************************************************)
Become(j, stage) == charges' = (charges \ {j}) \cup {[j EXCEPT !.stage = stage]}

ChargeBegins(j) ==
    /\ j.stage = "waiting" /\ "charges" \notin paused /\ Become(j, "active")
    /\ UNCHANGED <<traffic, poll, recordVars, used, charged, lostCharge, recharged,
                   resetVars, faults>>

ChargeCommits(j) ==
    /\ j.stage = "active" /\ Become(j, "committed")
    /\ used' = Counts(used, j.units) /\ charged' = Counts(charged, j.units)
    /\ UNCHANGED <<traffic, poll, recordVars, lostCharge, recharged, resetVars, faults>>

ChargeEnds(j) ==
    /\ j.stage = "committed" /\ charges' = charges \ {j}
    /\ UNCHANGED <<traffic, poll, recordVars, used, charged, lostCharge, recharged,
                   resetVars, faults>>

ChargeFails(j) ==
    /\ Fault /\ j.stage = "active" /\ charges' = charges \ {j}
    /\ lostCharge' = lostCharge \cup j.units
    /\ UNCHANGED <<traffic, poll, recordVars, used, charged, recharged, resetVars>>

ChargeCutOff(j) ==
    /\ Fault /\ j.stage # "waiting"
    /\ charges' = (charges \ {j}) \cup
                    (IF j.again THEN {} ELSE {[j EXCEPT !.stage = "waiting", !.again = TRUE]})
    /\ recharged' = IF j.stage = "committed" /\ ~j.again THEN recharged \cup j.units ELSE recharged
    /\ lostCharge' = IF j.stage = "active" /\ j.again THEN lostCharge \cup j.units ELSE lostCharge
    /\ UNCHANGED <<traffic, poll, recordVars, used, charged, resetVars>>

(***************************************************************************)
(* Limits and states.  A watchdog limits the active users over their       *)
(* limit, another finds those whose date has passed; what prolongs many    *)
(* users makes active again those it finds.                                *)
(***************************************************************************)
nonUsers == <<traffic, poll, recordVars, chargeVars, limit, writes, bulk, reset, paused,
              abandoned, faults>>

Request == requests < MaxRequests /\ requests' = requests + 1

(* Mutant: a user may use up the limit. *)
MutFindExceededUsers ==
    /\ \E u \in Users : status[u] = "ACTIVE" /\ Over(u) /\ Used(u) # limit[u]
    /\ status' = [u \in Users |-> IF status[u] = "ACTIVE" /\ Over(u) /\ Used(u) # limit[u]
                                    THEN "LIMITED" ELSE status[u]]
    /\ UNCHANGED <<nonUsers, requests, stuck>>

FindExceededUsers ==
    /\ \E u \in Users : status[u] = "ACTIVE" /\ Over(u)
    /\ status' = [u \in Users |-> IF status[u] = "ACTIVE" /\ Over(u) THEN "LIMITED" ELSE status[u]]
    /\ UNCHANGED <<nonUsers, requests, stuck>>

(* Users whose date has passed: which, and when, is not said. *)
FindExpiredUsers(us) ==
    /\ Request /\ us # {} /\ \A u \in us : status[u] \in {"ACTIVE", "LIMITED"}
    /\ status' = [u \in Users |-> IF u \in us THEN "EXPIRED" ELSE status[u]]
    /\ stuck' = stuck \ us /\ UNCHANGED nonUsers

BulkSyncExpiredUsers(us) ==
    /\ us # {} /\ \A u \in us : status[u] = "EXPIRED"
    /\ status' = [u \in Users |-> IF u \in us THEN "ACTIVE" ELSE status[u]]
    /\ UNCHANGED <<nonUsers, requests, stuck>>

(***************************************************************************)
(* The requests for one user: each reads the user, decides what it will    *)
(* write, and writes it in a statement of its own.  What was written in    *)
(* between is not seen: a user limited meanwhile may stay so with nothing  *)
(* used or a higher limit, or be limited again by what was read.           *)
(***************************************************************************)
Asks(u, zeroes, newStatus, newLimit) ==
    /\ Request
    /\ writes' = writes \cup {[id |-> requests', user |-> u, zeroes |-> zeroes,
                               status |-> newStatus, limit |-> newLimit,
                               seen |-> status[u], seenLimit |-> limit[u]]}
    /\ UNCHANGED <<traffic, poll, recordVars, chargeVars, status, limit, bulk, reset, paused,
                   abandoned, stuck, faults>>

(* Mutant: a limited user is not made active. *)
MutResetUserTraffic(u) == Asks(u, TRUE, Same, Same)

ResetUserTraffic(u) ==
    Asks(u, TRUE, IF status[u] = "LIMITED" THEN "ACTIVE" ELSE Same, Same)

ExtendUserExpirationDate(u) ==
    Asks(u, FALSE, IF status[u] = "EXPIRED" THEN "ACTIVE" ELSE status[u], Same)

SetUserStatus(u, wanted) == status[u] # wanted /\ Asks(u, FALSE, wanted, Same)

(* dayjs: the new date is another one, and to come. *)
UpdateUser(u, wanted, newLimit, prolongs) ==
    LET raised == newLimit # Same /\ (newLimit = 0 \/ newLimit > limit[u])
        enabled == \/ wanted = "ACTIVE" /\ status[u] # "ACTIVE"
                   \/ status[u] = "LIMITED" /\ raised
                   \/ status[u] = "EXPIRED" /\ prolongs /\ wanted = Same
        disabled == status[u] = "ACTIVE" /\ wanted = "DISABLED"
    IN  Asks(u, FALSE, IF enabled THEN "ACTIVE" ELSE IF disabled THEN "DISABLED" ELSE Same,
             newLimit)

Zeroed(us) == [p \in Units |-> IF p[1] \in us THEN 0 ELSE used[p]]
Stale(w) == status[w.user] # w.seen \/ limit[w.user] # w.seenLimit

WriteUser(w) ==
    /\ writes' = writes \ {w}
    /\ used' = IF w.zeroes THEN Zeroed({w.user}) ELSE used
    /\ status' = IF w.status = Same THEN status ELSE [status EXCEPT ![w.user] = w.status]
    /\ limit' = IF w.limit = Same THEN limit ELSE [limit EXCEPT ![w.user] = w.limit]
    /\ stuck' = IF w.user \in BelowLimit' /\ (Stale(w) \/ w.user \in stuck)
                  THEN stuck \cup {w.user} ELSE stuck \ {w.user}
    /\ UNCHANGED <<traffic, poll, recordVars, charges, charged, lostCharge, recharged,
                   bulk, reset, paused, requests, abandoned, faults>>

(***************************************************************************)
(* The update of all users: a statement for each range of them, and if the *)
(* limit is another one a statement that makes active who is limited and   *)
(* below it.  A failure of either is logged, and the job goes on.          *)
(***************************************************************************)
nonBulk == <<traffic, poll, recordVars, chargeVars, writes, reset, paused, abandoned>>

BulkUpdateAllUsers(wanted, newLimit) ==
    /\ bulk = Idle /\ Request
    /\ bulk' = [stage |-> "waiting", status |-> wanted, limit |-> newLimit,
                done |-> {}, again |-> FALSE]
    /\ UNCHANGED <<nonBulk, status, limit, stuck, faults>>

Updating(stage) == bulk # Idle /\ bulk.stage = stage

(* A range that fails ends the statements. *)
UpdateRanges(us) ==
    /\ Updating("waiting")
    /\ IF us = Users THEN UNCHANGED faults ELSE Fault
    /\ bulk' = IF bulk.limit = Same THEN Idle
                 ELSE [bulk EXCEPT !.stage = "written", !.done = @ \cup us]
    /\ status' = [u \in Users |-> IF u \in us /\ bulk.status # Same THEN bulk.status ELSE status[u]]
    /\ limit' = [u \in Users |-> IF u \in us /\ bulk.limit # Same THEN bulk.limit ELSE limit[u]]
    /\ stuck' = IF bulk.status = Same THEN stuck ELSE stuck \ us
    /\ UNCHANGED <<nonBulk, requests>>

BulkSyncLimitedUsers ==
    /\ Updating("written") /\ bulk' = Idle
    /\ status' = [u \in Users |-> IF u \in BelowLimit THEN "ACTIVE" ELSE status[u]]
    /\ stuck' = stuck \ BelowLimit
    /\ UNCHANGED <<nonBulk, limit, requests, faults>>

BulkSyncFails ==
    /\ Fault /\ Updating("written") /\ bulk' = Idle
    /\ stuck' = stuck \cup (bulk.done \cap BelowLimit)
    /\ UNCHANGED <<nonBulk, status, limit, requests>>

BulkCutOff ==
    /\ Fault /\ bulk # Idle
    /\ bulk' = IF bulk.again THEN Idle ELSE [bulk EXCEPT !.stage = "waiting", !.again = TRUE]
    /\ stuck' = IF bulk.again THEN stuck \cup (bulk.done \cap BelowLimit) ELSE stuck
    /\ UNCHANGED <<nonBulk, status, limit, requests>>

(***************************************************************************)
(* The reset of all users: the queues are paused, their running jobs are   *)
(* waited for (ten times 1.4 seconds), then two statements, and resume.    *)
(***************************************************************************)
NewReset == [stage |-> "waiting", targets |-> {}, done |-> {}, again |-> FALSE, gaveUp |-> FALSE]
Resetting(stage) == reset # Idle /\ reset.stage = stage
nonReset == <<traffic, poll, recordVars, charges, charged, lostCharge, recharged,
              limit, writes, bulk>>

ResetTask ==
    /\ reset = Idle /\ Request /\ reset' = NewReset
    /\ UNCHANGED <<nonReset, used, status, paused, abandoned, stuck, faults>>

ResetPauses ==
    /\ Resetting("waiting")
    /\ reset' = [reset EXCEPT !.stage = "pausing"] /\ paused' = Queues
    /\ UNCHANGED <<nonReset, used, status, requests, abandoned, stuck, faults>>

Running == {j \in charges : j.stage # "waiting"}
(* Mutant: the jobs that charge users are not waited for. *)
MutQueuesQuiet == \A n \in Nodes : push[n] = Idle \/ Pushing(n, "delayed")

QueuesQuiet == Running = {} /\ \A n \in Nodes : push[n] = Idle \/ Pushing(n, "delayed")

(* The users the first statement is for are read by one of their own. *)
Selects(gaveUp) ==
    /\ Resetting("pausing")
    /\ reset' = [reset EXCEPT !.stage = "selected", !.gaveUp = @ \/ gaveUp,
                              !.targets = {u \in Users : status[u] # "LIMITED"}]
    /\ UNCHANGED <<nonReset, used, status, paused, requests, abandoned, stuck>>

ResetSelects == QueuesQuiet /\ Selects(FALSE) /\ UNCHANGED faults
ThrottleGivesUp == ~QueuesQuiet /\ Fault /\ Selects(TRUE)

ResetActive ==
    /\ Resetting("selected")
    /\ used' = Zeroed(reset.targets)
    /\ reset' = [reset EXCEPT !.stage = "swept", !.done = @ \cup reset.targets]
    /\ UNCHANGED <<nonReset, status, paused, requests, abandoned, stuck, faults>>

(* The failure of a statement is logged; the next one runs all the same. *)
ResetActiveFails ==
    /\ Fault /\ Resetting("selected") /\ reset' = [reset EXCEPT !.stage = "swept"]
    /\ UNCHANGED <<nonReset, used, status, paused, requests, abandoned, stuck>>

ResetLimited ==
    /\ Resetting("swept")
    /\ LET limited == {u \in Users : status[u] = "LIMITED"}
       IN  /\ used' = Zeroed(limited)
           /\ status' = [u \in Users |-> IF u \in limited THEN "ACTIVE" ELSE status[u]]
           /\ reset' = [reset EXCEPT !.stage = "resuming", !.done = @ \cup limited]
           /\ stuck' = stuck \ limited
    /\ UNCHANGED <<nonReset, paused, requests, abandoned, faults>>

(* Without the second statement the users who were limited before the      *)
(* first one stay limited.                                                 *)
Strands == stuck' = stuck \cup (reset.done \cap BelowLimit)

ResetLimitedFails ==
    /\ Fault /\ Resetting("swept") /\ reset' = [reset EXCEPT !.stage = "resuming"]
    /\ Strands
    /\ UNCHANGED <<nonReset, used, status, paused, requests, abandoned>>

ResetOver(left) == reset' = Idle /\ paused' = left /\ abandoned' = (left # {})

(* Mutant: only the queue to the history is resumed. *)
MutResetResumes ==
    /\ Resetting("resuming")
    /\ reset' = Idle /\ paused' = paused \ {"push"} /\ abandoned' = FALSE
    /\ UNCHANGED <<nonReset, used, status, requests, stuck, faults>>

ResetResumes ==
    /\ Resetting("resuming") /\ ResetOver({})
    /\ UNCHANGED <<nonReset, used, status, requests, stuck, faults>>

(* resume, or before the try block pause, fails for some of the queues. *)
ResumeFails ==
    /\ Fault /\ Resetting("resuming") /\ \E qs \in SUBSET paused : ResetOver(qs)
    /\ UNCHANGED <<nonReset, used, status, requests, stuck>>

ThrottleFails ==
    /\ Fault /\ (Resetting("waiting") \/ Resetting("pausing"))
    /\ \E qs \in SUBSET Queues : ResetOver(paused \cup qs)
    /\ Strands
    /\ UNCHANGED <<nonReset, used, status, requests>>

(* The pause is Redis's: it outlives the worker. *)
ResetCutOff ==
    /\ Fault /\ reset # Idle /\ ~Resetting("waiting")
    /\ IF reset.again THEN ResetOver(paused) /\ Strands
         ELSE /\ reset' = [reset EXCEPT !.stage = "waiting", !.again = TRUE]
              /\ UNCHANGED <<paused, abandoned, stuck>>
    /\ UNCHANGED <<nonReset, used, status, requests>>

-----------------------------------------------------------------------------
PollNode(n) ==
    \/ PollAnswers(n) \/ PollUnanswered(n) \/ PollCounts(n) \/ PollCharges(n) \/ PollPushes(n)
    \/ PollFails(n) \/ PollAnswerLost(n) \/ PollCutOff(n)

PushNode(n) ==
    \/ PushRenames(n) \/ PushFindsNothing(n) \/ PushUpserts(n) \/ PushUpsertFails(n)
    \/ PushEnds(n) \/ PushCutOff(n) \/ HashExpires(n)

ChargeJob(j) ==
    ChargeBegins(j) \/ ChargeCommits(j) \/ ChargeEnds(j) \/ ChargeFails(j) \/ ChargeCutOff(j)

ResetJob ==
    \/ ResetTask \/ ResetPauses \/ ResetSelects \/ ThrottleGivesUp \/ ResetActive
    \/ ResetActiveFails \/ ResetLimited \/ ResetLimitedFails \/ ResetResumes
    \/ ResumeFails \/ ThrottleFails \/ ResetCutOff

UserRequest(u) ==
    \/ ResetUserTraffic(u) \/ ExtendUserExpirationDate(u)
    \/ \E wanted \in {"ACTIVE", "DISABLED"} : SetUserStatus(u, wanted)
    \/ \E change \in Changes, prolongs \in BOOLEAN :
          UpdateUser(u, change.status, change.limit, prolongs)

BulkJob ==
    \/ \E change \in Changes : BulkUpdateAllUsers(change.status, change.limit)
    \/ \E us \in SUBSET Users : UpdateRanges(us)
    \/ BulkSyncLimitedUsers \/ BulkSyncFails \/ BulkCutOff

UserStep ==
    \/ FindExceededUsers \/ BulkJob
    \/ \E us \in SUBSET Users : FindExpiredUsers(us) \/ BulkSyncExpiredUsers(us)
    \/ \E u \in Users : UserRequest(u)
    \/ \E w \in writes : WriteUser(w)

Next ==
    \/ \E p \in Units : Consume(p)
    \/ \E n \in Nodes : XrayRestarts(n) \/ HealthCheck(n) \/ PollNode(n) \/ PushNode(n)
    \/ RecordUserUsageTask
    \/ \E j \in charges : ChargeJob(j)
    \/ UserStep \/ ResetJob

Spec == Init /\ [][Next]_vars

(***************************************************************************)
(* BullMQ runs what its queues hold, and the schedules come round.  Polls  *)
(* are only asked for while the Node is connected, so that strong fairness *)
(* is what a schedule is; faults and what users do are never fair.         *)
(***************************************************************************)
FairSpec ==
    /\ Spec
    /\ SF_vars(RecordUserUsageTask)
    /\ \A n \in Nodes :
          /\ SF_vars(PollAnswers(n)) /\ WF_vars(PollCounts(n)) /\ WF_vars(PollCharges(n))
          /\ WF_vars(PollPushes(n)) /\ WF_vars(PushUpserts(n)) /\ WF_vars(PushEnds(n))
          /\ SF_vars(PushRenames(n) \/ PushFindsNothing(n))
    /\ SF_vars(\E j \in charges : ChargeBegins(j))
    /\ WF_vars(\E j \in charges : ChargeCommits(j) \/ ChargeEnds(j))
    /\ WF_vars(ResetPauses \/ ResetSelects \/ ResetActive \/ ResetLimited \/ ResetResumes)
    /\ WF_vars(FindExceededUsers)

-----------------------------------------------------------------------------
Answered(p) == Polling(p[2], "answered") /\ p \in poll[p[2]].units
Counted(p) == Polling(p[2], "counted") /\ p \in poll[p[2]].units

(* The history never has a unit twice: a push that is cut off and run      *)
(* again, or that finds the hash of an older one under the name it gives   *)
(* its own, adds nothing again.                                            *)
RecordedOnce == \A p \in Units : recorded[p] <= 1

(* A user is charged once for a unit, and twice only if a worker stopped   *)
(* between the statement of a job and the end of the job.                  *)
ChargedOnce == \A p \in Units : charged[p] <= IF p \in recharged THEN 2 ELSE 1

(* What was consumed is on its way to the history, or in it, unless a      *)
(* fault took it.                                                          *)
NothingLeavesHistory ==
    \A p \in spent :
        \/ p \in counters \cup hash \cup lostRecord \/ recorded[p] > 0 \/ Answered(p)
        \/ p \in processing /\ Pushing(p[2], "renamed")

(* It is on its way to the user's account, or was put on it, unless a      *)
(* fault took it.                                                          *)
NothingLeavesCharges ==
    \A p \in spent :
        \/ p \in counters \cup lostCharge \/ charged[p] > 0 \/ Answered(p) \/ Counted(p)
        \/ \E j \in charges : p \in j.units

(* A hash that holds something has a job to come that takes it, unless the *)
(* job was asked for while another of the Node had renamed the hash and    *)
(* not ended yet, or its asking failed or was cut off: then the next poll  *)
(* that reads something takes it along.                                    *)
HashIsPushed ==
    \A n \in Nodes :
        OnNode(hash, n) # {} =>
            \/ Pushing(n, "delayed") \/ n \in dropped
            \/ Polling(n, "counted") \/ Polling(n, "charged")

(* What a reset has set to zero stays so until it resumes the queues, also *)
(* when it is cut off and runs again: no charge between its two runs is    *)
(* erased.  A job that outlasts the fourteen seconds may charge.           *)
ResetHolds ==
    reset # Idle /\ ~reset.gaveUp =>
        \A p \in Units : p[1] \in reset.done => used[p] = 0

(* The queues are paused only under a reset, unless it failed to pause or  *)
(* to resume them or was cut off twice: then the next reset resumes them.  *)
PausedByReset == paused # {} => reset # Idle \/ abandoned

(* A limited user has used up the limit.  Below it he is only between the  *)
(* two statements of a reset of all users or of a change of their limit,   *)
(* if their second statement failed or was cut off, if the status or the   *)
(* limit changed between the read and the write of a request, or if he was *)
(* created so.                                                             *)
LimitedIsOver ==
    \A u \in BelowLimit :
        \/ u \in stuck
        \/ reset # Idle /\ u \in reset.done
        \/ bulk # Idle /\ u \in bulk.done

(* A unit in the counters of a Node that stays connected is charged in the *)
(* end, unless a fault takes it or the queue is left paused.               *)
UsageIsCharged ==
    \A p \in Units :
        p \in counters ~>
            \/ charged[p] > 0 \/ p \in lostCharge \/ ~connected[p[2]]
            \/ "charges" \in paused /\ abandoned

(* An active user over the limit is limited in the end, unless he becomes  *)
(* inactive, the limit is raised or the traffic is reset first.            *)
OverIsLimited ==
    \A u \in Users : status[u] = "ACTIVE" /\ Over(u) ~> status[u] # "ACTIVE" \/ ~Over(u)
=============================================================================
