----------------------------- MODULE UserAccess -----------------------------
(***************************************************************************)
(* Who may use which managed Node: the users of the panel, their internal  *)
(* squads, the watchdogs that limit and expire them, the requests that     *)
(* change them, and the jobs that carry every change to the Nodes.         *)
(*                                                                         *)
(* A request reads the user in one statement and writes it in a later one. *)
(* What follows a write goes through an event bus in memory, a queue of    *)
(* user events, a queue of start-node jobs, each of which reads the users  *)
(* of its Node and queues them as an apply_config row in a later statement.*)
(* MachineControl delivers the rows in order, AgentInstance applies them;  *)
(* here a row is applied, or fails, in one step.                           *)
(*                                                                         *)
(* A user's traffic limit and expiration date are what the conditions of   *)
(* the code make of them: over the limit, past the date.  The credential   *)
(* of a user is the number of times it was revoked.                        *)
(***************************************************************************)
EXTENDS Integers, FiniteSets

CONSTANTS
    Users, Squads, Nodes,
    Admins,         \* requests that run at the same time
    Workers,        \* start-node jobs that run at the same time
    Idle,
    MaxRequests,    \* bound: requests, periods and dates that pass
    MaxFaults       \* bound: jobs and commands that fail

ASSUME UserAccessBounds == MaxRequests \in Nat /\ MaxFaults \in Nat

VARIABLES
    user,           \* the rows of the users, with their squads
    grants,         \* internalSquadNodes: the Nodes of each squad
    op,             \* the request each administrator waits for
    bus,            \* AddUserToNodeEvent and RemoveUserFromNodeEvent, in memory
    events,         \* the queue of user events
    jobs,           \* the start-node jobs of each Node that wait, by kind
    worker,         \* the start-node job each worker runs
    connected,      \* nodes.isConnected
    command,        \* the queued apply_config of each Node
    served,         \* the users and credentials each Node accepts
    failed,         \* Nodes stopped by a command that fails closed
    requests, faults,
    missed,         \* history: Nodes with a change no job tells them, see below
    late            \* history: Nodes on which a command failed and left all as it was

rows == <<user, grants>>
nodeVars == <<jobs, worker, connected, command, served, failed, late>>
counters == <<requests, faults>>
vars == <<rows, op, bus, events, nodeVars, counters, missed>>

Statuses == {"ACTIVE", "DISABLED", "LIMITED", "EXPIRED", "DELETED"}
JobKinds == {"plain", "update", "closed"}
Credentials == SUBSET (Users \X Nat)
Rows == [status : Statuses, over : BOOLEAN, past : BOOLEAN, key : Nat, squads : SUBSET Squads]
KeptSquads == {"kept"}  \* the squads of a request that does not change them

Updates == [status : {"kept", "ACTIVE", "DISABLED"}, raised : BOOLEAN,
            extended : BOOLEAN, squads : {KeptSquads} \cup SUBSET Squads]
PlainKinds == {"disable", "enable", "extend", "reset", "revoke", "delete"}
Requests ==
    [kind : PlainKinds, user : Users, seen : Rows, ask : {"kept"}]
        \cup [kind : {"update"}, user : Users, seen : Rows, ask : Updates]
        \cup [kind : {"squads"}, user : Users, seen : Rows, ask : SUBSET Squads]
        \cup [kind : {"grants"}, squad : Squads, seen : SUBSET Nodes, ask : SUBSET Nodes]
Starts == [node : Nodes, kind : JobKinds, conf : Credentials, overtaken : BOOLEAN]
Commands == [conf : Credentials, closed : BOOLEAN]

ASSUME IdleIsNoRecord == Idle \notin Requests \cup Starts \cup Commands

Exists(u) == user[u].status # "DELETED"
Active(u) == user[u].status = "ACTIVE"

(* getGrantedNodeUuids looks at squads only ... *)
NodesOf(squads) == UNION {grants[s] : s \in squads}
Granted(u) == NodesOf(user[u].squads)

(* ... and getUsersForConfigStream at squads and status. *)
ConfigUsers(n) ==
    {<<u, user[u].key>> : u \in {v \in Users : Active(v) /\ n \in Granted(v)}}

TypeOK ==
    /\ user \in [Users -> Rows] /\ grants \in [Squads -> SUBSET Nodes]
    /\ op \in [Admins -> Requests \cup {Idle}]
    /\ bus \subseteq [event : {"add", "remove"}, user : Users]
    /\ events \subseteq [event : {"EXPIRED", "LIMITED", "ENABLED"}, user : Users]
    /\ jobs \in [Nodes -> [JobKinds -> Nat]]
    /\ worker \in [Workers -> Starts \cup {Idle}]
    /\ connected \in [Nodes -> BOOLEAN]
    /\ command \in [Nodes -> Commands \cup {Idle}]
    /\ served \in [Nodes -> Credentials]
    /\ failed \subseteq Nodes /\ missed \subseteq Nodes /\ late \subseteq Nodes
    /\ requests \in 0 .. MaxRequests /\ faults \in 0 .. MaxFaults

(* Every user is active, in some squads, and every Node runs that. *)
Init ==
    /\ user \in [Users -> [status : {"ACTIVE"}, over : {FALSE}, past : {FALSE},
                           key : {0}, squads : SUBSET Squads]]
    /\ grants \in [Squads -> SUBSET Nodes]
    /\ op = [a \in Admins |-> Idle] /\ bus = {} /\ events = {}
    /\ jobs = [n \in Nodes |-> [k \in JobKinds |-> 0]]
    /\ worker = [w \in Workers |-> Idle]
    /\ connected = [n \in Nodes |-> TRUE] /\ command = [n \in Nodes |-> Idle]
    /\ served = [n \in Nodes |-> ConfigUsers(n)]
    /\ failed = {} /\ missed = {} /\ late = {} /\ requests = 0 /\ faults = 0

Request == requests < MaxRequests /\ requests' = requests + 1
Fault == faults < MaxFaults /\ faults' = faults + 1

(***************************************************************************)
(* The queue of start-node jobs.  A job with managedConfigUpdate has an    *)
(* identifier of its own; a plain one is not queued while another plain    *)
(* job of its Node waits or runs.                                          *)
(***************************************************************************)
Runs(n, k) == \E w \in Workers : worker[w] # Idle /\ worker[w].node = n /\ worker[w].kind = k

Queued(ns, k) ==
    jobs' = [n \in Nodes |-> IF n \in ns THEN [jobs[n] EXCEPT ![k] = @ + 1] ELSE jobs[n]]

QueuedOnce(ns, k) == Queued({n \in ns : jobs[n][k] = 0 /\ ~Runs(n, k)}, k)

(***************************************************************************)
(* The code does not tell every Node of every change of its users.  The    *)
(* steps below that leave one out, or overtake it, record it in missed;    *)
(* applying the users of the moment makes it good.                         *)
(***************************************************************************)
Misses(ns) == missed' = missed \cup ns
MissesNothing == UNCHANGED missed
Changed == {n \in Nodes : ConfigUsers(n)' # ConfigUsers(n)}

(* What a Node holds, or will be given by a job that has read it already. *)
Holds(n, u) ==
    \E c \in served[n] \cup (IF command[n] = Idle THEN {} ELSE command[n].conf)
            \cup UNION {worker[w].conf : w \in {v \in Workers : worker[v] # Idle
                                                            /\ worker[v].node = n}} :
        c[1] = u

(***************************************************************************)
(* The requests: what they read ...                                        *)
(***************************************************************************)
Waits(a, kind, u, ask) ==
    /\ op[a] = Idle /\ Exists(u) /\ Request
    /\ op' = [op EXCEPT ![a] = [kind |-> kind, user |-> u, seen |-> user[u], ask |-> ask]]
    /\ UNCHANGED <<rows, events, nodeVars, faults, missed>>

AskUser(a) ==
    /\ \E u \in Users :
          \/ user[u].status # "DISABLED" /\ Waits(a, "disable", u, "kept")
          \/ user[u].status # "ACTIVE" /\ Waits(a, "enable", u, "kept")
          \/ \E kind \in {"extend", "revoke", "delete"} : Waits(a, kind, u, "kept")
          \/ \E ask \in Updates : Waits(a, "update", u, ask)
          \/ \E squads \in SUBSET Squads : Waits(a, "squads", u, squads)
    /\ UNCHANGED bus

(* resetUserTraffic publishes before it writes. *)
AskReset(a) ==
    \E u \in Users :
        /\ Waits(a, "reset", u, "kept")
        /\ bus' = IF user[u].status = "LIMITED"
                      THEN bus \cup {[event |-> "add", user |-> u]} ELSE bus

AskGrants(a) ==
    /\ op[a] = Idle /\ Request
    /\ \E s \in Squads, ns \in SUBSET Nodes :
          op' = [op EXCEPT ![a] = [kind |-> "grants", squad |-> s, seen |-> grants[s],
                                   ask |-> ns]]
    /\ UNCHANGED <<rows, bus, events, nodeVars, faults, missed>>

(***************************************************************************)
(* ... and what they write, and publish after it.  A user who is gone      *)
(* makes the write fail.                                                   *)
(***************************************************************************)
Writes(a, kind, row, published) ==
    /\ op[a] # Idle /\ op[a].kind = kind
    /\ op' = [op EXCEPT ![a] = Idle]
    /\ LET u == op[a].user
       IN  IF Exists(u)
             THEN /\ user' = [user EXCEPT ![u] = row]
                  /\ bus' = bus \cup {[event |-> e, user |-> u] : e \in published}
             ELSE UNCHANGED <<user, bus>>
    /\ UNCHANGED <<grants, events, nodeVars, counters>>

Row(a) == user[op[a].user]
Seen(a) == op[a].seen.status

DisableUser(a) ==
    /\ Writes(a, "disable", [Row(a) EXCEPT !.status = "DISABLED"], {"remove"})
    /\ MissesNothing

EnableUser(a) ==
    /\ Writes(a, "enable", [Row(a) EXCEPT !.status = "ACTIVE"], {"add"})
    /\ MissesNothing

DeleteUser(a) ==
    /\ Writes(a, "delete", [Row(a) EXCEPT !.status = "DELETED", !.squads = {}], {"remove"})
    /\ MissesNothing

RevokeUserSubscription(a) ==
    /\ Writes(a, "revoke", [Row(a) EXCEPT !.key = @ + 1],
              IF Row(a).status = "ACTIVE" THEN {"add"} ELSE {})
    /\ MissesNothing

(* The status that was read is written back: what the watchdog or another  *)
(* request made of it in between is undone and not announced.              *)
ExtendUserExpirationDate(a) ==
    /\ Writes(a, "extend",
              [Row(a) EXCEPT !.past = FALSE,
                  !.status = IF Seen(a) = "EXPIRED" THEN "ACTIVE" ELSE Seen(a)],
              IF Seen(a) = "EXPIRED" THEN {"add"} ELSE {})
    /\ Misses(IF Seen(a) = "EXPIRED" THEN {} ELSE Changed)

(* The event may have been handled before the write. *)
ResetUserTraffic(a) ==
    /\ Writes(a, "reset",
              [Row(a) EXCEPT !.over = FALSE,
                  !.status = IF Seen(a) = "LIMITED" THEN "ACTIVE" ELSE @], {})
    /\ Misses(IF [event |-> "add", user |-> op[a].user] \in bus THEN {} ELSE Changed)

(* updateUser: the status it writes ... *)
NewStatus(a) ==
    LET ask == op[a].ask
    IN  IF \/ Seen(a) # "ACTIVE" /\ ask.status = "ACTIVE"
           \/ Seen(a) = "LIMITED" /\ ask.raised
           \/ Seen(a) = "EXPIRED" /\ ask.extended /\ ask.status = "kept"
          THEN "ACTIVE"
          ELSE IF Seen(a) = "ACTIVE" /\ ask.status = "DISABLED" THEN "DISABLED"
                                                                 ELSE "kept"

NewSquads(a) == op[a].ask.squads \notin {KeptSquads, op[a].seen.squads}

(* ... and addToNode and removeFromNode, which a change of the squads      *)
(* decides anew.                                                           *)
AddToNode(a) == IF NewSquads(a) THEN op[a].ask.squads # {} ELSE NewStatus(a) = "ACTIVE"
RemoveFromNode(a) == IF NewSquads(a) THEN op[a].ask.squads = {} ELSE NewStatus(a) = "DISABLED"

UpdateUser(a) ==
    /\ op[a] # Idle /\ op[a].kind = "update"
    /\ LET ask == op[a].ask
           status == IF NewStatus(a) = "kept" THEN Row(a).status ELSE NewStatus(a)
           squads == IF NewSquads(a) THEN ask.squads ELSE Row(a).squads
           added == AddToNode(a) /\ status = "ACTIVE" /\ ~RemoveFromNode(a)
       IN  /\ \E over \in (IF ask.raised THEN {Row(a).over, FALSE} ELSE {Row(a).over}) :
                 Writes(a, "update",
                        [Row(a) EXCEPT !.status = status, !.squads = squads, !.over = over,
                                       !.past = @ /\ ~ask.extended],
                        IF RemoveFromNode(a) THEN {"remove"}
                          ELSE IF added THEN {"add"} ELSE {})
           /\ Misses(IF RemoveFromNode(a) THEN {}
                       ELSE Changed \ (IF added THEN NodesOf(squads) ELSE {}))

(* bulkUpdateUsersInternalSquads: the old rows are deleted, and the new     *)
(* ones inserted by a statement of its own, which may fail; the insertion  *)
(* of no row is refused.  Then nothing is published.                       *)
UpdateUsersInternalSquads(a) ==
    /\ op[a] # Idle /\ op[a].kind = "squads"
    /\ \E squads \in {op[a].ask, {}} :
          /\ Writes(a, "squads", [Row(a) EXCEPT !.squads = squads],
                    IF squads = {} THEN {} ELSE {"add"})
          /\ Misses(Changed \ NodesOf(squads))

(* A user who did not exist: the credential is a new one. *)
CreateUser(u) ==
    /\ ~Exists(u) /\ Request
    /\ \E squads \in SUBSET Squads, status \in {"ACTIVE", "DISABLED"} :
          /\ user' = [user EXCEPT ![u] = [status |-> status, over |-> FALSE, past |-> FALSE,
                                          key |-> user[u].key + 1, squads |-> squads]]
          /\ bus' = IF status = "ACTIVE" THEN bus \cup {[event |-> "add", user |-> u]} ELSE bus
    /\ UNCHANGED <<grants, op, events, nodeVars, faults, missed>>

(* bulkExtendExpirationDate decides on the row it writes, and may extend a *)
(* date that is still past afterwards.                                     *)
BulkExtendExpirationDate(us) ==
    /\ Request
    /\ \E ahead \in SUBSET {u \in us : Exists(u)} :
          LET synced == {u \in ahead : user[u].status = "EXPIRED"}
          IN  /\ user' = [u \in Users |->
                            [user[u] EXCEPT !.past = @ /\ u \notin ahead,
                                            !.status = IF u \in synced THEN "ACTIVE" ELSE @]]
              /\ bus' = bus \cup [event : {"add"}, user : synced]
    /\ UNCHANGED <<grants, op, events, nodeVars, faults, missed>>

(***************************************************************************)
(* Requests about squads.  updateInternalSquad reads the Nodes of the      *)
(* squad, replaces them, and starts those it read and those it wrote;      *)
(* deleteInternalSquad is the update that leaves none.                     *)
(***************************************************************************)
UpdateInternalSquad(a) ==
    /\ op[a] # Idle /\ op[a].kind = "grants"
    /\ LET s == op[a].squad
           told == op[a].seen \cup op[a].ask
       IN  /\ grants' = [grants EXCEPT ![s] = op[a].ask]
           /\ Queued(told, "closed")
           /\ Misses(grants[s] \ told)
    /\ op' = [op EXCEPT ![a] = Idle]
    /\ UNCHANGED <<user, bus, events, worker, connected, command, served, failed, late, counters>>

Joined(us, s, joins) ==
    user' = [u \in Users |-> IF u \in us /\ Exists(u)
                 THEN [user[u] EXCEPT !.squads = IF joins THEN @ \cup {s} ELSE @ \ {s}]
                 ELSE user[u]]

(* addManyUsersToInternalSquad and removeManyUsersFromInternalSquad. *)
MoveMember(u, s, joins) ==
    /\ Request /\ Joined({u}, s, joins) /\ Queued(grants[s], "closed")
    /\ UNCHANGED <<grants, op, bus, events, worker, connected, command, served,
                   failed, late, faults, missed>>

(* The job that adds all users to a squad, or removes all, restarts its    *)
(* Nodes, unless a restart runs: it may have read the users before.  This  *)
(* restart does not fail closed.                                           *)
SquadOfAll(s, joins) ==
    /\ Request /\ Joined(Users, s, joins) /\ QueuedOnce(grants[s], "plain")
    /\ UNCHANGED <<grants, op, bus, events, worker, connected, command, served,
                   failed, late, faults>>
    /\ Misses({n \in Changed : Runs(n, "plain") \/ ~joins})

(***************************************************************************)
(* Traffic and time, and the watchdogs that look at them.                  *)
(***************************************************************************)
Consume(u) ==
    /\ Request /\ Active(u) /\ user' = [user EXCEPT ![u].over = TRUE]
    /\ UNCHANGED <<grants, op, bus, events, nodeVars, faults, missed>>

DatePasses(u) ==
    /\ Request /\ Exists(u) /\ user' = [user EXCEPT ![u].past = TRUE]
    /\ UNCHANGED <<grants, op, bus, events, nodeVars, faults, missed>>

(* One statement changes the users that match; the event follows it. *)
Swept(us, status, event) ==
    /\ us # {}
    /\ user' = [u \in Users |-> IF u \in us THEN [user[u] EXCEPT !.status = status]
                                           ELSE user[u]]
    /\ events' = events \cup [event : {event}, user : us]
    /\ UNCHANGED <<grants, op, bus, nodeVars, counters, missed>>

FindExceededUsers ==
    Swept({u \in Users : user[u].status = "ACTIVE" /\ user[u].over}, "LIMITED", "LIMITED")

FindExpiredUsers ==
    Swept({u \in Users : user[u].status \in {"ACTIVE", "LIMITED"} /\ user[u].past},
          "EXPIRED", "EXPIRED")

(* A period ends: the traffic of every user, and the users it limited. *)
ResetPeriod ==
    LET limited == {u \in Users : user[u].status = "LIMITED"}
    IN  /\ Request
        /\ user' = [u \in Users |-> [user[u] EXCEPT !.over = FALSE,
                         !.status = IF u \in limited THEN "ACTIVE" ELSE @]]
        /\ events' = events \cup [event : {"ENABLED"}, user : limited]
        /\ UNCHANGED <<grants, op, bus, nodeVars, faults, missed>>

(* bulkUpdateAllUsers and bulkAllExtendExpirationDate, and the deletion by *)
(* status: they restart all Nodes over the panel's own connection, which   *)
(* does not reach a managed one.                                           *)
AllUsers(changed) ==
    /\ Request /\ user' = [u \in Users |-> IF Exists(u) THEN changed[u] ELSE user[u]]
    /\ UNCHANGED <<grants, op, bus, events, nodeVars, faults>>
    /\ Misses(Changed)

BulkUpdateAllUsers ==
    \/ \E status \in {"ACTIVE", "DISABLED"} :
          AllUsers([u \in Users |-> [user[u] EXCEPT !.status = status]])
    \/ AllUsers([u \in Users |-> [user[u] EXCEPT !.over = FALSE,
                     !.status = IF @ = "LIMITED" THEN "ACTIVE" ELSE @]])

BulkAllExtendExpirationDate ==
    AllUsers([u \in Users |-> [user[u] EXCEPT !.past = FALSE,
                 !.status = IF @ = "EXPIRED" THEN "ACTIVE" ELSE @]])

DeleteByStatus ==
    \E status \in Statuses \ {"DELETED"} :
        AllUsers([u \in Users |-> IF user[u].status = status
                      THEN [user[u] EXCEPT !.status = "DELETED", !.squads = {}]
                      ELSE user[u]])

(***************************************************************************)
(* Events.  The job of a user event looks the user up, and publishes; of a *)
(* user who was deleted in the meantime it tells nobody.                   *)
(***************************************************************************)
FireUserEvent(e) ==
    /\ e \in events /\ events' = events \ {e}
    /\ IF Exists(e.user)
         THEN /\ bus' = bus \cup {[event |-> IF e.event = "ENABLED" THEN "add" ELSE "remove",
                                  user |-> e.user]}
              /\ MissesNothing
         ELSE /\ Misses({n \in Nodes : Holds(n, e.user)})
              /\ UNCHANGED bus
    /\ UNCHANGED <<rows, op, nodeVars, counters>>

(* As AddUserToNode, with the identifier of the plain job for its own. *)
MutAddUserToNode(e) ==
    /\ e \in bus /\ e.event = "add" /\ bus' = bus \ {e}
    /\ QueuedOnce(Granted(e.user), "update")
    /\ UNCHANGED <<rows, op, events, worker, connected, command, served, failed, late,
                   counters, missed>>

AddUserToNode(e) ==
    /\ e \in bus /\ e.event = "add" /\ bus' = bus \ {e}
    /\ Queued(Granted(e.user), "update")
    /\ UNCHANGED <<rows, op, events, worker, connected, command, served, failed, late,
                   counters, missed>>

(* Only the Nodes the panel believes connected are told. *)
RemoveUserFromNode(e) ==
    /\ e \in bus /\ e.event = "remove" /\ bus' = bus \ {e}
    /\ Queued({n \in Nodes : connected[n]}, "closed")
    /\ Misses({n \in Nodes : ~connected[n] /\ Holds(n, e.user)})
    /\ UNCHANGED <<rows, op, events, worker, connected, command, served, failed, late, counters>>

(* The health check asks the control port, which the Agent publishes on    *)
(* the loopback of the Machine only: the Node is found disconnected.       *)
HealthCheck(n) ==
    /\ connected[n] /\ connected' = [connected EXCEPT ![n] = FALSE]
    /\ UNCHANGED <<rows, op, bus, events, jobs, worker, command, served, failed, late,
                   counters, missed>>

(***************************************************************************)
(* The start-node job: it reads the users, then queues the command, or     *)
(* replaces the one that is still queued.                                  *)
(***************************************************************************)
(* As BeginStart, without taking the job from the queue first. *)
MutBeginStart(w, n, k) ==
    /\ worker[w] = Idle
    /\ jobs' = [jobs EXCEPT ![n][k] = @ - 1]
    /\ worker' = [worker EXCEPT ![w] = [node |-> n, kind |-> k, conf |-> ConfigUsers(n),
                                       overtaken |-> FALSE]]
    /\ UNCHANGED <<rows, op, bus, events, connected, command, served, failed, late,
                   counters, missed>>

BeginStart(w, n, k) ==
    /\ worker[w] = Idle /\ jobs[n][k] > 0
    /\ jobs' = [jobs EXCEPT ![n][k] = @ - 1]
    /\ worker' = [worker EXCEPT ![w] = [node |-> n, kind |-> k, conf |-> ConfigUsers(n),
                                       overtaken |-> FALSE]]
    /\ UNCHANGED <<rows, op, bus, events, connected, command, served, failed, late,
                   counters, missed>>

(* The job of w leaves; those of its Node that still run are overtaken. *)
Leaves(w) ==
    worker' = [v \in Workers |->
                  IF v = w THEN Idle
                  ELSE IF worker[v] # Idle /\ worker[v].node = worker[w].node
                  THEN [worker[v] EXCEPT !.overtaken = TRUE] ELSE worker[v]]

(* As Closes, of the new job alone. *)
MutCloses(w) == worker[w].kind = "closed"

(* What was to fail closed still does after it is replaced. *)
Closes(w) ==
    LET queued == command[worker[w].node]
    IN  worker[w].kind = "closed" \/ (queued # Idle /\ queued.closed)

(* Nothing orders two jobs of a Node: an older reading replaces a newer. *)
QueueManagedConfig(w) ==
    /\ worker[w] # Idle /\ Leaves(w)
    /\ LET n == worker[w].node
       IN  /\ command' = [command EXCEPT ![n] =
                              [conf |-> worker[w].conf, closed |-> Closes(w)]]
           /\ Misses(IF worker[w].overtaken /\ worker[w].conf # ConfigUsers(n)
                       THEN {n} ELSE {})
    /\ UNCHANGED <<rows, op, bus, events, jobs, connected, served, failed, late, counters>>

(* What stops a Node that could not be brought to its users. *)
FailsClosed(n) ==
    /\ failed' = failed \cup {n} /\ served' = [served EXCEPT ![n] = {}]
    /\ connected' = [connected EXCEPT ![n] = FALSE] /\ UNCHANGED late

KeepsServing(n) ==
    /\ late' = late \cup {n} /\ UNCHANGED <<failed, served>>
    /\ \E isConnected \in BOOLEAN : connected' = [connected EXCEPT ![n] = isConnected]

(* The configuration cannot be generated or queued. *)
HandleManagedConfigQueueFailure(w) ==
    /\ worker[w] # Idle /\ Fault /\ Leaves(w)
    /\ LET n == worker[w].node
       IN  IF worker[w].kind = "closed" THEN FailsClosed(n)
                                        ELSE KeepsServing(n)
    /\ UNCHANGED <<rows, op, bus, events, jobs, command, requests, missed>>

(***************************************************************************)
(* The command.  A Node that was stopped is not started by it.             *)
(***************************************************************************)
MakesGood(n) ==
    /\ command[n].conf = ConfigUsers(n)
    /\ \A w \in Workers : worker[w] # Idle /\ worker[w].node = n
          => worker[w].conf = ConfigUsers(n)

ApplyConfig(n) ==
    /\ command[n] # Idle /\ n \notin failed
    /\ command' = [command EXCEPT ![n] = Idle]
    /\ served' = [served EXCEPT ![n] = command[n].conf]
    /\ connected' = [connected EXCEPT ![n] = TRUE]
    /\ IF MakesGood(n) THEN missed' = missed \ {n} /\ late' = late \ {n}
                       ELSE UNCHANGED <<missed, late>>
    /\ UNCHANGED <<rows, op, bus, events, jobs, worker, failed, counters>>

ApplyConfigFails(n) ==
    /\ command[n] # Idle
    /\ \/ n \in failed /\ UNCHANGED faults
       \/ Fault
    /\ command' = [command EXCEPT ![n] = Idle]
    /\ IF command[n].closed THEN FailsClosed(n) ELSE KeepsServing(n)
    /\ UNCHANGED <<rows, op, bus, events, jobs, worker, requests, missed>>

-----------------------------------------------------------------------------
Next ==
    \/ \E a \in Admins :
          \/ AskUser(a) \/ AskReset(a) \/ AskGrants(a)
          \/ DisableUser(a) \/ EnableUser(a) \/ DeleteUser(a)
          \/ RevokeUserSubscription(a) \/ ExtendUserExpirationDate(a)
          \/ ResetUserTraffic(a) \/ UpdateUser(a) \/ UpdateUsersInternalSquads(a)
          \/ UpdateInternalSquad(a)
    \/ \E u \in Users, s \in Squads, joins \in BOOLEAN : MoveMember(u, s, joins)
    \/ \E s \in Squads, joins \in BOOLEAN : SquadOfAll(s, joins)
    \/ \E u \in Users : CreateUser(u) \/ Consume(u) \/ DatePasses(u)
    \/ \E us \in SUBSET Users : BulkExtendExpirationDate(us)
    \/ FindExceededUsers \/ FindExpiredUsers \/ ResetPeriod
    \/ BulkUpdateAllUsers \/ BulkAllExtendExpirationDate \/ DeleteByStatus
    \/ \E e \in events : FireUserEvent(e)
    \/ \E e \in bus : AddUserToNode(e) \/ RemoveUserFromNode(e)
    \/ \E n \in Nodes : HealthCheck(n) \/ ApplyConfig(n) \/ ApplyConfigFails(n)
    \/ \E w \in Workers :
          \/ \E n \in Nodes, k \in JobKinds : BeginStart(w, n, k)
          \/ QueueManagedConfig(w) \/ HandleManagedConfigQueueFailure(w)

Spec == Init /\ [][Next]_vars

-----------------------------------------------------------------------------
Quiet ==
    /\ \A a \in Admins : op[a] = Idle
    /\ bus = {} /\ events = {}
    /\ \A n \in Nodes : command[n] = Idle /\ \A k \in JobKinds : jobs[n][k] = 0
    /\ \A w \in Workers : worker[w] = Idle

(* When every request, event, job and command is through, a Node that no   *)
(* step has left out accepts exactly the active users its squads grant,    *)
(* with the credentials they have now, whatever order requests, watchdogs, *)
(* jobs and commands ran in, unless a command failed and left it as it was *)
(* (users.service.ts:120-545, start-node.processor.ts:364-467).            *)
NodesServeTheGranted ==
    Quiet => \A n \in Nodes \ (missed \cup late \cup failed) : served[n] = ConfigUsers(n)

(* Whatever jobs and commands failed, it then accepts no user who is not   *)
(* active or has no grant: what carries a removal fails closed, also when  *)
(* a later command replaces it (start-node.processor.ts:403-450).          *)
NobodyElseIsServed ==
    Quiet => \A n \in Nodes \ missed : \A c \in served[n] :
                 /\ n \notin failed /\ Active(c[1]) /\ n \in Granted(c[1])

(* The runtime of a Node removes a user of the panel after the final grant *)
(* is removed (docs/requirements/requirements-baseline-v1.0.md:316-318).   *)
FinalGrantRemoves ==
    Quiet => \A n \in Nodes : \A c \in served[n] : Exists(c[1]) => n \in Granted(c[1])

=============================================================================
