---------------------------- MODULE Provisioning ----------------------------
(***************************************************************************)
(* What the panel does to one Machine: resource plans, the managed Nodes   *)
(* made from them, their configurations, certificates, Hosts and           *)
(* publication, and the cascade a finished command starts.                 *)
(*                                                                         *)
(* Each transaction of MachinesRepository, of the start-node queue and of  *)
(* the certificate renewal task is one action.  They run at READ COMMITTED *)
(* and lock nothing they only read, so those that decide on what they read *)
(* may also be overtaken: they read, another action happens, they write.   *)
(* What is read and written in statements of its own is two actions.  The  *)
(* control channel is reduced to what it does to rows: they are claimed in *)
(* order, at most Window of them at a time are claimed and unfinished, and *)
(* their results come in that order.  (MachineControl has the channel.)    *)
(*                                                                         *)
(* Rows that are finished or cancelled are dropped: nothing modelled here  *)
(* reads them again.                                                       *)
(***************************************************************************)
EXTENDS Integers, FiniteSets, SequencesExt, Subsequences

CONSTANTS
    Nodes,          \* the protocols; a Machine has at most one Node of each
    NoNode,         \* a command for the Machine itself
    CertNodes,      \* the Nodes whose certificate is issued over HTTP-01
    Ports,          \* candidate external ports
    Window,         \* bound: rows claimed and unfinished at a time
    MaxPlans,       \* bound: plans ever created
    MaxRevision,    \* bound: configurations asked for, per Node
    MaxRequests,    \* bound: requests of administrators, users and timers
    MaxFaults       \* bound: deadlines, lost jobs, reconnections, expiries

ASSUME NodesAssumption == IsFiniteSet(Nodes) /\ NoNode \notin Nodes /\ CertNodes \subseteq Nodes
ASSUME PortsAssumption == Ports # {} /\ IsFiniteSet(Ports)
ASSUME BoundsAssumption == /\ Window \in Nat \ {0}
                           /\ MaxPlans \in Nat \ {0}
                           /\ MaxRevision \in Nat
                           /\ MaxRequests \in Nat
                           /\ MaxFaults \in Nat

VARIABLES
    planStatus, planNodes, planReady, planLate,     \* per plan
    rows,               \* active machine_commands, in queueSequence order
    managed,            \* Nodes that exist
    lifecycleState, isPublished, desiredRevision, appliedRevision,
    externalPort, hostEnabled,                      \* per Node
    certificateStatus,  \* per Node
    certificate,        \* per Node: certificateExpiresAt against the clock
    certificateBlocked, \* per Node: certificateBlockedAt is set
    machineStatus,
    jobs,               \* start-node jobs in the queue
    renewal,            \* what the renewal task has read and not yet used
    hello,              \* the status a hello has read and not yet written
    open,               \* what an overtaken transaction has read
    requests, faults,   \* what is left of the bounds
    \* ---- history
    lost,               \* Nodes whose start-node job was lost in a crash
    swept,              \* queued rows were cancelled for the whole Machine
    clobbered,          \* a hello put an older status back
    jobFailed,          \* a start-node job could not make a configuration
    outlived,           \* a plan expired before its discovery ended
    outrun,             \* Nodes of which a configuration ended while an older
                        \* one was still under way, and none was queued since
    raced               \* Nodes that were no more what an overtaken
                        \* transaction had read when it wrote

planVars == <<planStatus, planNodes, planReady, planLate>>
hostVars == <<isPublished, externalPort, hostEnabled>>
certVars == <<certificateStatus, certificate, certificateBlocked>>
nodeVars == <<managed, lifecycleState, desiredRevision, appliedRevision, hostVars>>
taskVars == <<renewal, hello>>
histVars == <<lost, swept, clobbered, jobFailed, outlived, outrun>>
vars == <<planStatus, planNodes, planReady, planLate, rows, managed, lifecycleState,
          isPublished, desiredRevision, appliedRevision, externalPort, hostEnabled,
          certificateStatus, certificate, certificateBlocked, machineStatus, jobs,
          renewal, hello, open, requests, faults, lost, swept, clobbered, jobFailed,
          outlived, outrun, raced>>

Plans == 1 .. MaxPlans
Kinds == {"discover_host", "preflight", "reconcile_dependency", "reconcile_instance",
          "reconcile_certificate", "apply_config", "stop_instance", "start_instance"}
PlanStatuses     == {"NONE", "PENDING", "READY", "BLOCKED", "APPLIED", "EXPIRED", "FAILED"}
LifecycleStates  == {"PROVISIONING", "CONFIG_VALIDATED", "PUBLISHED", "FAILED"}
MachineStatuses  == {"CONNECTED", "PROVISIONING", "CONFIG_VALIDATED", "PUBLISHED",
                     "DEGRADED", "FAILED"}
CertStatuses     == {"NOT_REQUIRED", "PENDING", "VALID", "RENEWING", "FAILED"}

Row == [kind : Kinds, node : Nodes \cup {NoNode}, plan : 0 .. MaxPlans,
        rev : 0 .. MaxRevision, closed : BOOLEAN, ports : SUBSET Ports,
        sent : BOOLEAN,         \* claimed at least once
        running : BOOLEAN]      \* RUNNING, else QUEUED
Job == [node : Nodes, closed : BOOLEAN]

Command(k, n) == [kind |-> k, node |-> n, plan |-> 0, rev |-> 0, closed |-> FALSE,
                  ports |-> {}, sent |-> FALSE, running |-> FALSE]
NoRenewal == [node |-> NoNode]
NoHello   == "none"

(* At most one transaction at a time is overtaken, by one action.          *)
Transaction ==
    [what : {"none"}] \cup
    [what : {"plan"}, nodes : SUBSET Nodes, live : SUBSET Plans, overtaken : BOOLEAN] \cup
    [what : {"retry"}, nodes : SUBSET Nodes, ports : [Nodes -> SUBSET Ports],
     renew : SUBSET Nodes, overtaken : BOOLEAN] \cup
    [what : {"publish"}, nodes : SUBSET Nodes, overtaken : BOOLEAN] \cup
    [what : {"apply"}, node : Nodes, rev : 0 .. MaxRevision, caughtUp : BOOLEAN,
     published : BOOLEAN, ready : BOOLEAN, overtaken : BOOLEAN]
NoTransaction == [what |-> "none"]

TypeOK ==
    /\ planStatus \in [Plans -> PlanStatuses]
    /\ planNodes \in [Plans -> SUBSET Nodes]
    /\ planReady \in [Plans -> SUBSET Nodes]
    /\ planLate \in [Plans -> BOOLEAN]
    /\ rows \in Seq(Row)
    /\ managed \subseteq Nodes
    /\ lifecycleState \in [Nodes -> LifecycleStates]
    /\ isPublished \in [Nodes -> BOOLEAN]
    /\ desiredRevision \in [Nodes -> 0 .. MaxRevision]
    /\ appliedRevision \in [Nodes -> 0 .. MaxRevision]
    /\ externalPort \in [Nodes -> Ports]
    /\ hostEnabled \in [Nodes -> BOOLEAN]
    /\ certificateStatus \in [Nodes -> CertStatuses]
    /\ certificate \in [Nodes -> {"none", "valid", "expired"}]
    /\ certificateBlocked \in [Nodes -> BOOLEAN]
    /\ machineStatus \in MachineStatuses
    /\ jobs \subseteq Job
    /\ renewal \in {NoRenewal} \cup
            [node : CertNodes, expired : BOOLEAN, blocked : BOOLEAN, stage : {"block", "queue"}]
    /\ hello \in MachineStatuses \cup {NoHello}
    /\ requests \in 0 .. MaxRequests
    /\ faults \in 0 .. MaxFaults
    /\ lost \subseteq Nodes
    /\ swept \in BOOLEAN /\ clobbered \in BOOLEAN
    /\ jobFailed \in BOOLEAN /\ outlived \in BOOLEAN
    /\ open \in Transaction
    /\ outrun \subseteq Nodes /\ raced \subseteq Nodes

Init ==
    /\ planStatus = [p \in Plans |-> "NONE"]
    /\ planNodes = [p \in Plans |-> {}]
    /\ planReady = [p \in Plans |-> {}]
    /\ planLate = [p \in Plans |-> FALSE]
    /\ rows = <<>>
    /\ managed = {}
    /\ lifecycleState = [n \in Nodes |-> "PROVISIONING"]
    /\ isPublished = [n \in Nodes |-> FALSE]
    /\ desiredRevision = [n \in Nodes |-> 0]
    /\ appliedRevision = [n \in Nodes |-> 0]
    /\ externalPort \in [Nodes -> Ports]
    /\ hostEnabled = [n \in Nodes |-> FALSE]
    /\ certificateStatus = [n \in Nodes |-> IF n \in CertNodes THEN "PENDING"
                                                               ELSE "NOT_REQUIRED"]
    /\ certificate = [n \in Nodes |-> "none"]
    /\ certificateBlocked = [n \in Nodes |-> FALSE]
    /\ machineStatus = "CONNECTED"
    /\ jobs = {}
    /\ renewal = NoRenewal
    /\ hello = NoHello
    /\ open = NoTransaction
    /\ outrun = {} /\ raced = {}
    /\ requests = MaxRequests
    /\ faults = MaxFaults
    /\ lost = {}
    /\ swept = FALSE /\ clobbered = FALSE /\ jobFailed = FALSE /\ outlived = FALSE

-----------------------------------------------------------------------------
(* Rows.                                                                   *)

Active(n)   == {i \in DOMAIN rows : rows[i].node = n}
Without(i)  == RemoveAt(rows, i)
KeepRunning(q)     == Subsequence(q, {i \in DOMAIN q : q[i].running})
MutKeepRunningOf(q, n) == KeepRunning(q)
KeepRunningOf(q, n) == Subsequence(q, {i \in DOMAIN q : q[i].running \/ q[i].node # n})

Spend(counter) == counter > 0 /\ counter' = counter - 1

(* Any other action overtakes the transaction that is open, one only. *)
Overtakes ==
    /\ \/ open = NoTransaction /\ UNCHANGED open
       \/ open # NoTransaction /\ ~open.overtaken /\ open' = [open EXCEPT !.overtaken = TRUE]
    /\ UNCHANGED raced

(* getReadyCommands: the first queued row is claimed and sent. *)
Claim ==
    /\ Cardinality({i \in DOMAIN rows : rows[i].running}) < Window
    /\ \E i \in DOMAIN rows :
          /\ ~rows[i].running
          /\ \A j \in DOMAIN rows : j < i => rows[j].running
          /\ rows' = [rows EXCEPT ![i].running = TRUE, ![i].sent = TRUE]
    /\ UNCHANGED <<planVars, nodeVars, certVars, machineStatus, jobs, taskVars,
                   requests, faults, histVars>>
    /\ Overtakes

(* hello: markAgentConnected reads the status of the Machine in one        *)
(* statement and writes it in the next, with the rows to be sent again.    *)
HelloReads ==
    /\ hello = NoHello
    /\ Spend(faults)
    /\ hello' = machineStatus
    /\ UNCHANGED <<planVars, rows, nodeVars, certVars, machineStatus, jobs, renewal,
                   requests, histVars>>
    /\ Overtakes

HelloWrites ==
    /\ hello # NoHello
    /\ machineStatus' = hello
    /\ clobbered' = (clobbered \/ hello # machineStatus)
    /\ rows' = [i \in DOMAIN rows |-> [rows[i] EXCEPT !.running = FALSE]]
    /\ hello' = NoHello
    /\ UNCHANGED <<planVars, nodeVars, certVars, jobs, renewal, requests, faults,
                   lost, swept, jobFailed, outlived, outrun>>
    /\ Overtakes

-----------------------------------------------------------------------------
(* Plans.                                                                  *)

Live(p) == planStatus[p] \in {"PENDING", "READY", "BLOCKED"}

Reusable(p, S) == planStatus[p] \in {"PENDING", "READY"} /\ planNodes[p] = S /\ ~planLate[p]

CanPlan(S) == S # {} /\ S \cap managed = {}

PlanRead(S) == [what |-> "plan", nodes |-> S, live |-> {p \in Plans : Live(p)},
                overtaken |-> FALSE]

(* Every live plan is superseded, its queued discovery cancelled: the      *)
(* plans that were live when the transaction began and, as its statements  *)
(* come later or earlier, those that became live since.                    *)
PlanWrites(t) ==
    LET now  == {p \in Plans : Live(p)}
        then == t.live \cap now
    IN
    \E p \in Plans, old, cancelled \in {then, now} :
       /\ planStatus[p] = "NONE" /\ \A q \in Plans : q < p => planStatus[q] # "NONE"
       /\ cancelled \subseteq old
       /\ planStatus' = [q \in Plans |-> IF q = p THEN "PENDING"
                                         ELSE IF q \in old THEN "EXPIRED"
                                         ELSE planStatus[q]]
       /\ planNodes' = [planNodes EXCEPT ![p] = t.nodes]
       /\ rows' = Append(Subsequence(rows, {i \in DOMAIN rows :
                                                \/ rows[i].running
                                                \/ rows[i].kind # "discover_host"
                                                \/ rows[i].plan \notin cancelled}),
                         [Command("discover_host", NoNode) EXCEPT !.plan = p])
       /\ machineStatus' = "PROVISIONING"
       /\ UNCHANGED <<planReady, planLate, nodeVars, certVars, jobs, taskVars, histVars>>

(* A request for the protocols S: a reusable plan is returned as it is.    *)
CreatePlan(S) ==
    /\ CanPlan(S)
    /\ Spend(requests)
    /\ IF \E p \in Plans : Reusable(p, S)
       THEN UNCHANGED <<planVars, rows, nodeVars, certVars, machineStatus, jobs,
                        taskVars, histVars>>
       ELSE PlanWrites(PlanRead(S))
    /\ UNCHANGED faults
    /\ Overtakes

(* Ten minutes pass. *)
PlanExpires(p) ==
    /\ planStatus[p] \in {"PENDING", "READY", "BLOCKED"} /\ ~planLate[p]
    /\ Spend(faults)
    /\ planLate' = [planLate EXCEPT ![p] = TRUE]
    /\ UNCHANGED <<planStatus, planNodes, planReady, rows, nodeVars, certVars,
                   machineStatus, jobs, taskVars, requests, histVars>>
    /\ Overtakes

(* Somebody looks at a plan whose time is over. *)
GetPlan(p) ==
    /\ Live(p) /\ planLate[p]
    /\ planStatus' = [planStatus EXCEPT ![p] = "EXPIRED"]
    /\ UNCHANGED <<planNodes, planReady, planLate, rows, nodeVars, certVars, machineStatus,
                   jobs, taskVars, requests, faults, histVars>>
    /\ Overtakes

CertificateRow(n) == IF n \in CertNodes THEN <<Command("reconcile_certificate", n)>> ELSE <<>>

InstanceRows(n, ports) ==
    <<Command("preflight", n), [Command("reconcile_instance", n) EXCEPT !.ports = ports]>>

(* The rows of the Nodes, at most three of each, Node after Node.          *)
InOrder(order, rowsOf) ==
    LET node(k)  == order[(k + 2) \div 3]
        place(k) == ((k + 2) % 3) + 1
        taken    == {k \in 1 .. 3 * Len(order) : place(k) <= Len(rowsOf[node(k)])}
    IN [k \in 1 .. Cardinality(taken) |->
            rowsOf[node(Position(taken, k))][place(Position(taken, k))]]

(* A plan that is ready is applied once: its ready Nodes are created with  *)
(* disabled Hosts, and everything their instances need is queued.          *)
Provision(p) ==
    LET S == planReady[p]
        rowsOf == [n \in S |-> InstanceRows(n, Ports) \o CertificateRow(n)]
    IN
    /\ planStatus[p] = "READY" /\ ~planLate[p]
    /\ S \cap managed = {}
    /\ planStatus' = [planStatus EXCEPT ![p] = "APPLIED"]
    /\ managed' = managed \cup S
    /\ \E order \in SetToSeqs(S), docker \in BOOLEAN :
          rows' = rows \o <<Command("preflight", NoNode)>>
                       \o (IF docker THEN <<Command("reconcile_dependency", NoNode)>> ELSE <<>>)
                       \o InOrder(order, rowsOf)
    /\ machineStatus' = "PROVISIONING"
    /\ UNCHANGED <<planNodes, planReady, planLate, lifecycleState, desiredRevision,
                   appliedRevision, hostVars, certVars, jobs, taskVars, requests,
                   faults, histVars>>
    /\ Overtakes

-----------------------------------------------------------------------------
(* Requests about Nodes.                                                   *)

CertificateUsable(n) ==
    n \in CertNodes => certificateStatus[n] = "VALID" /\ certificate[n] = "valid"

(* The ports a retry may move a Node to: none once it is published. *)
MutRetryPorts(n) == Ports
RetryPorts(n) == IF isPublished[n] THEN {externalPort[n]} ELSE Ports

Idle(n) == Active(n) = {} /\ ~(open.what = "apply" /\ open.node = n)

Retryable(n) == lifecycleState[n] = "FAILED" /\ Idle(n)

CanRetry(S) == S # {} /\ S \subseteq managed /\ \A n \in S : Retryable(n)

RetryRead(S) == [what |-> "retry", nodes |-> S,
                 ports |-> [n \in Nodes |-> IF n \in S THEN RetryPorts(n) ELSE {}],
                 renew |-> {n \in S : ~CertificateUsable(n)}, overtaken |-> FALSE]

RetryWrites(t) ==
    LET rowsOf == [n \in t.nodes |-> InstanceRows(n, t.ports[n]) \o
                                     (IF n \in t.renew THEN CertificateRow(n) ELSE <<>>)]
    IN
    /\ \E order \in SetToSeqs(t.nodes) : rows' = rows \o InOrder(order, rowsOf)
    /\ lifecycleState' = [n \in Nodes |-> IF n \in t.nodes THEN "PROVISIONING"
                                                           ELSE lifecycleState[n]]
    /\ certificateStatus' = [n \in Nodes |-> IF n \in t.renew THEN "PENDING"
                                                              ELSE certificateStatus[n]]
    /\ machineStatus' = "PROVISIONING"
    /\ UNCHANGED <<planVars, managed, desiredRevision, appliedRevision, hostVars,
                   certificate, certificateBlocked, jobs, taskVars, histVars>>

Retry(S) ==
    /\ CanRetry(S)
    /\ Spend(requests)
    /\ RetryWrites(RetryRead(S))
    /\ UNCHANGED faults
    /\ Overtakes

(* A crash after a transaction loses the jobs not yet put in the queue.    *)
Enqueue(J) ==
    \/ jobs' = jobs \cup J /\ UNCHANGED <<faults, lost>>
    \/ /\ J # {}
       /\ Spend(faults)
       /\ \E K \in SUBSET J \ {J} :
             /\ jobs' = jobs \cup K
             /\ lost' = lost \cup {j.node : j \in J \ K}

Publishable(n) ==
    /\ lifecycleState[n] \in {"CONFIG_VALIDATED", "PUBLISHED"}
    /\ desiredRevision[n] = appliedRevision[n]
    /\ CertificateUsable(n)

CanPublish(S) == S # {} /\ S \subseteq managed /\ \A n \in S : Publishable(n)

PublishRead(S) == [what |-> "publish", nodes |-> S, overtaken |-> FALSE]

PublishWrites(t) ==
    /\ isPublished' = [n \in Nodes |-> n \in t.nodes \/ isPublished[n]]
    /\ lifecycleState' = [n \in Nodes |-> IF n \in t.nodes THEN "PROVISIONING"
                                                           ELSE lifecycleState[n]]
    /\ machineStatus' = "PROVISIONING"
    /\ Enqueue([node : t.nodes, closed : {TRUE}])
    /\ UNCHANGED <<planVars, rows, managed, desiredRevision, appliedRevision, externalPort,
                   hostEnabled, certVars, taskVars, swept, clobbered, jobFailed, outlived,
                   outrun>>

Publish(S) == CanPublish(S) /\ Spend(requests) /\ PublishWrites(PublishRead(S)) /\ Overtakes

(* A change of users, squads or the Node itself asks for a configuration.  *)
(* Changes that take rights away ask for it to fail closed.                *)
Reconfigure(n, closed) ==
    /\ n \in managed
    /\ Spend(requests)
    /\ jobs' = jobs \cup {[node |-> n, closed |-> closed]}
    /\ UNCHANGED <<planVars, rows, nodeVars, certVars, machineStatus, taskVars, faults, histVars>>
    /\ Overtakes

-----------------------------------------------------------------------------
(* The start-node queue.                                                   *)

QueuedConfigs(n) ==
    {i \in Active(n) : rows[i].kind = "apply_config" /\ ~rows[i].running}

(* queueManagedConfig: the next revision goes into the last queued         *)
(* apply_config of the Node, which stays fail-closed if it was, or into a  *)
(* new one.                                                                *)
QueueConfig(n, closed) ==
    LET r == desiredRevision[n] + 1 IN
    /\ r <= MaxRevision
    /\ desiredRevision' = [desiredRevision EXCEPT ![n] = r]
    /\ lifecycleState' = [lifecycleState EXCEPT ![n] = "PROVISIONING"]
    /\ IF QueuedConfigs(n) # {}
       THEN \E i \in QueuedConfigs(n) :
              /\ \A j \in QueuedConfigs(n) : j <= i
              /\ rows' = [rows EXCEPT ![i].rev = r, ![i].closed = @ \/ closed]
       ELSE rows' = Append(rows, [Command("apply_config", n) EXCEPT !.rev = r,
                                                                    !.closed = closed])
    /\ outrun' = outrun \ {n}
    /\ UNCHANGED <<hostEnabled, machineStatus, faults, jobFailed>>

(* What a Node is when its new configuration is given up: a published one  *)
(* goes on with the old.                                                   *)
MutKeptState(n) == IF isPublished[n] THEN "DEGRADED" ELSE "FAILED"
KeptState(n) == IF isPublished[n] THEN "PUBLISHED" ELSE "FAILED"

(* handleManagedConfigQueueFailure: no configuration could be generated.   *)
QueueFails(n, closed) ==
    /\ Spend(faults)
    /\ jobFailed' = TRUE
    /\ lifecycleState' = [lifecycleState EXCEPT ![n] =
                            IF closed THEN "FAILED" ELSE KeptState(n)]
    /\ IF closed
       THEN /\ hostEnabled' = [hostEnabled EXCEPT ![n] = FALSE]
            /\ rows' = IF \E i \in Active(n) : rows[i].kind = "stop_instance"
                       THEN rows ELSE Append(rows, Command("stop_instance", n))
            /\ machineStatus' = IF \E m \in managed \ {n} : isPublished[m]
                                                            /\ lifecycleState[m] # "FAILED"
                                THEN "DEGRADED" ELSE "FAILED"
       ELSE UNCHANGED <<hostEnabled, rows, machineStatus>>
    /\ UNCHANGED <<desiredRevision, outrun>>

StartNode(j) ==
    /\ j \in jobs
    /\ jobs' = jobs \ {j}
    /\ lost' = lost \ {j.node}
    /\ QueueConfig(j.node, j.closed) \/ QueueFails(j.node, j.closed)
    /\ UNCHANGED <<planVars, managed, appliedRevision, isPublished, externalPort, certVars,
                   taskVars, requests, swept, clobbered, outlived>>
    /\ Overtakes

-----------------------------------------------------------------------------
(* completeCommand, for each kind of row that ends.                        *)

Pending(n)  == lifecycleState'[n] = "PROVISIONING"
Failed(n)   == lifecycleState'[n] = "FAILED"
Healthy(n)  == lifecycleState'[n] \in {"CONFIG_VALIDATED", "PUBLISHED"}

(* machineStatusAfterProtocolFailure *)
MutStatusAfterFailure(n) ==     \* the Node that failed counted as it was
    IF \E m \in managed : lifecycleState[m] = "PROVISIONING" THEN "PROVISIONING"
    ELSE IF \E m \in managed \ {n} : Healthy(m) THEN "DEGRADED"
    ELSE "FAILED"
StatusAfterFailure(n) ==
    IF \E m \in managed \ {n} : Pending(m) THEN "PROVISIONING"
    ELSE IF \E m \in managed \ {n} : Healthy(m) THEN "DEGRADED"
    ELSE "FAILED"

Discovered(i) ==
    LET p == rows[i].plan IN
    /\ rows[i].kind = "discover_host"
    /\ rows' = Without(i)
    /\ IF planStatus[p] = "PENDING" /\ ~planLate[p]
       THEN /\ \E R \in SUBSET planNodes[p] :
                 /\ planReady' = [planReady EXCEPT ![p] = R]
                 /\ planStatus' = [planStatus EXCEPT ![p] = IF R = {} THEN "BLOCKED" ELSE "READY"]
            /\ machineStatus' = "CONNECTED"
            /\ UNCHANGED outlived
       ELSE /\ planStatus' = [planStatus EXCEPT ![p] = IF @ = "PENDING" THEN "EXPIRED" ELSE @]
            /\ outlived' = TRUE
            /\ UNCHANGED <<planReady, machineStatus>>
    /\ UNCHANGED <<planNodes, planLate, lifecycleState, appliedRevision, hostVars, certVars,
                   jobs, faults, lost, swept>>

Reconciled(i) ==
    LET n == rows[i].node IN
    /\ rows[i].kind = "reconcile_instance"
    /\ rows' = Without(i)
    /\ \E port \in rows[i].ports : externalPort' = [externalPort EXCEPT ![n] = port]
    /\ Enqueue({[node |-> n, closed |-> FALSE]})
    /\ UNCHANGED <<planVars, lifecycleState, appliedRevision, isPublished, hostEnabled,
                   certVars, machineStatus, swept, outlived>>

Certified(i) ==
    LET n == rows[i].node IN
    /\ rows[i].kind = "reconcile_certificate"
    /\ rows' = Without(i)
    /\ certificateStatus' = [certificateStatus EXCEPT ![n] = "VALID"]
    /\ certificate' = [certificate EXCEPT ![n] = "valid"]
    /\ certificateBlocked' = [certificateBlocked EXCEPT ![n] = FALSE]
    /\ hostEnabled' = [hostEnabled EXCEPT ![n] = @ \/ (isPublished[n] /\ certificateBlocked[n])]
    /\ UNCHANGED <<planVars, lifecycleState, appliedRevision, isPublished, externalPort,
                   machineStatus, jobs, faults, lost, swept, outlived>>

(* The certificate lets the Host be enabled. *)
MutCertificateReady(n) == TRUE
CertificateReady(n) == CertificateUsable(n) /\ ~certificateBlocked[n]

MutStatusAfterApply == IF \E m \in managed : ~isPublished[m] THEN "CONFIG_VALIDATED"
                       ELSE "PUBLISHED"
StatusAfterApply == IF \E m \in managed : Failed(m) THEN "DEGRADED"
                    ELSE IF \E m \in managed : ~isPublished[m] THEN "CONFIG_VALIDATED"
                    ELSE "PUBLISHED"

ApplyRead(i) ==
    LET n == rows[i].node IN
    [what |-> "apply", node |-> n, rev |-> rows[i].rev,
     caughtUp |-> rows[i].rev = desiredRevision[n], published |-> isPublished[n],
     ready |-> CertificateReady(n), overtaken |-> FALSE]

(* The counts the Machine's status is made of are read after the Node is   *)
(* written.                                                                *)
ApplyWrites(t) ==
    /\ appliedRevision' = [appliedRevision EXCEPT ![t.node] = t.rev]
    /\ lifecycleState' = [lifecycleState EXCEPT ![t.node] =
                            IF ~t.caughtUp THEN "PROVISIONING"
                            ELSE IF t.published THEN "PUBLISHED" ELSE "CONFIG_VALIDATED"]
    /\ hostEnabled' = [hostEnabled EXCEPT ![t.node] =
                         @ \/ (t.published /\ t.caughtUp /\ t.ready)]
    /\ machineStatus' = IF \E m \in managed : Pending(m) THEN machineStatus
                        ELSE StatusAfterApply
    /\ UNCHANGED <<planVars, isPublished, externalPort, certVars, jobs, lost, swept, outlived>>

Applied(i) ==
    /\ rows[i].kind = "apply_config"
    /\ rows' = Without(i)
    /\ ApplyWrites(ApplyRead(i))
    /\ UNCHANGED faults

NothingElse(i) ==       \* preflight, reconcile_dependency, stop_ and start_instance
    /\ rows[i].kind \in {"preflight", "reconcile_dependency", "stop_instance", "start_instance"}
    /\ rows' = Without(i)
    /\ UNCHANGED <<planVars, lifecycleState, appliedRevision, hostVars, certVars,
                   machineStatus, jobs, faults, lost, swept, outlived>>

Succeeds(i) ==
    \/ Discovered(i) \/ Reconciled(i) \/ Certified(i) \/ Applied(i) \/ NothingElse(i)

DiscoveryFails(i) ==
    LET p == rows[i].plan IN
    /\ rows[i].kind = "discover_host"
    /\ rows' = Without(i)
    /\ planStatus' = [planStatus EXCEPT ![p] = IF @ = "PENDING" THEN "FAILED" ELSE @]
    /\ machineStatus' = "CONNECTED"
    /\ UNCHANGED <<planNodes, planReady, planLate, lifecycleState, hostEnabled, certVars, swept>>

(* A configuration that takes rights away failed: the Host is disabled and *)
(* the instance is to be stopped.                                          *)
ClosedApplyFails(i) ==
    LET n == rows[i].node IN
    /\ rows[i].kind = "apply_config" /\ rows[i].closed
    /\ rows' = Append(KeepRunningOf(Without(i), n), Command("stop_instance", n))
    /\ lifecycleState' = [lifecycleState EXCEPT ![n] = "FAILED"]
    /\ hostEnabled' = [hostEnabled EXCEPT ![n] = FALSE]
    /\ machineStatus' = StatusAfterFailure(n)
    /\ UNCHANGED <<planVars, certVars, swept>>

CertificateFails(i) ==
    LET n == rows[i].node
        stillValid == isPublished[n] /\ certificate[n] = "valid"
    IN
    /\ rows[i].kind = "reconcile_certificate"
    /\ rows' = KeepRunningOf(Without(i), n)
    /\ lifecycleState' = [lifecycleState EXCEPT ![n] = IF stillValid THEN "PUBLISHED" ELSE "FAILED"]
    /\ certificateStatus' = [certificateStatus EXCEPT ![n] = "FAILED"]
    /\ certificateBlocked' = [certificateBlocked EXCEPT ![n] = ~stillValid]
    /\ hostEnabled' = [hostEnabled EXCEPT ![n] = @ /\ stillValid]
    /\ machineStatus' = IF stillValid THEN "DEGRADED" ELSE StatusAfterFailure(n)
    /\ UNCHANGED <<planVars, certificate, swept>>

ApplyRolledBack(i) ==
    LET n == rows[i].node IN
    /\ rows[i].kind = "apply_config" /\ ~rows[i].closed
    /\ rows' = Without(i)
    /\ lifecycleState' = [lifecycleState EXCEPT ![n] = KeptState(n)]
    /\ machineStatus' = IF isPublished[n] THEN "DEGRADED" ELSE "FAILED"
    /\ UNCHANGED <<planVars, hostEnabled, certVars, swept>>

InstanceFails(i) ==
    LET n == rows[i].node IN
    /\ n # NoNode
    /\ rows[i].kind \in {"preflight", "reconcile_instance", "stop_instance", "start_instance",
                         "apply_config"}
    /\ ~rows[i].closed
    /\ rows' = KeepRunningOf(Without(i), n)
    /\ lifecycleState' = [lifecycleState EXCEPT ![n] = "FAILED"]
    /\ hostEnabled' = [hostEnabled EXCEPT ![n] = @ /\ rows[i].kind # "apply_config"]
    /\ machineStatus' = StatusAfterFailure(n)
    /\ UNCHANGED <<planVars, certVars, swept>>

(* The Machine itself is not fit: whatever is queued is cancelled. *)
MutSweptNodes(i) == managed \cap {rows[i].node}
SweptNodes(i) ==
    IF rows[i].kind = "preflight" THEN managed
    ELSE {n \in managed : lifecycleState[n] = "PROVISIONING"}

MachineFails(i) ==
    /\ \/ rows[i].kind = "reconcile_dependency"
       \/ rows[i].kind = "preflight"        \* the Machine's, or PREFLIGHT_MACHINE_FAILED
    /\ rows' = KeepRunning(Without(i))
    /\ lifecycleState' = [n \in Nodes |-> IF n \in SweptNodes(i) THEN "FAILED"
                                                                 ELSE lifecycleState[n]]
    /\ machineStatus' = "FAILED"
    /\ swept' = TRUE
    /\ UNCHANGED <<planVars, hostEnabled, certVars>>

Fails(i) ==
    /\ \/ DiscoveryFails(i) \/ ClosedApplyFails(i) \/ CertificateFails(i)
       \/ InstanceFails(i) \/ MachineFails(i)
    /\ UNCHANGED <<appliedRevision, isPublished, externalPort, jobs, lost, outlived>>

RollsBack(i) ==
    /\ ApplyRolledBack(i)
    /\ UNCHANGED <<appliedRevision, isPublished, externalPort, jobs, lost, outlived>>

Frame ==
    /\ UNCHANGED <<managed, desiredRevision, taskVars, requests, clobbered, jobFailed>>
    /\ Overtakes

(* The configurations of a Node that are under way: their rows, and the    *)
(* completion that is being written.                                       *)
Configs(n) ==
    {rows[i].rev : i \in {i \in Active(n) : rows[i].kind = "apply_config"}} \cup
    {t.rev : t \in {t \in {open} : t.what = "apply" /\ t.node = n}}

Outrun == {n \in Nodes : \E r \in Configs(n) \ Configs(n)', s \in Configs(n)' : s < r}

(* The first row the Agent was sent, whose answer is the next to come. *)
Answered(i) == rows[i].sent /\ \A j \in DOMAIN rows : j < i => ~rows[j].sent

Result(i) ==
    /\ Answered(i)
    /\ Frame
    /\ \/ Succeeds(i)
       \/ (Fails(i) \/ RollsBack(i)) /\ UNCHANGED faults
    /\ outrun' = outrun \cup Outrun

(* A deadline passes; the row, queued or running, is failed at the next    *)
(* dispatch.  It carries an error code of its own, so a preflight fails    *)
(* for its Node alone.  Any row may be the first to exceed its deadline:   *)
(* it is renewed when a queued configuration is replaced.                  *)
DeadlineExceeded(i) ==
    /\ Spend(faults)
    /\ Frame
    /\ rows[i].kind = "preflight" /\ rows[i].node # NoNode => InstanceFails(i)
    /\ Fails(i)
    /\ outrun' = outrun \cup Outrun

-----------------------------------------------------------------------------
(* The certificate renewal task.                                           *)

CertificateExpires(n) ==
    /\ certificate[n] = "valid"
    /\ Spend(faults)
    /\ certificate' = [certificate EXCEPT ![n] = "expired"]
    /\ UNCHANGED <<planVars, rows, nodeVars, certificateStatus, certificateBlocked,
                   machineStatus, jobs, taskVars, requests, histVars>>
    /\ Overtakes

RenewalReads(n) ==
    /\ renewal = NoRenewal
    /\ n \in managed \cap CertNodes
    /\ Spend(requests)
    /\ renewal' = [node |-> n, expired |-> certificate[n] = "expired",
                   blocked |-> certificateBlocked[n], stage |-> "block"]
    /\ UNCHANGED <<planVars, rows, nodeVars, certVars, machineStatus, jobs, hello,
                   faults, histVars>>
    /\ Overtakes

RenewalBlocks ==
    LET n == renewal.node IN
    /\ renewal # NoRenewal /\ renewal.stage = "block"
    /\ renewal' = [renewal EXCEPT !.stage = "queue"]
    /\ IF renewal.expired /\ ~renewal.blocked
       THEN /\ certificateBlocked' = [certificateBlocked EXCEPT ![n] = TRUE]
            /\ certificateStatus' = [certificateStatus EXCEPT ![n] = "FAILED"]
            /\ hostEnabled' = [hostEnabled EXCEPT ![n] = FALSE]
       ELSE UNCHANGED <<certificateBlocked, certificateStatus, hostEnabled>>
    /\ UNCHANGED <<planVars, rows, managed, lifecycleState, desiredRevision, appliedRevision,
                   isPublished, externalPort, certificate, machineStatus, jobs, hello,
                   requests, faults, histVars>>
    /\ Overtakes

(* Unless it was attempted in the last six hours, the renewal is queued    *)
(* with a restart of the instance; one that is expired is stopped first.   *)
RenewalQueues ==
    LET n     == renewal.node
        stop  == <<Command("stop_instance", n)>>
        renew == <<Command("reconcile_certificate", n)>>
    IN
    /\ renewal # NoRenewal /\ renewal.stage = "queue"
    /\ renewal' = NoRenewal
    /\ \/ UNCHANGED <<rows, certificateStatus, jobs, faults, lost>>
       \/ /\ rows' = rows \o (IF renewal.expired THEN stop \o renew ELSE renew \o stop)
                          \o <<Command("start_instance", n)>>
          /\ certificateStatus' = [certificateStatus EXCEPT ![n] = "RENEWING"]
          /\ Enqueue({[node |-> n, closed |-> FALSE]})
    /\ UNCHANGED <<planVars, nodeVars, certificate, certificateBlocked, machineStatus, hello,
                   requests, swept, clobbered, jobFailed, outlived, outrun>>
    /\ Overtakes

-----------------------------------------------------------------------------
(* Transactions that are overtaken.                                        *)

TransactionReads ==
    /\ open = NoTransaction
    /\ Spend(faults)
    /\ \/ /\ Spend(requests)
          /\ \E S \in SUBSET Nodes :
                \/ /\ CanPlan(S) /\ ~\E p \in Plans : Reusable(p, S)
                   /\ open' = PlanRead(S)
                \/ CanRetry(S) /\ open' = RetryRead(S)
                \/ CanPublish(S) /\ open' = PublishRead(S)
          /\ UNCHANGED rows
       \/ \E i \in DOMAIN rows :
             /\ Answered(i) /\ rows[i].kind = "apply_config"
             /\ open' = ApplyRead(i)
             /\ rows' = Without(i)
             /\ UNCHANGED requests
    /\ UNCHANGED <<planVars, nodeVars, certVars, machineStatus, jobs, taskVars,
                   histVars, raced>>

Changed(t) ==
    CASE t.what = "plan"    -> {}
      [] t.what = "retry"   -> {n \in t.nodes : ~Retryable(n)}
      [] t.what = "publish" -> {n \in t.nodes : ~Publishable(n)}
      [] t.what = "apply"   -> IF t.ready = CertificateReady(t.node) THEN {} ELSE {t.node}

TransactionWrites ==
    /\ open # NoTransaction /\ open.overtaken
    /\ open' = NoTransaction
    /\ \/ open.what = "plan" /\ PlanWrites(open) /\ UNCHANGED faults
       \/ open.what = "retry" /\ RetryWrites(open) /\ UNCHANGED faults
       \/ open.what = "publish" /\ PublishWrites(open)
       \/ /\ open.what = "apply" /\ ApplyWrites(open)
          /\ UNCHANGED <<rows, faults, managed, desiredRevision, taskVars, clobbered,
                         jobFailed>>
          /\ outrun' = outrun \cup Outrun
    /\ raced' = raced \cup Changed(open)
    /\ UNCHANGED requests

-----------------------------------------------------------------------------
Next ==
    \/ Claim
    \/ HelloReads
    \/ HelloWrites
    \/ \E S \in SUBSET Nodes : CreatePlan(S) \/ Retry(S) \/ Publish(S)
    \/ \E p \in Plans : PlanExpires(p) \/ GetPlan(p) \/ Provision(p)
    \/ \E n \in Nodes, closed \in BOOLEAN : Reconfigure(n, closed)
    \/ \E j \in Job : StartNode(j)
    \/ \E i \in DOMAIN rows : Result(i) \/ DeadlineExceeded(i)
    \/ \E n \in Nodes : CertificateExpires(n) \/ RenewalReads(n)
    \/ RenewalBlocks
    \/ RenewalQueues
    \/ TransactionReads
    \/ TransactionWrites

Spec == Init /\ [][Next]_vars

-----------------------------------------------------------------------------
(* Properties.                                                             *)

(* A published Node keeps its external port, whatever is retried, restarted *)
(* or reconnected, unless a retry was overtaken by another start of it.     *)
PublishedPortFixed ==
    [][\A n \in Nodes \ raced : isPublished[n] => externalPort'[n] = externalPort[n]]_vars

(* A Host is enabled only for a Node that is published and has applied a    *)
(* configuration, and never while the Node's certificate is blocked, unless *)
(* it was blocked between the reads and the writes of the transaction that  *)
(* enabled the Host.                                                        *)
EnabledHostIsServed ==
    \A n \in Nodes : hostEnabled[n] => /\ n \in managed /\ isPublished[n]
                                       /\ appliedRevision[n] > 0
                                       /\ certificateBlocked[n] => n \in raced

(* A Machine shown as published has only published Nodes, none of them      *)
(* failed, unless a hello put an older status back.                         *)
PublishedMachineIsWhole ==
    machineStatus = "PUBLISHED" /\ ~clobbered
        => \A n \in managed : isPublished[n] /\ lifecycleState[n] # "FAILED"

Quiet == rows = <<>> /\ jobs = {} /\ open = NoTransaction

(* When nothing is left to do, a Node is not left provisioning, unless its  *)
(* start-node job was lost, or a configuration of it failed or ended while  *)
(* an older one was still under way: completing that one leaves it          *)
(* provisioning, as it is behind, with nothing left that would catch up.    *)
QuietNodesAreDecided ==
    Quiet => \A n \in managed \ (lost \cup outrun) : lifecycleState[n] # "PROVISIONING"

(* When nothing is left to do, the Machine is left provisioning only by     *)
(* such a Node, unless a job failed, a plan outlived its time or a hello    *)
(* put an older status back.                                                *)
QuietMachineIsDecided ==
    Quiet /\ machineStatus = "PROVISIONING" /\ ~clobbered /\ ~jobFailed /\ ~outlived
        => \E n \in managed \cap (lost \cup outrun) : lifecycleState[n] = "PROVISIONING"

(* A plan that is still pending and in time has its discovery under way,    *)
(* unless the queue was cancelled for the whole Machine.                    *)
PendingPlanIsDiscovered ==
    \A p \in Plans :
        planStatus[p] = "PENDING" /\ ~planLate[p] /\ ~swept
            => \E i \in DOMAIN rows : rows[i].kind = "discover_host" /\ rows[i].plan = p

(* A Node whose prerequisite failed is not worked on any more: no command   *)
(* that creates its instance is left to run.                                *)
NoDependentEscapes ==
    \A i \in DOMAIN rows :
        rows[i].kind = "reconcile_instance" => lifecycleState[rows[i].node] # "FAILED"
=============================================================================
