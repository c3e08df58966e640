--------------------------- MODULE WarpDependency ---------------------------
(***************************************************************************)
(* The WARP proxy that the managed Nodes of a Machine share: the resource  *)
(* plans that find it, the takeover an administrator may allow, the        *)
(* reconcile_warp commands of requests and heartbeats, and what the two    *)
(* WARP handlers of the Agent do to the host and to the record of who owns *)
(* the installation.                                                       *)
(*                                                                         *)
(* Each transaction of the panel and each step of a handler that leaves    *)
(* something on the host is one action; between two steps of a handler the *)
(* Agent may die, lose its session, or find that the command's deadline is *)
(* over, and other people use the host.  Of a Node's own commands there is *)
(* only whether some are left and how they end (Provisioning has them),    *)
(* and the status of the Machine is left out.                              *)
(***************************************************************************)
EXTENDS Integers, SequencesExt, Subsequences

CONSTANTS
    Nodes,          \* the protocols; a Machine has at most one Node of each
    MaxPlans,       \* bound: plans ever created
    MaxRequests,    \* bound: requests about Nodes
    MaxFaults,      \* bound: lost sessions, deadlines, late plans, a Machine that fails
    MaxEvents       \* bound: what other people do to WARP on the host

ASSUME NodesAssumption == Nodes # {}
ASSUME WarpBounds == /\ MaxPlans \in Nat /\ MaxRequests \in Nat
                     /\ MaxFaults \in Nat /\ MaxEvents \in Nat

VARIABLES
    \* ---- the panel
    plan,           \* per plan: status, Node, what its discovery found, ...
    rows,           \* active machine_commands, with the Agent's stored results
    node,           \* per Node: lifecycleState, isPublished, warpMode, commands
    warpStatus, warpOwnership,
    due,            \* warpLastChecked is two minutes ago, or never was
    \* ---- the Agent and its host
    session,        \* the control session is up
    handler,        \* the WARP handler that runs, and where it is
    record,         \* warp/ownership.json
    cli, works,     \* warp-cli is there; registered, in proxy mode, connected
    relay,          \* the Agent listens for the containers
    xui,            \* the host has a 3X-UI
    \* ---- what is left of the bounds
    requests, faults, events,
    \* ---- history
    theirs,         \* the installation is not the Agent's
    approved,       \* a takeover of what a plan could not use was allowed
    intruded,       \* they installed it after the Agent had recorded its own
    swept           \* plans whose queued command a failed Machine cancelled

panel == <<plan, node, warpStatus, warpOwnership, due>>
files == <<record, cli, works, relay, xui>>
counters == <<requests, faults, events>>
history == <<theirs, approved, intruded, swept>>
vars == <<panel, rows, session, handler, files, counters, history>>

Plans == 1 .. MaxPlans
Modes == {"none", "REUSE_EXTERNAL", "INSTALL_OR_REPAIR_MANAGED"}
States == {"absent", "PROVISIONING", "CONFIG_VALIDATED", "PUBLISHED", "FAILED", "DEGRADED"}
Findings == {"unknown", "NOT_REQUIRED", "MISSING", "UNHEALTHY_MANAGED", "READY_MANAGED",
             "READY_EXTERNAL", "TAKEOVER_REQUIRED", "OWNERSHIP_CONFLICT"}
Ours == {"INSTALLING", "MANAGED", "ADOPTED"}
Places == {"verify", "detect", "own", "install", "configure", "persist", "relay",
           "adopt", "create", "fill"}

Idle == [at |-> "idle"]
Handling == [at : Places, mode : Modes, orphan : BOOLEAN]
Row == [kind : {"discover_host", "authorize_warp_takeover", "reconcile_warp"},
        plan : 0 .. MaxPlans, mode : Modes, running : BOOLEAN,
        stored : {"nothing", "succeeded", "failed"}, found : Findings]

TypeOK ==
    /\ plan \in [Plans -> [status : {"none", "PENDING", "READY", "BLOCKED", "APPLIED",
                                     "EXPIRED", "FAILED"},
                           node : Nodes, warp : BOOLEAN, takeover : BOOLEAN,
                           late : BOOLEAN, found : Findings]]
    /\ rows \in Seq(Row)
    /\ node \in [Nodes -> [state : States, published : BOOLEAN, mode : Modes,
                           busy : BOOLEAN]]
    /\ warpStatus \in {"DISABLED", "INSTALLING", "CONNECTED", "FAILED"}
    /\ warpOwnership \in {"UNASSESSED", "ABSENT", "EXTERNAL", "MANAGED", "CONFLICT", "ADOPTED"}
    /\ due \in BOOLEAN /\ session \in BOOLEAN
    /\ handler \in Handling \cup {Idle}
    /\ record \in Ours \cup {"absent", "unreadable"}
    /\ cli \in BOOLEAN /\ works \in BOOLEAN /\ relay \in BOOLEAN /\ xui \in BOOLEAN
    /\ works => cli
    /\ requests \in 0 .. MaxRequests /\ faults \in 0 .. MaxFaults
    /\ events \in 0 .. MaxEvents
    /\ theirs \in BOOLEAN /\ approved \in BOOLEAN /\ intruded \in BOOLEAN
    /\ swept \subseteq Plans

(* A Machine without Nodes, on a host that may have a WARP of its own. *)
Init ==
    /\ plan \in {[p \in Plans |-> [status |-> "none", node |-> n, warp |-> FALSE,
                                   takeover |-> FALSE, late |-> FALSE,
                                   found |-> "unknown"]] : n \in {CHOOSE n \in Nodes : TRUE}}
    /\ rows = <<>>
    /\ node = [n \in Nodes |-> [state |-> "absent", published |-> FALSE, mode |-> "none",
                                busy |-> FALSE]]
    /\ warpStatus = "DISABLED" /\ warpOwnership = "UNASSESSED" /\ due = TRUE
    /\ session = TRUE /\ handler = Idle
    /\ record = "absent" /\ relay = FALSE /\ xui \in BOOLEAN
    /\ cli \in BOOLEAN /\ works \in {FALSE, cli} /\ theirs = cli
    /\ requests = 0 /\ faults = 0 /\ events = 0
    /\ approved = FALSE /\ intruded = FALSE /\ swept = {}

Request == requests < MaxRequests /\ requests' = requests + 1 /\ UNCHANGED <<faults, events>>
Fault == faults < MaxFaults /\ faults' = faults + 1 /\ UNCHANGED <<requests, events>>
Event == events < MaxEvents /\ events' = events + 1 /\ UNCHANGED <<requests, faults>>

(***************************************************************************)
(* Plans and the takeover.                                                 *)
(***************************************************************************)
Command(kind, p, mode) == [kind |-> kind, plan |-> p, mode |-> mode, running |-> FALSE,
                           stored |-> "nothing", found |-> "unknown"]
Live(p) == plan[p].status \in {"PENDING", "READY", "BLOCKED"}

(* createProvisioningPlan for a Node that does not exist, with or without  *)
(* WARP: a plan that can be reused answers the request; else every live    *)
(* plan expires, and its command if it is still queued.                    *)
CreatePlan(p, n, warp) ==
    /\ plan[p].status = "none" /\ \A q \in Plans : q < p => plan[q].status # "none"
    /\ node[n].state = "absent"
    /\ ~\E q \in Plans : /\ plan[q].status \in {"PENDING", "READY"} /\ ~plan[q].late
                         /\ plan[q].node = n /\ plan[q].warp = warp
    /\ plan' = [q \in Plans |->
                   IF q = p THEN [plan[p] EXCEPT !.status = "PENDING", !.node = n,
                                                 !.warp = warp]
                   ELSE IF Live(q) THEN [plan[q] EXCEPT !.status = "EXPIRED"] ELSE plan[q]]
    /\ LET Kept(r) == r.running \/ r.plan = 0 \/ ~Live(r.plan)
       IN  rows' = Append(Subsequence(rows, {i \in DOMAIN rows : Kept(rows[i])}),
                          Command("discover_host", p, "none"))
    /\ UNCHANGED <<node, warpStatus, warpOwnership, due, session, handler, files, counters,
                   history>>

(* Its time passes, and somebody looks at it (getProvisioningPlan). *)
PlanExpires(p) ==
    /\ Live(p) /\ ~plan[p].late /\ Fault
    /\ plan' = [plan EXCEPT ![p].late = TRUE]
    /\ UNCHANGED <<rows, node, warpStatus, warpOwnership, due, session, handler, files,
                   history>>

GetPlan(p) ==
    /\ Live(p) /\ plan[p].late
    /\ plan' = [plan EXCEPT ![p].status = "EXPIRED"]
    /\ UNCHANGED <<rows, node, warpStatus, warpOwnership, due, session, handler, files,
                   counters, history>>

(* hasWarpTakeoverBlock, and the time. *)
MutTakeoverAllowed(p) == plan[p].status = "BLOCKED" /\ ~plan[p].late
TakeoverAllowed(p) == /\ plan[p].status = "BLOCKED" /\ ~plan[p].late
                      /\ plan[p].found = "TAKEOVER_REQUIRED"

AuthorizeWarpTakeover(p) ==
    /\ TakeoverAllowed(p) /\ Request
    /\ plan' = [plan EXCEPT ![p].status = "PENDING", ![p].takeover = TRUE]
    /\ rows' = Append(rows, Command("authorize_warp_takeover", p, "none"))
    /\ approved' = (approved \/ plan[p].found = "TAKEOVER_REQUIRED")
    /\ UNCHANGED <<node, warpStatus, warpOwnership, due, session, handler, files, theirs,
                   intruded, swept>>

(* What the plan found decides how the Node uses WARP. *)
ModeFor(p) ==
    CASE ~plan[p].warp -> "none"
      [] plan[p].warp /\ plan[p].found = "READY_EXTERNAL" -> "REUSE_EXTERNAL"
      [] OTHER -> "INSTALL_OR_REPAIR_MANAGED"

MutWarpRow(mode) ==     \* nothing asked of the Agent for a WARP that is not its own
    IF mode # "INSTALL_OR_REPAIR_MANAGED" THEN <<>> ELSE <<Command("reconcile_warp", 0, mode)>>
WarpRow(mode) == IF mode = "none" THEN <<>> ELSE <<Command("reconcile_warp", 0, mode)>>

Provision(p) ==
    /\ plan[p].status = "READY" /\ ~plan[p].late /\ node[plan[p].node].state = "absent"
    /\ plan[p].warp => plan[p].found \in {"READY_EXTERNAL", "MISSING", "UNHEALTHY_MANAGED",
                                          "READY_MANAGED"}
    /\ plan' = [plan EXCEPT ![p].status = "APPLIED"]
    /\ node' = [node EXCEPT ![plan[p].node] = [state |-> "PROVISIONING", published |-> FALSE,
                                               mode |-> ModeFor(p), busy |-> TRUE]]
    /\ rows' = rows \o WarpRow(ModeFor(p))
    /\ warpStatus' = IF plan[p].warp THEN "INSTALLING" ELSE warpStatus
    /\ UNCHANGED <<warpOwnership, due, session, handler, files, counters, history>>

(***************************************************************************)
(* Nodes.                                                                  *)
(***************************************************************************)
WarpNodes == {n \in Nodes : node[n].mode # "none"}

(* retry: one mode of the Nodes it names, unless WARP is connected. *)
Retry(S) ==
    /\ S # {} /\ Request
    /\ \A n \in S : node[n].state \in {"FAILED", "DEGRADED"} /\ ~node[n].busy
    /\ node' = [n \in Nodes |-> IF n \in S THEN [node[n] EXCEPT !.state = "PROVISIONING",
                                                               !.busy = TRUE] ELSE node[n]]
    /\ IF S \cap WarpNodes # {} /\ warpStatus # "CONNECTED"
         THEN /\ warpStatus' = "INSTALLING"
              /\ \E n \in S \cap WarpNodes : rows' = rows \o WarpRow(node[n].mode)
         ELSE UNCHANGED <<warpStatus, rows>>
    /\ UNCHANGED <<plan, warpOwnership, due, session, handler, files, history>>

Publish(n) ==
    /\ node[n].state \in {"CONFIG_VALIDATED", "PUBLISHED"} /\ ~node[n].busy /\ Request
    /\ n \in WarpNodes => warpStatus = "CONNECTED"
    /\ node' = [node EXCEPT ![n].published = TRUE, ![n].state = "PROVISIONING",
                            ![n].busy = TRUE]
    /\ UNCHANGED <<plan, rows, warpStatus, warpOwnership, due, session, handler, files,
                   history>>

(* A user, a squad or the Node changes (queueManagedConfig). *)
Reconfigure(n) ==
    /\ node[n].state # "absent" /\ Request
    /\ node' = [node EXCEPT ![n].state = "PROVISIONING", ![n].busy = TRUE]
    /\ UNCHANGED <<plan, rows, warpStatus, warpOwnership, due, session, handler, files,
                   history>>

(* The last of a Node's commands succeeds, fails, or is rolled back. *)
NodeSettles(n) ==
    /\ node[n].busy
    /\ \E state \in {IF node[n].published THEN "PUBLISHED" ELSE "CONFIG_VALIDATED",
                     IF node[n].published THEN "PUBLISHED" ELSE "FAILED", "FAILED"} :
          node' = [node EXCEPT ![n].state = state, ![n].busy = FALSE]
    /\ UNCHANGED <<plan, rows, warpStatus, warpOwnership, due, session, handler, files,
                   counters, history>>

(* A Node's preflight finds the Machine unfit, or a dependency cannot be   *)
(* installed: what is queued is cancelled, for plans and for WARP as well. *)
NodesAfter(busy, S) ==
    [n \in Nodes |-> [node[n] EXCEPT !.busy = n \in busy,
                                     !.state = IF n \in S THEN "FAILED" ELSE @]]

MachineFails ==
    /\ (\E n \in Nodes : node[n].busy) /\ Fault
    /\ \E busy \in SUBSET {n \in Nodes : node[n].busy},
          S \in {{n \in Nodes : node[n].state # "absent"},
                {n \in Nodes : node[n].state = "PROVISIONING"}} : node' = NodesAfter(busy, S)
    /\ rows' = Subsequence(rows, {i \in DOMAIN rows : rows[i].running})
    /\ swept' = swept \cup {p \in Plans : \E i \in DOMAIN rows : ~rows[i].running
                                                            /\ rows[i].plan = p}
    /\ UNCHANGED <<plan, warpStatus, warpOwnership, due, session, handler, files, theirs,
                   approved, intruded>>

(***************************************************************************)
(* Commands.                                                               *)
(***************************************************************************)

(* ensureWarpCommand: any of the Nodes decides on the mode; after a        *)
(* failure only a request does it again.                                   *)
WarpActive(q) == \E i \in DOMAIN q : q[i].kind = "reconcile_warp"

Wanted(force) == WarpNodes # {} /\ warpStatus # "FAILED" /\ (force \/ due)
QueuesWarp(q) == \E n \in WarpNodes : rows' = q \o WarpRow(node[n].mode)

EnsureWarpCommand(q, force) ==
    IF Wanted(force) /\ ~WarpActive(q) THEN QueuesWarp(q) ELSE rows' = q

(* A row whose deadline is over does not count, before it is failed too.   *)
EnsureBesideOverdue(q, force) == Wanted(force) /\ WarpActive(q) /\ QueuesWarp(q)

Hello ==
    /\ ~session /\ session' = TRUE
    /\ LET q == [i \in DOMAIN rows |-> [rows[i] EXCEPT !.running = FALSE]]
       IN  \/ EnsureWarpCommand(q, TRUE) /\ UNCHANGED counters
           \/ EnsureBesideOverdue(q, TRUE) /\ Fault
    /\ UNCHANGED <<panel, handler, files, history>>

Heartbeat ==
    /\ session
    /\ EnsureWarpCommand(rows, FALSE)
    /\ UNCHANGED <<panel, session, handler, files, counters, history>>

OverdueHeartbeat ==
    /\ session
    /\ EnsureBesideOverdue(rows, FALSE) /\ Fault
    /\ UNCHANGED <<panel, session, handler, files, history>>

CheckIsDue ==
    /\ ~due /\ due' = TRUE
    /\ UNCHANGED <<plan, node, warpStatus, warpOwnership, rows, session, handler, files,
                   counters, history>>

(* getReadyCommands. *)
Claim ==
    /\ session
    /\ \E i \in DOMAIN rows :
          /\ ~rows[i].running /\ \A j \in DOMAIN rows : j < i => rows[j].running
          /\ rows' = [rows EXCEPT ![i].running = TRUE]
    /\ UNCHANGED <<panel, session, handler, files, counters, history>>

Without(i) == RemoveAt(rows, i)

(* normalizeWarpOwnership. *)
Normalized(found) ==
    CASE found = "MISSING" -> "ABSENT"
      [] found \in {"UNHEALTHY_MANAGED", "READY_MANAGED"} -> "MANAGED"
      [] found \in {"READY_EXTERNAL", "TAKEOVER_REQUIRED"} -> "EXTERNAL"
      [] found = "OWNERSHIP_CONFLICT" -> "CONFLICT"
      [] OTHER -> warpOwnership

(* A plan whose protocols or other checks fail is blocked as well. *)
Discovered(r) ==
    LET p == r.plan
        usable == r.found \notin {"TAKEOVER_REQUIRED", "OWNERSHIP_CONFLICT"}
    IN  /\ IF plan[p].status = "PENDING" /\ ~plan[p].takeover /\ ~plan[p].late
             THEN /\ \E ready \in {usable, FALSE} :
                        plan' = [plan EXCEPT ![p].status = IF ready THEN "READY" ELSE "BLOCKED",
                                             ![p].found = r.found]
                  /\ warpOwnership' = Normalized(r.found)
             ELSE /\ plan' = [plan EXCEPT ![p].status = IF @ = "PENDING" THEN "EXPIRED" ELSE @]
                  /\ UNCHANGED warpOwnership
        /\ UNCHANGED <<node, warpStatus, due>>

TakenOver(r) ==
    /\ plan' = [plan EXCEPT ![r.plan].status = IF @ = "PENDING" THEN "EXPIRED" ELSE @]
    /\ warpOwnership' = "ADOPTED"
    /\ UNCHANGED <<node, warpStatus, due>>

WarpConnected(r) ==
    /\ node' = [n \in Nodes |->
                   IF n \in WarpNodes /\ node[n].published /\ node[n].state = "DEGRADED"
                   THEN [node[n] EXCEPT !.state = "PUBLISHED"] ELSE node[n]]
    /\ warpStatus' = "CONNECTED" /\ due' = FALSE
    /\ warpOwnership' = IF r.mode = "REUSE_EXTERNAL" THEN "EXTERNAL" ELSE "MANAGED"
    /\ UNCHANGED plan

WarpFails ==
    /\ node' = [n \in Nodes |-> IF n \in WarpNodes /\ node[n].published
                                THEN [node[n] EXCEPT !.state = "DEGRADED"] ELSE node[n]]
    /\ warpStatus' = "FAILED" /\ due' = FALSE
    /\ UNCHANGED <<plan, warpOwnership>>

MutBackTo(kind) == "PENDING"
BackTo(kind) == IF kind = "discover_host" THEN "FAILED" ELSE "BLOCKED"

PlanFails(r) ==
    /\ plan' = [plan EXCEPT ![r.plan].status = IF @ = "PENDING" THEN BackTo(r.kind) ELSE @]
    /\ UNCHANGED <<node, warpStatus, warpOwnership, due>>

(* completeCommand. *)
Succeeds(r) == CASE r.kind = "discover_host" -> Discovered(r)
                 [] r.kind = "authorize_warp_takeover" -> TakenOver(r)
                 [] OTHER -> WarpConnected(r)
Failing(r) == IF r.kind = "reconcile_warp" THEN WarpFails ELSE PlanFails(r)

(* A result comes, of this execution or of an earlier one. *)
Result ==
    /\ session
    /\ \E i \in DOMAIN rows :
          /\ rows[i].running /\ rows[i].stored # "nothing"
          /\ \A j \in DOMAIN rows : j < i => rows[j].stored = "nothing"
          /\ rows' = Without(i)
          /\ IF rows[i].stored = "succeeded" THEN Succeeds(rows[i]) ELSE Failing(rows[i])
    /\ UNCHANGED <<session, handler, files, counters, history>>

(* The row the handler works on. *)
Mine(i) == /\ rows[i].running /\ rows[i].stored = "nothing"
           /\ \A j \in DOMAIN rows : j < i => ~(rows[j].running /\ rows[j].stored = "nothing")

(* getReadyCommands fails a row whose deadline is over; the handler that   *)
(* works on it goes on.                                                    *)
DeadlineExceeded ==
    /\ session /\ Fault
    /\ \E i \in DOMAIN rows :
          /\ rows' = Without(i) /\ Failing(rows[i])
          /\ handler' = IF Mine(i) /\ handler # Idle THEN [handler EXCEPT !.orphan = TRUE]
                                                     ELSE handler
    /\ UNCHANGED <<session, files, history>>

(***************************************************************************)
(* The Agent.                                                              *)
(***************************************************************************)
Stored(outcome, found) ==
    rows' = [i \in DOMAIN rows |->
                IF Mine(i) THEN [rows[i] EXCEPT !.stored = outcome, !.found = found]
                ELSE rows[i]]

(* Execute persists what the handler returns. *)
Ends(outcome) ==
    /\ handler' = Idle
    /\ IF handler.orphan THEN UNCHANGED rows ELSE Stored(outcome, "unknown")

(* inspectWARP. *)
Inspected ==
    CASE record \in Ours /\ ~works -> "UNHEALTHY_MANAGED"
      [] record \in Ours /\ works -> "READY_MANAGED"
      [] record \notin Ours /\ works -> "READY_EXTERNAL"
      [] record \notin Ours /\ cli /\ ~works -> "TAKEOVER_REQUIRED"
      [] record = "unreadable" /\ ~cli -> "OWNERSHIP_CONFLICT"
      [] OTHER -> "MISSING"

Discover ==
    /\ session /\ handler = Idle
    /\ \E i \in DOMAIN rows :
          /\ Mine(i) /\ rows[i].kind = "discover_host"
          /\ \/ Stored("succeeded", IF plan[rows[i].plan].warp THEN Inspected
                                                               ELSE "NOT_REQUIRED")
             \/ Stored("failed", "unknown")
    /\ UNCHANGED <<panel, session, handler, files, counters, history>>

Begin ==
    /\ session /\ handler = Idle
    /\ \E i \in DOMAIN rows :
          /\ Mine(i) /\ rows[i].kind # "discover_host"
          /\ handler' = [at |-> CASE rows[i].mode = "none" -> "adopt"
                                  [] rows[i].mode = "REUSE_EXTERNAL" -> "verify"
                                  [] OTHER -> "detect",
                         mode |-> rows[i].mode, orphan |-> FALSE]
    /\ UNCHANGED <<panel, rows, session, files, counters, history>>

At(place) == handler # Idle /\ handler.at = place
Goto(place) == handler' = [handler EXCEPT !.at = place] /\ UNCHANGED rows

(* Cut off in the middle, a configuration may be of no use.                *)
LeftWorking == IF At("configure") THEN {works, FALSE} ELSE {works}

(* A command of the host fails, or the context is over.  A new record is   *)
(* removed; the relay may already be up when the last command fails.       *)
Fails ==
    /\ handler # Idle /\ Ends("failed")
    /\ works' \in LeftWorking
    /\ record' = IF At("fill") THEN "absent" ELSE record
    /\ relay' \in IF At("relay") THEN {relay, TRUE} ELSE {relay}
    /\ UNCHANGED <<panel, session, cli, xui, counters, history>>

(* reconcile_warp for a WARP that is not the Agent's. *)
VerifyCompatibleExternal ==
    /\ At("verify") /\ works /\ Goto("relay")
    /\ UNCHANGED <<panel, session, files, counters, history>>

Detect3XUI ==
    /\ At("detect") /\ ~xui /\ Goto("own")
    /\ UNCHANGED <<panel, session, files, counters, history>>

(* Of an installation that is there the Agent needs the record; if there   *)
(* is none it writes the record first.                                     *)
MutCheckOwnership ==
    /\ At("own") /\ Goto("install") /\ (cli => record \in Ours)
    /\ UNCHANGED <<panel, session, files, counters, history>>

CheckOwnership ==
    /\ At("own") /\ Goto("install")
    /\ \/ record \in Ours /\ UNCHANGED record
       \/ ~cli /\ record = "absent" /\ record' = "INSTALLING"
    /\ UNCHANGED <<panel, session, cli, works, relay, xui, counters, history>>

EnsureInstalled ==
    /\ At("install") /\ Goto("configure") /\ cli' = TRUE
    /\ theirs' = (cli /\ theirs)
    /\ UNCHANGED <<panel, session, record, works, relay, xui, counters, approved, intruded,
                   swept>>

(* Service, registration, mode, port, connect, until it is connected. *)
MutConfigure ==     \* connected without asking warp-cli
    /\ At("configure") /\ Goto("persist") /\ works' = TRUE
    /\ UNCHANGED <<panel, session, record, cli, relay, xui, counters, history>>

Configure ==
    /\ At("configure") /\ cli /\ Goto("persist") /\ works' = TRUE
    /\ UNCHANGED <<panel, session, record, cli, relay, xui, counters, history>>

Persist ==
    /\ At("persist") /\ Goto("relay") /\ record' = "MANAGED"
    /\ UNCHANGED <<panel, session, cli, works, relay, xui, counters, history>>

EnsureRelay ==
    /\ At("relay") /\ cli /\ Ends("succeeded") /\ relay' = TRUE
    /\ UNCHANGED <<panel, session, record, cli, works, xui, counters, history>>

(* authorize_warp_takeover. *)
MutAdopt ==         \* what cannot be read taken for a record of this Machine
    /\ At("adopt") /\ cli /\ ~xui
    /\ \/ record \in {"MANAGED", "ADOPTED", "unreadable"} /\ Ends("succeeded")
       \/ record = "absent" /\ Goto("create")
    /\ UNCHANGED <<panel, session, files, counters, history>>

Adopt ==
    /\ At("adopt") /\ cli /\ ~xui
    /\ \/ record \in {"MANAGED", "ADOPTED"} /\ Ends("succeeded")
       \/ record = "absent" /\ Goto("create")
    /\ UNCHANGED <<panel, session, files, counters, history>>

(* The file is there before its content. *)
CreateOwnership ==
    /\ At("create") /\ Goto("fill") /\ record' = "unreadable"
    /\ UNCHANGED <<panel, session, cli, works, relay, xui, counters, history>>

FillOwnership ==
    /\ At("fill") /\ Ends("succeeded") /\ record' = "ADOPTED"
    /\ UNCHANGED <<panel, session, cli, works, relay, xui, counters, history>>

(* The Agent dies: nothing is stored, also of what was just done, and      *)
(* nobody listens.  Or the session ends, which cancels the handler.        *)
Disconnect ==
    /\ session /\ session' = FALSE /\ Fault
    /\ handler' = Idle /\ works' \in LeftWorking
    /\ \/ /\ relay' = FALSE /\ UNCHANGED rows
          /\ record' \in IF At("fill") THEN {record, "ADOPTED"} ELSE {record}
       \/ /\ ~At("fill")
          /\ IF handler = Idle \/ handler.orphan THEN UNCHANGED rows
                                                ELSE Stored("failed", "unknown")
          /\ UNCHANGED <<relay, record>>
    /\ UNCHANGED <<panel, cli, xui, history>>

(***************************************************************************)
(* Other people on the host.                                               *)
(***************************************************************************)
OthersInstall ==
    /\ ~cli /\ Event /\ cli' = TRUE /\ works' \in BOOLEAN
    /\ theirs' = TRUE /\ intruded' = (intruded \/ record \in Ours)
    /\ UNCHANGED <<panel, rows, session, handler, record, relay, xui, approved, swept>>

OthersRemove ==
    /\ cli /\ Event /\ cli' = FALSE /\ works' = FALSE
    /\ UNCHANGED <<panel, rows, session, handler, record, relay, xui, history>>

(* The tunnel or its settings change, for the worse or for the better. *)
WarpChanges ==
    /\ cli /\ Event /\ works' = ~works
    /\ UNCHANGED <<panel, rows, session, handler, record, cli, relay, xui, history>>

HandlerSteps ==
    \/ VerifyCompatibleExternal \/ Detect3XUI \/ CheckOwnership \/ EnsureInstalled
    \/ Configure \/ Persist \/ EnsureRelay \/ Adopt \/ CreateOwnership \/ FillOwnership
    \/ Fails

Next ==
    \/ \E p \in Plans : \/ \E n \in Nodes, warp \in BOOLEAN : CreatePlan(p, n, warp)
                        \/ PlanExpires(p) \/ GetPlan(p) \/ AuthorizeWarpTakeover(p)
                        \/ Provision(p)
    \/ \E S \in SUBSET Nodes : Retry(S)
    \/ \E n \in Nodes : Publish(n) \/ Reconfigure(n) \/ NodeSettles(n)
    \/ MachineFails
    \/ Hello \/ Heartbeat \/ OverdueHeartbeat \/ CheckIsDue \/ Claim \/ Result \/ DeadlineExceeded
    \/ Discover \/ Begin \/ HandlerSteps
    \/ Disconnect
    \/ OthersInstall \/ OthersRemove \/ WarpChanges

Spec == Init /\ [][Next]_vars

(* The Agent dials, heartbeats, and works; the panel dispatches and books; *)
(* time passes.  Nothing is assumed of requests and of other people.       *)
Fairness ==
    /\ WF_vars(Hello) /\ WF_vars(Heartbeat) /\ WF_vars(CheckIsDue)
    /\ WF_vars(Claim) /\ WF_vars(Result)
    /\ WF_vars(Discover) /\ WF_vars(Begin) /\ WF_vars(HandlerSteps)

FairSpec == Spec /\ Fairness

(***************************************************************************)
(* Properties.                                                             *)
(***************************************************************************)

(* Wherever an installation is cut off, the record says whose it is: what  *)
(* the Agent has installed is never found again as somebody else's         *)
(* (Execute writes INSTALLING first).                                      *)
OwnInstallIsRecorded == cli /\ ~theirs => record \in Ours

(* The panel shows WARP as owned only if the host has a record of it,      *)
(* whatever order results, replays, deadlines and takeovers came in.       *)
OwnershipAgrees == warpOwnership \in {"MANAGED", "ADOPTED"} => record \in Ours

(* The registration, mode, port or connection of a WARP that others        *)
(* installed is never changed, unless an administrator allowed the         *)
(* takeover of one a plan could not use, and never beside a 3X-UI - but    *)
(* for one that was installed over the record of the Agent's own.          *)
Configures == At("configure") /\ handler' # handler
OthersWarpIsUntouched ==
    [][Configures /\ theirs => (approved \/ intruded) /\ ~xui]_vars

(* A plan that waits for a discovery or a takeover has a command for it,   *)
(* through deadlines, lost sessions, failures of WARP and other plans,     *)
(* unless its time is over - but for the plans whose queued command was    *)
(* cancelled with all others when the Machine failed: nothing queues it    *)
(* again, and they wait until their time is over (completeCommand).        *)
PendingPlanIsWorkedOn ==
    \A p \in Plans \ swept : plan[p].status = "PENDING" /\ ~plan[p].late =>
        \E i \in DOMAIN rows :
            /\ rows[i].plan = p
            /\ rows[i].kind = IF plan[p].takeover THEN "authorize_warp_takeover"
                                                  ELSE "discover_host"

(* While Nodes want WARP, an outage of it - of the proxy or of the relay,  *)
(* which dies with the Agent - ends, or the panel knows of it, also when   *)
(* the result of an execution before the Agent died is replayed.           *)
Serves == works /\ relay
OutageIsNoticed ==
    WarpNodes # {} /\ ~Serves ~> Serves \/ warpStatus = "FAILED"
=============================================================================
