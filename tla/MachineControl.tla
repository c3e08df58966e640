--------------------------- MODULE MachineControl ---------------------------
(***************************************************************************)
(* The control channel between the panel and the Agent of one Machine.     *)
(*                                                                         *)
(* Panel: command rows in PostgreSQL, one WebSocket session object per     *)
(* connection with a promise chain ("pipeline") that handles its messages  *)
(* one at a time, and a dispatcher started by HTTP requests.  Every await  *)
(* on the database is a point where another pipeline, the dispatcher or a  *)
(* start-node job may run, so each database statement that matters is a    *)
(* step of its own.                                                        *)
(*                                                                         *)
(* Agent: one session at a time, a channel of received commands, a loop    *)
(* that executes them serially, and a result store on disk keyed by the    *)
(* command's idempotency key.  The loop of an ended session is not waited  *)
(* for: it may still be running when the next session starts.              *)
(*                                                                         *)
(* The rows are the apply_config commands of one managed Node and commands *)
(* that touch no Node ("task": inventory and the like).                    *)
(***************************************************************************)
EXTENDS Integers, Sequences, FiniteSets

CONSTANTS
    Sessions,       \* session objects that can be alive at the same time
    NoSession,      \* no session
    Dispatchers,    \* HTTP requests that can be dispatching at the same time
    MaxCommands,    \* bound: rows ever created
    MaxTasks,       \* bound: rows that are tasks
    MaxRevision,    \* bound: start-node jobs, each of which asks for a revision
    MaxLate,        \* bound: deadlines that may pass
    MaxFaults       \* bound: lost connections, restarts and storage errors

ASSUME SessionAssumption == /\ NoSession \notin Sessions
                            /\ Dispatchers \cap Sessions = {}
ASSUME BoundAssumption == /\ MaxCommands \in Nat \ {0}
                          /\ MaxTasks \in Nat
                          /\ MaxRevision \in Nat \ {0}
                          /\ MaxLate \in Nat
                          /\ MaxFaults \in Nat

Ids       == 1 .. MaxCommands        \* in queueSequence order
Revisions == 0 .. MaxRevision
Workers   == Sessions \cup Dispatchers

Statuses   == {"NONE", "QUEUED", "RUNNING", "SUCCEEDED", "FAILED", "CANCELLED"}
Kinds      == {"task", "apply_config"}
Lifecycles == {"PROVISIONING", "CONFIG_VALIDATED", "FAILED"}

(* What a handler ended with: it succeeded, it failed, it failed and put   *)
(* the previous configuration back, or it was cut short because its        *)
(* session ended.  "refused" is an answer that is never stored.            *)
StoredOutcomes == {"ok", "failed", "rolledback", "aborted"}
Outcomes       == StoredOutcomes \cup {"refused"}
ErrorCodes     == Outcomes \cup {"none", "deadline", "dependency", "unfit"}

VARIABLES
    \* ---- the panel's database
    created,        \* rows created so far
    kind,           \* kind[i]
    status,         \* status[i]
    revision,       \* revision[i]: the revision in the row's payload
    late,           \* tasks whose deadline is past
    overdue,        \* revisions up to this one have their deadline past
    errorCode,      \* errorCode[i]: why the row failed
    desired,        \* the Node's desiredRevision
    applied,        \* the Node's appliedRevision
    lifecycle,      \* the Node's lifecycleState
    \* ---- the panel's memory
    current,        \* the entry of the sessions map
    readyState,     \* readyState[s] of the panel's socket
    pc,             \* pc[w]: the await at which worker w is
    doomed,         \* doomed[w]: expired rows w has read and has to fail
    held,           \* held[w]: the row w has read and is about to send
    target,         \* target[d]: the session dispatcher d sends on
    \* ---- the wire
    toAgent,        \* toAgent[s]: commands sent or waiting in the channel
    toPanel,        \* toPanel[s]: messages sent or waiting for the pipeline
    \* ---- the Agent
    agentOpen,      \* agentOpen[s]: the session's context is not cancelled
    exec,           \* exec[s]: what the session's command loop is executing
    store,          \* store[i]: the outcome on disk for the key of row i
    live,           \* the revision the managed Node runs
    \* ---- bookkeeping of the model
    faults,         \* faults that may still happen
    posted,         \* posted[i]: revisions posted to the Node under key i
    picked,         \* rows read for dispatch at least once
    rewritten       \* rows whose payload was replaced after that

rowVars   == <<created, kind, status, revision, late, overdue, errorCode>>
nodeVars  == <<desired, applied, lifecycle>>
panelVars == <<current, readyState>>
workVars  == <<pc, doomed, held, target>>
agentVars == <<agentOpen, exec, store, live>>
histVars  == <<posted, picked, rewritten>>
vars == <<created, kind, status, revision, late, overdue, errorCode,
          desired, applied, lifecycle, current, readyState,
          pc, doomed, held, target, toAgent, toPanel,
          agentOpen, exec, store, live, faults, posted, picked, rewritten>>

Command  == [id : Ids, rev : Revisions]
NoHeld   == [id |-> 0, rev |-> 0]
Idle     == [id |-> 0, rev |-> 0, posted |-> FALSE]

ToPanel  == [type : {"hello", "heartbeat"}] \cup
            [type : {"result"}, id : Ids, outcome : Outcomes]
Hello     == [type |-> "hello"]
Heartbeat == [type |-> "heartbeat"]
Result(i, o) == [type |-> "result", id |-> i, outcome |-> o]

Steps == {"idle", "scan", "expire", "pick", "claim", "send"}

TypeOK ==
    /\ created \in 0 .. MaxCommands
    /\ kind \in [Ids -> Kinds]
    /\ status \in [Ids -> Statuses]
    /\ revision \in [Ids -> Revisions]
    /\ late \in SUBSET Ids
    /\ overdue \in Revisions
    /\ errorCode \in [Ids -> ErrorCodes]
    /\ desired \in Revisions /\ applied \in Revisions /\ live \in Revisions
    /\ lifecycle \in Lifecycles
    /\ current \in Sessions \cup {NoSession}
    /\ readyState \in [Sessions -> {"OPEN", "CLOSING", "CLOSED"}]
    /\ pc \in [Workers -> Steps]
    /\ doomed \in [Workers -> SUBSET Ids]
    /\ held \in [Workers -> Command \cup {NoHeld}]
    /\ target \in [Dispatchers -> Sessions \cup {NoSession}]
    /\ toAgent \in [Sessions -> Seq(Command)]
    /\ toPanel \in [Sessions -> Seq(ToPanel)]
    /\ agentOpen \in [Sessions -> BOOLEAN]
    /\ exec \in [Sessions -> [id : Ids, rev : Revisions, posted : BOOLEAN] \cup {Idle}]
    /\ store \in [Ids -> StoredOutcomes \cup {"none"}]
    /\ faults \in 0 .. MaxFaults
    /\ posted \in [Ids -> SUBSET Revisions]
    /\ picked \in SUBSET Ids
    /\ rewritten \in SUBSET Ids

Init ==
    /\ created = 0
    /\ kind = [i \in Ids |-> "task"]
    /\ status = [i \in Ids |-> "NONE"]
    /\ revision = [i \in Ids |-> 0]
    /\ late = {} /\ overdue = 0
    /\ errorCode = [i \in Ids |-> "none"]
    /\ desired = 0 /\ applied = 0 /\ live = 0
    /\ lifecycle = "PROVISIONING"
    /\ current = NoSession
    /\ readyState = [s \in Sessions |-> "CLOSED"]
    /\ pc = [w \in Workers |-> "idle"]
    /\ doomed = [w \in Workers |-> {}]
    /\ held = [w \in Workers |-> NoHeld]
    /\ target = [d \in Dispatchers |-> NoSession]
    /\ toAgent = [s \in Sessions |-> <<>>]
    /\ toPanel = [s \in Sessions |-> <<>>]
    /\ agentOpen = [s \in Sessions |-> FALSE]
    /\ exec = [s \in Sessions |-> Idle]
    /\ store = [i \in Ids |-> "none"]
    /\ faults = MaxFaults
    /\ posted = [i \in Ids |-> {}]
    /\ picked = {}
    /\ rewritten = {}

-----------------------------------------------------------------------------
(* Command rows.                                                           *)

Active(i)  == status[i] \in {"QUEUED", "RUNNING"}
Late(i, r) == IF kind[i] = "task" THEN i \in late ELSE r <= overdue
Queued     == {i \in Ids : status[i] = "QUEUED"}
First(i, S) == i \in S /\ \A j \in S : i <= j
Last(i, S)  == i \in S /\ \A j \in S : j <= i

(* A new row at the end of the queue. *)
NewRow(k, r) ==
    LET i == created + 1 IN
    /\ created < MaxCommands
    /\ created' = i
    /\ kind' = [kind EXCEPT ![i] = k]
    /\ status' = [status EXCEPT ![i] = "QUEUED"]
    /\ revision' = [revision EXCEPT ![i] = r]

EnqueueTask ==
    /\ Cardinality({i \in 1 .. created : kind[i] = "task"}) < MaxTasks
    /\ NewRow("task", 0)
    /\ UNCHANGED <<late, overdue, errorCode, nodeVars, panelVars, workVars, toAgent,
                   toPanel, agentVars, faults, histVars>>

QueuedConfigs == {i \in Queued : kind[i] = "apply_config"}

(* A start-node job: ask for the next revision, put it in the last queued  *)
(* apply_config row, with a new deadline, or in a row of its own.          *)
Coalescible == QueuedConfigs

StartNode ==
    /\ desired < MaxRevision
    /\ desired' = desired + 1
    /\ lifecycle' = "PROVISIONING"
    /\ IF Coalescible # {}
       THEN /\ \E i \in Ids :
                  /\ Last(i, Coalescible)
                  /\ revision' = [revision EXCEPT ![i] = desired + 1]
                  /\ rewritten' = rewritten \cup ({i} \cap picked)
            /\ UNCHANGED <<created, kind, status>>
       ELSE /\ NewRow("apply_config", desired + 1)
            /\ UNCHANGED rewritten
    /\ UNCHANGED <<late, overdue, errorCode, applied, panelVars, workVars, toAgent,
                   toPanel, agentVars, faults, posted, picked>>

(* Time passes the deadline of a task.  Those of apply_config payloads are *)
(* all 45 minutes away when they are given, so they pass in the order of   *)
(* the revisions.                                                          *)
TaskDeadlinePasses(i) ==
    /\ Active(i) /\ kind[i] = "task"
    /\ Cardinality(late \cup {i}) + overdue <= MaxLate
    /\ late' = late \cup {i}
    /\ UNCHANGED <<created, kind, status, revision, overdue, errorCode, nodeVars,
                   panelVars, workVars, toAgent, toPanel, agentVars, faults, histVars>>

ConfigDeadlinePasses ==
    /\ \E i \in Ids : Active(i) /\ kind[i] = "apply_config"
    /\ overdue < desired
    /\ Cardinality(late) + overdue < MaxLate
    /\ overdue' = overdue + 1
    /\ UNCHANGED <<created, kind, status, revision, late, errorCode, nodeVars,
                   panelVars, workVars, toAgent, toPanel, agentVars, faults, histVars>>

(* completeCommand, for a row that is still active: one transaction that   *)
(* ends the row, updates the Node and cancels the rows that depended on it.*)
CancelledBy(i, o) ==
    IF kind[i] = "apply_config" /\ o # "rolledback" THEN QueuedConfigs \ {i} ELSE {}

MutAcceptedRevision(i) == revision[i] + 1
MutAcceptsPredecessor(i) == IF revision[i] > 1 THEN revision[i] - 1 ELSE desired

AcceptedRevision(i) == IF revision[i] <= desired THEN revision[i] ELSE desired

Complete(i, o) ==
    IF o = "ok"
    THEN /\ status' = [status EXCEPT ![i] = "SUCCEEDED"]
         /\ UNCHANGED errorCode
         /\ IF kind[i] = "apply_config"
            THEN /\ applied' = AcceptedRevision(i)
                 /\ lifecycle' = IF AcceptedRevision(i) = desired
                                 THEN "CONFIG_VALIDATED" ELSE "PROVISIONING"
            ELSE UNCHANGED <<applied, lifecycle>>
    ELSE /\ status' = [j \in Ids |-> IF j = i THEN "FAILED"
                                     ELSE IF j \in CancelledBy(i, o) THEN "CANCELLED"
                                     ELSE status[j]]
         /\ errorCode' = [j \in Ids |-> IF j = i THEN o
                                        ELSE IF j \in CancelledBy(i, o) THEN "dependency"
                                        ELSE errorCode[j]]
         /\ lifecycle' = IF kind[i] = "apply_config" THEN "FAILED" ELSE lifecycle
         /\ UNCHANGED applied

-----------------------------------------------------------------------------
(* Sessions.                                                               *)

SlotFree(s) ==      \* nothing of an earlier connection is left in the slot
    /\ readyState[s] = "CLOSED" /\ ~agentOpen[s]
    /\ pc[s] = "idle" /\ toPanel[s] = <<>> /\ toAgent[s] = <<>> /\ exec[s] = Idle
    /\ \A d \in Dispatchers : target[d] # s

(* The Agent dials; the panel registers the session, closing the one it    *)
(* had, and the Agent's hello is on its way.                               *)
Connect(s) ==
    /\ \A t \in Sessions : ~agentOpen[t]
    /\ SlotFree(s)
    /\ agentOpen' = [agentOpen EXCEPT ![s] = TRUE]
    /\ readyState' = [t \in Sessions |->
                        IF t = s THEN "OPEN"
                        ELSE IF t = current /\ readyState[t] = "OPEN" THEN "CLOSING"
                        ELSE readyState[t]]
    /\ current' = s
    /\ toPanel' = [toPanel EXCEPT ![s] = <<Hello>>]
    /\ UNCHANGED <<rowVars, nodeVars, workVars, toAgent, exec, store, live,
                   faults, histVars>>

PanelCloses(s) ==   \* the panel's socket emits "close"
    /\ readyState' = [readyState EXCEPT ![s] = "CLOSED"]
    /\ current' = IF current = s THEN NoSession ELSE current

(* The connection breaks and one side sees it.  Of the messages under way  *)
(* the panel keeps those it had received; commands the Agent had not       *)
(* received are among those that LoopReturns drops.                        *)
Prefixes(q) == {SubSeq(q, 1, n) : n \in 0 .. Len(q)}

ConnectionBreaks(s) ==
    /\ faults > 0
    /\ agentOpen[s] /\ readyState[s] # "CLOSED"
    /\ faults' = faults - 1
    /\ \/ agentOpen' = [agentOpen EXCEPT ![s] = FALSE] /\ UNCHANGED panelVars
       \/ PanelCloses(s) /\ UNCHANGED agentOpen
    /\ \E q \in Prefixes(toPanel[s]) : toPanel' = [toPanel EXCEPT ![s] = q]
    /\ UNCHANGED <<rowVars, nodeVars, workVars, toAgent, exec, store, live, histVars>>

(* The panel's socket closes: the Agent's side is gone, or the close       *)
(* handshake it began is over.                                             *)
PanelNotices(s) ==
    /\ \/ readyState[s] = "OPEN" /\ ~agentOpen[s]
       \/ readyState[s] = "CLOSING"
    /\ PanelCloses(s)
    /\ UNCHANGED <<rowVars, nodeVars, workVars, toAgent, toPanel, agentVars,
                   faults, histVars>>

(* The Agent's session ends because the panel's side of it did. *)
AgentNotices(s) ==
    /\ agentOpen[s] /\ readyState[s] # "OPEN"
    /\ agentOpen' = [agentOpen EXCEPT ![s] = FALSE]
    /\ UNCHANGED <<rowVars, nodeVars, panelVars, workVars, toAgent, toPanel, exec,
                   store, live, faults, histVars>>

(* The backend process restarts: only the database survives. *)
PanelRestarts ==
    /\ faults > 0
    /\ faults' = faults - 1
    /\ current' = NoSession
    /\ readyState' = [s \in Sessions |-> "CLOSED"]
    /\ pc' = [w \in Workers |-> "idle"]
    /\ doomed' = [w \in Workers |-> {}]
    /\ held' = [w \in Workers |-> NoHeld]
    /\ target' = [d \in Dispatchers |-> NoSession]
    /\ toPanel' = [s \in Sessions |-> <<>>]
    /\ UNCHANGED <<rowVars, nodeVars, toAgent, agentVars, histVars>>

(* The Agent process restarts: only the store and the Node survive. *)
AgentRestarts ==
    /\ faults > 0
    /\ \E s \in Sessions :
          /\ agentOpen[s] \/ exec[s] # Idle
          /\ \E q \in Prefixes(toPanel[s]) : toPanel' = [toPanel EXCEPT ![s] = q]
    /\ faults' = faults - 1
    /\ agentOpen' = [s \in Sessions |-> FALSE]
    /\ exec' = [s \in Sessions |-> Idle]
    /\ toAgent' = [s \in Sessions |-> <<>>]
    /\ UNCHANGED <<rowVars, nodeVars, panelVars, workVars, store, live, histVars>>

-----------------------------------------------------------------------------
(* The panel's pipelines.  The pipeline of a session goes on with messages *)
(* it has received after the session was closed or superseded.             *)

Received(s, type) ==
    /\ pc[s] = "idle"
    /\ toPanel[s] # <<>>
    /\ Head(toPanel[s]).type = type
    /\ toPanel' = [toPanel EXCEPT ![s] = Tail(@)]

(* getReadyCommands begins by reading the expired rows. *)
Expired == {i \in Ids : Active(i) /\ Late(i, revision[i])}

MutExpireRunningOnly == Expired \ Queued

ToExpire == Expired

ReadsExpired(w) ==
    /\ doomed' = [doomed EXCEPT ![w] = ToExpire]
    /\ pc' = [pc EXCEPT ![w] = IF ToExpire = {} THEN "pick" ELSE "expire"]

(* hello: rows believed to be running are queued again; the dispatch is    *)
(* the next await.                                                         *)
AfterReset == [i \in Ids |-> IF status[i] = "RUNNING" THEN "QUEUED" ELSE status[i]]

HandleHello(s) ==
    /\ Received(s, "hello")
    /\ status' = AfterReset
    /\ pc' = [pc EXCEPT ![s] = "scan"]
    /\ UNCHANGED <<created, kind, revision, late, overdue, errorCode, nodeVars, panelVars,
                   doomed, held, target, toAgent, agentVars, faults, histVars>>

HandleHeartbeat(s) ==
    /\ Received(s, "heartbeat")
    /\ ReadsExpired(s)
    /\ UNCHANGED <<rowVars, nodeVars, panelVars, held, target, toAgent,
                   agentVars, faults, histVars>>

(* A result for a row that is still active is completed and the next row   *)
(* dispatched; any other result closes the session.                        *)
Acceptable(i) == Active(i)

(* What is booked of it: a preflight that ran well and found the host unfit *)
(* is a success of the Agent and a failure of the row.                      *)
Booked(m) ==
    IF m.outcome = "ok" /\ kind[m.id] = "task" THEN {"ok", "unfit"} ELSE {m.outcome}

HandleResult(s) ==
    LET m == Head(toPanel[s]) IN
    /\ Received(s, "result")
    /\ IF Acceptable(m.id)
       THEN /\ \E o \in Booked(m) : Complete(m.id, o)
            /\ pc' = [pc EXCEPT ![s] = "scan"]
            /\ UNCHANGED readyState
       ELSE /\ readyState' = [readyState EXCEPT ![s] =
                                IF @ = "OPEN" THEN "CLOSING" ELSE @]
            /\ UNCHANGED <<status, errorCode, applied, lifecycle, pc>>
    /\ UNCHANGED <<created, kind, revision, late, overdue, desired, current, doomed, held,
                   target, toAgent, agentVars, faults, histVars>>

(* An HTTP request that queued commands asks for a dispatch. *)
Dispatch(d) ==
    /\ pc[d] = "idle"
    /\ current # NoSession
    /\ readyState[current] = "OPEN"
    /\ target' = [target EXCEPT ![d] = current]
    /\ ReadsExpired(d)
    /\ UNCHANGED <<rowVars, nodeVars, panelVars, held, toAgent, toPanel,
                   agentVars, faults, histVars>>

(* getReadyCommands: read the expired rows, fail them one by one in any     *)
(* order, read the first queued row, claim it if it is still queued.       *)
ScanExpired(w) ==
    /\ pc[w] = "scan"
    /\ ReadsExpired(w)
    /\ UNCHANGED <<rowVars, nodeVars, panelVars, held, target, toAgent, toPanel,
                   agentVars, faults, histVars>>

FailExpired(w) ==
    /\ pc[w] = "expire"
    /\ \E i \in doomed[w] :
          /\ IF Active(i) THEN Complete(i, "deadline")
                          ELSE UNCHANGED <<status, errorCode, applied, lifecycle>>
          /\ doomed' = [doomed EXCEPT ![w] = @ \ {i}]
          /\ pc' = [pc EXCEPT ![w] = IF doomed[w] = {i} THEN "pick" ELSE "expire"]
    /\ UNCHANGED <<created, kind, revision, late, overdue, desired, panelVars, held,
                   target, toAgent, toPanel, agentVars, faults, histVars>>

Ready == {i \in Queued : ~Late(i, revision[i])}

Finished(w) ==
    /\ pc' = [pc EXCEPT ![w] = "idle"]
    /\ target' = [d \in Dispatchers |-> IF d = w THEN NoSession ELSE target[d]]

PickReady(w) ==
    /\ pc[w] = "pick"
    /\ IF Ready # {}
       THEN /\ \E i \in Ids :
                  /\ First(i, Ready)
                  /\ held' = [held EXCEPT ![w] = [id |-> i, rev |-> revision[i]]]
                  /\ picked' = picked \cup {i}
            /\ pc' = [pc EXCEPT ![w] = "claim"]
            /\ UNCHANGED target
       ELSE /\ Finished(w)
            /\ UNCHANGED <<held, picked>>
    /\ UNCHANGED <<rowVars, nodeVars, panelVars, doomed, toAgent, toPanel,
                   agentVars, faults, posted, rewritten>>

MutClaimable(i) == TRUE

Claimable(i) == status[i] = "QUEUED"

Claim(w) ==
    LET i == held[w].id IN
    /\ pc[w] = "claim"
    /\ IF Claimable(i)
       THEN /\ status' = [status EXCEPT ![i] = "RUNNING"]
            /\ pc' = [pc EXCEPT ![w] = "send"]
            /\ UNCHANGED <<held, target>>
       ELSE /\ held' = [held EXCEPT ![w] = NoHeld]
            /\ Finished(w)
            /\ UNCHANGED status
    /\ UNCHANGED <<created, kind, revision, late, overdue, errorCode, nodeVars, panelVars,
                   doomed, toAgent, toPanel, agentVars, faults, histVars>>

(* The claimed row is sent if the socket is still open, and forgotten if   *)
(* not.                                                                    *)
MutBehind(q, c) == <<c>> \o q
Behind(q, c) == Append(q, c)            \* the socket keeps the order

SendsOn(w) == IF w \in Dispatchers THEN target[w] ELSE w

Send(w) ==
    LET s == SendsOn(w) IN
    /\ pc[w] = "send"
    /\ toAgent' = IF readyState[s] = "OPEN" /\ agentOpen[s]
                  THEN [toAgent EXCEPT ![s] = Behind(@, held[w])] ELSE toAgent
    /\ held' = [held EXCEPT ![w] = NoHeld]
    /\ Finished(w)
    /\ UNCHANGED <<rowVars, nodeVars, panelVars, doomed, toPanel, agentVars,
                   faults, histVars>>

-----------------------------------------------------------------------------
(* The Agent.                                                              *)

(* The ticker of the session; one heartbeat under way is enough, a second  *)
(* one would only repeat the dispatch.                                     *)
SendHeartbeat(s) ==
    /\ agentOpen[s] /\ readyState[s] = "OPEN"
    /\ toPanel[s] = <<>>
    /\ toPanel' = [toPanel EXCEPT ![s] = Append(@, Heartbeat)]
    /\ UNCHANGED <<rowVars, nodeVars, panelVars, workVars, toAgent, agentVars,
                   faults, histVars>>

(* The result goes out on the session of the loop that has it; the loop of *)
(* an ended session cannot write it and returns, leaving its channel.      *)
Answer(s, i, o, queue) ==
    /\ toPanel' = IF agentOpen[s] /\ readyState[s] # "CLOSED"
                  THEN [toPanel EXCEPT ![s] = Append(@, Result(i, o))] ELSE toPanel
    /\ toAgent' = [toAgent EXCEPT ![s] = IF agentOpen[s] THEN queue ELSE <<>>]

(* Validate and the store decide whether the handler runs at all.          *)
Replayed(i) == store[i] # "none"

Begin(s) ==
    LET c == Head(toAgent[s]) IN
    /\ exec[s] = Idle
    /\ toAgent[s] # <<>>
    /\ IF Late(c.id, c.rev)
       THEN Answer(s, c.id, "refused", Tail(toAgent[s])) /\ UNCHANGED exec
       ELSE IF Replayed(c.id)
       THEN Answer(s, c.id, store[c.id], Tail(toAgent[s])) /\ UNCHANGED exec
       ELSE /\ exec' = [exec EXCEPT ![s] = [id |-> c.id, rev |-> c.rev, posted |-> FALSE]]
            /\ toAgent' = [toAgent EXCEPT ![s] = Tail(@)]
            /\ UNCHANGED toPanel
    /\ UNCHANGED <<rowVars, nodeVars, panelVars, workVars, agentOpen, store, live,
                   faults, histVars>>

(* The store cannot be read: the command is answered without running it. *)
StoreUnreadable(s) ==
    /\ faults > 0
    /\ exec[s] = Idle
    /\ toAgent[s] # <<>>
    /\ Answer(s, Head(toAgent[s]).id, "refused", Tail(toAgent[s]))
    /\ faults' = faults - 1
    /\ UNCHANGED <<rowVars, nodeVars, panelVars, workVars, agentVars, histVars>>

(* The loop of an ended session returns instead of taking a command. *)
LoopReturns(s) ==
    /\ ~agentOpen[s]
    /\ exec[s] = Idle
    /\ toAgent[s] # <<>>
    /\ toAgent' = [toAgent EXCEPT ![s] = <<>>]
    /\ UNCHANGED <<rowVars, nodeVars, panelVars, workVars, toPanel, agentVars,
                   faults, histVars>>

(* The handler takes effect: a configuration is accepted by the Node, also *)
(* by a request that was on its way when the session's context ended.  One *)
(* that is put back again has not taken effect (AgentInstance has both).   *)
Effect(s) ==
    LET e == exec[s] IN
    /\ e # Idle
    /\ ~e.posted
    /\ exec' = [exec EXCEPT ![s] = [e EXCEPT !.posted = TRUE]]
    /\ live' = IF kind[e.id] = "apply_config" THEN e.rev ELSE live
    /\ posted' = [posted EXCEPT ![e.id] = @ \cup {e.rev}]
    /\ UNCHANGED <<rowVars, nodeVars, panelVars, workVars, toAgent, toPanel,
                   agentOpen, store, faults, picked, rewritten>>

(* The handler returns: its outcome is put in the store, unless the key    *)
(* has one already, and what the store holds is answered.                  *)
MutEndings(s) == {o \in StoredOutcomes : o = "aborted" => ~agentOpen[s]}

Endings(s) ==
    {o \in StoredOutcomes :
        /\ o = "ok" => exec[s].posted
        /\ o = "rolledback" => ~exec[s].posted /\ kind[exec[s].id] = "apply_config"
        /\ o = "aborted" => ~agentOpen[s]}

MutPutOverwrites(i, o) == o
MutReportsOwn(i, o) == o

Kept(i, o)     == IF store[i] = "none" THEN o ELSE store[i]
Reported(i, o) == IF store[i] = "none" THEN o ELSE store[i]

Finish(s) ==
    LET i == exec[s].id IN
    /\ exec[s] # Idle
    /\ \E o \in Endings(s) :
          /\ store' = [store EXCEPT ![i] = Kept(i, o)]
          /\ Answer(s, i, Reported(i, o), toAgent[s])
    /\ exec' = [exec EXCEPT ![s] = Idle]
    /\ UNCHANGED <<rowVars, nodeVars, panelVars, workVars, agentOpen, live,
                   faults, histVars>>

(* The outcome cannot be written: it is answered as a failure, unstored. *)
StoreUnwritable(s) ==
    /\ faults > 0
    /\ exec[s] # Idle
    /\ Answer(s, exec[s].id, "refused", toAgent[s])
    /\ exec' = [exec EXCEPT ![s] = Idle]
    /\ faults' = faults - 1
    /\ UNCHANGED <<rowVars, nodeVars, panelVars, workVars, agentOpen, store, live, histVars>>

-----------------------------------------------------------------------------
Environment ==
    \/ EnqueueTask
    \/ StartNode
    \/ \E i \in Ids : TaskDeadlinePasses(i)
    \/ ConfigDeadlinePasses
    \/ \E s \in Sessions : ConnectionBreaks(s)
    \/ PanelRestarts
    \/ AgentRestarts

SessionSteps(s) ==
    \/ Connect(s)
    \/ PanelNotices(s)
    \/ AgentNotices(s)

PipelineSteps(s) ==
    \/ HandleHello(s)
    \/ HandleHeartbeat(s)
    \/ HandleResult(s)

WorkerSteps(w) ==
    \/ ScanExpired(w)
    \/ FailExpired(w)
    \/ PickReady(w)
    \/ Claim(w)
    \/ Send(w)

AgentSteps(s) ==
    \/ SendHeartbeat(s)
    \/ Begin(s)
    \/ StoreUnreadable(s)
    \/ LoopReturns(s)
    \/ Effect(s)
    \/ Finish(s)
    \/ StoreUnwritable(s)

Next ==
    \/ Environment
    \/ \E d \in Dispatchers : Dispatch(d)
    \/ \E s \in Sessions : SessionSteps(s) \/ PipelineSteps(s) \/ AgentSteps(s)
    \/ \E w \in Workers : WorkerSteps(w)

Spec == Init /\ [][Next]_vars

(* The Agent dials again whenever it has no session, every closed socket   *)
(* is noticed by the other side in the end, no promise chain, database     *)
(* call, ticker or handler hangs, and time passes.  Nothing is assumed of  *)
(* the requests, of the faults or of what a handler ends with.             *)
Fairness ==
    /\ WF_vars(\E s \in Sessions : Connect(s))
    /\ \A i \in Ids : WF_vars(TaskDeadlinePasses(i))
    /\ WF_vars(ConfigDeadlinePasses)
    /\ \A w \in Workers : WF_vars(WorkerSteps(w))
    /\ \A s \in Sessions :
          /\ WF_vars(PanelNotices(s) \/ AgentNotices(s))
          /\ WF_vars(PipelineSteps(s))
          /\ WF_vars(SendHeartbeat(s))
          /\ WF_vars(Begin(s) \/ LoopReturns(s) \/ Finish(s))

FairSpec == Spec /\ Fairness

-----------------------------------------------------------------------------
(* Properties.                                                             *)

(* A row is reported SUCCEEDED only if the Agent ran its handler to the    *)
(* end and has that success on disk under the row's key.                   *)
SucceededWasDone ==
    \A i \in Ids : status[i] = "SUCCEEDED" => store[i] = "ok" /\ posted[i] # {}

(* A row whose payload nobody replaced after it was read for dispatch is   *)
(* SUCCEEDED only if that very payload reached the Node.                   *)
UnchangedPayloadRan ==
    \A i \in Ids : status[i] = "SUCCEEDED" /\ i \notin rewritten
                        => revision[i] \in posted[i]

(* Panel and Agent disagree about a finished command only because its      *)
(* deadline passed, the Agent could not use its store, or the command was  *)
(* a preflight that succeeded in finding the host unfit.                   *)
OutcomesAgree ==
    \A i \in Ids : status[i] = "FAILED" /\ store[i] = "ok"
                        => errorCode[i] \in {"deadline", "refused", "unfit"}

(* A Node the panel shows as validated runs the configuration that was     *)
(* asked for last.                                                         *)
DesiredStateRecovers == lifecycle = "CONFIG_VALIDATED" => live = desired

(* Nothing failed yet, no deadline passed, and no HTTP request dispatches  *)
(* beside a pipeline: two readers may claim in one order and send in the   *)
(* other.                                                                  *)
Undisturbed == faults = MaxFaults /\ late = {} /\ overdue = 0 /\ Dispatchers = {}

(* While nothing disturbs the channel, the Node's appliedRevision does not *)
(* go back, whatever is replaced or fails.                                 *)
AppliedNeverRegresses == [][Undisturbed => applied' >= applied]_vars

(* Once every command has its outcome, and none was cancelled, the Node is *)
(* not left provisioning.  (A command that escapes the failure of the one  *)
(* before it leaves it so, when what it cancelled asked for more.)         *)
QuiescentNodeIsDecided ==
    Undisturbed /\ desired > 0 /\ (\A i \in Ids : ~Active(i) /\ status[i] # "CANCELLED")
        => lifecycle # "PROVISIONING"

(* Whatever is lost, restarted or refused, a command gets an outcome.      *)
EveryCommandSettles == \A i \in Ids : Active(i) ~> ~Active(i)

(* The rows implement the durable command queue their callers rely on.     *)
Phase(i) == CASE status[i] = "NONE"                  -> "absent"
              [] status[i] \in {"QUEUED", "RUNNING"} -> "pending"
              [] status[i] = "SUCCEEDED"             -> "succeeded"
              [] status[i] = "FAILED"                -> "failed"
              [] status[i] = "CANCELLED"             -> "cancelled"

Queue == INSTANCE CommandQueue WITH
    phase <- [i \in Ids |-> Phase(i)],
    done  <- {i \in Ids : store[i] = "ok"}

QueueSpec == Queue!CSpec
=============================================================================
