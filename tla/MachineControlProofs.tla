------------------------ MODULE MachineControlProofs ------------------------
(***************************************************************************)
(* What MachineControl guarantees for any number of sessions, dispatchers, *)
(* commands, revisions and faults.                                         *)
(***************************************************************************)
EXTENDS MachineControl, SequenceTheorems, TLAPS

(* Range of a queue: what the proofs need of Tail, Append and prefixes.    *)
Elements(q) == {q[n] : n \in 1 .. Len(q)}

LEMMA TailElements ==
    ASSUME NEW S, NEW q \in Seq(S), q # <<>>
    PROVE  /\ Tail(q) \in Seq(S)
           /\ Head(q) \in Elements(q)
           /\ Elements(Tail(q)) \subseteq Elements(q)
<1>1. /\ Tail(q) \in Seq(S)
      /\ Len(Tail(q)) = Len(q) - 1
      /\ \A n \in 1 .. Len(Tail(q)) : Tail(q)[n] = q[n + 1]
    BY HeadTailProperties
<1>2. Len(q) \in Nat \ {0}
    BY EmptySeq
<1>3. Head(q) = q[1]
    OBVIOUS
<1>4. Head(q) \in Elements(q)
    BY <1>2, <1>3 DEF Elements
<1>5. Elements(Tail(q)) \subseteq Elements(q)
    BY <1>1, <1>2 DEF Elements
<1> QED
    BY <1>1, <1>4, <1>5

LEMMA AppendElements ==
    ASSUME NEW S, NEW q \in Seq(S), NEW m \in S
    PROVE  /\ Append(q, m) \in Seq(S)
           /\ Elements(Append(q, m)) = Elements(q) \cup {m}
<1>1. /\ Append(q, m) \in Seq(S)
      /\ Len(Append(q, m)) = Len(q) + 1
      /\ \A n \in 1 .. Len(q) : Append(q, m)[n] = q[n]
      /\ Append(q, m)[Len(q) + 1] = m
    BY AppendProperties
<1>2. Len(q) \in Nat
    OBVIOUS
<1> QED
    BY <1>1, <1>2 DEF Elements

LEMMA PrefixElements ==
    ASSUME NEW S, NEW q \in Seq(S), NEW p \in Prefixes(q)
    PROVE  /\ p \in Seq(S)
           /\ Elements(p) \subseteq Elements(q)
<1>1. PICK n \in 0 .. Len(q) : p = SubSeq(q, 1, n)
    BY DEF Prefixes
<1>2. Len(q) \in Nat
    OBVIOUS
<1>3. \A k \in 1 .. n : q[k] \in S
    BY <1>2, ElementOfSeq
<1>4. /\ p \in Seq(S)
      /\ Len(p) = IF 1 <= n THEN n - 1 + 1 ELSE 0
      /\ \A k \in 1 .. n - 1 + 1 : p[k] = q[1 + k - 1]
    BY <1>1, <1>2, <1>3, SubSeqProperties
<1>5. \A k \in 1 .. Len(p) : k \in 1 .. Len(q) /\ p[k] = q[k]
    BY <1>2, <1>4
<1> QED
    BY <1>4, <1>5 DEF Elements

LEMMA ElementsInSet ==
    ASSUME NEW S, NEW q \in Seq(S)
    PROVE  Elements(q) \subseteq S
BY ElementOfSeq DEF Elements

-----------------------------------------------------------------------------
(* Type correctness.  The row a worker is about to claim or send is a real *)
(* one: the rest of the typing follows from TypeOK itself.                 *)
HeldOK == \A w \in Workers : pc[w] \in {"claim", "send"} => held[w] \in Command

Typed == TypeOK /\ HeldOK

LEMMA TypedInit == Init => Typed
BY SessionAssumption, BoundAssumption
DEF Init, Typed, TypeOK, HeldOK, Ids, Revisions, Workers, Statuses, Kinds, Lifecycles,
    Steps, Outcomes, StoredOutcomes, ErrorCodes, Idle, NoHeld, ToPanel, Command

LEMMA EnvironmentTyped == Typed /\ Environment => Typed'
<1> SUFFICES ASSUME Typed, Environment PROVE Typed'
    OBVIOUS
<1> USE SessionAssumption, BoundAssumption
    DEF Typed, TypeOK, HeldOK, Ids, Revisions, Workers, Statuses, Kinds, Lifecycles
<1>1. CASE EnqueueTask
  <2>1. NewRow("task", 0) /\ 0 \in Revisions
    BY <1>1 DEF EnqueueTask
  <2>2. /\ created' \in 0 .. MaxCommands
        /\ kind' \in [Ids -> Kinds]
        /\ status' \in [Ids -> Statuses]
        /\ revision' \in [Ids -> Revisions]
    BY <2>1 DEF NewRow
  <2> QED
    BY <1>1, <2>2 DEF EnqueueTask, nodeVars, panelVars, workVars, agentVars, histVars
<1>2. CASE StartNode
  <2>1. /\ created' \in 0 .. MaxCommands
        /\ kind' \in [Ids -> Kinds]
        /\ status' \in [Ids -> Statuses]
        /\ revision' \in [Ids -> Revisions]
        /\ rewritten' \in SUBSET Ids
    <3>1. desired + 1 \in Revisions
      BY <1>2 DEF StartNode
    <3>2. CASE Coalescible # {}
      <4>1. PICK i \in Ids : /\ revision' = [revision EXCEPT ![i] = desired + 1]
                             /\ rewritten' = rewritten \cup ({i} \cap picked)
        BY <1>2, <3>2 DEF StartNode
      <4>2. UNCHANGED <<created, kind, status>>
        BY <1>2, <3>2 DEF StartNode
      <4> QED
        BY <3>1, <4>1, <4>2
    <3>3. CASE Coalescible = {}
      <4>1. NewRow("apply_config", desired + 1) /\ UNCHANGED rewritten
        BY <1>2, <3>3 DEF StartNode
      <4> QED
        BY <3>1, <4>1 DEF NewRow
    <3> QED
      BY <3>2, <3>3
  <2>2. desired' \in Revisions /\ lifecycle' \in Lifecycles
    BY <1>2 DEF StartNode
  <2> QED
    BY <1>2, <2>1, <2>2 DEF StartNode, panelVars, workVars, agentVars
<1>3. CASE \E i \in Ids : TaskDeadlinePasses(i)
    BY SMTT(40), <1>3 DEF TaskDeadlinePasses, nodeVars, panelVars, workVars, agentVars, histVars
<1>4. CASE ConfigDeadlinePasses
    BY SMTT(30), <1>4 DEF ConfigDeadlinePasses, nodeVars, panelVars, workVars, agentVars, histVars
<1>5. CASE \E s \in Sessions : ConnectionBreaks(s)
  <2>1. PICK s \in Sessions : ConnectionBreaks(s)
    BY <1>5
  <2>2. toPanel' \in [Sessions -> Seq(ToPanel)]
    BY <2>1, PrefixElements DEF ConnectionBreaks
  <2>3. /\ readyState' \in [Sessions -> {"OPEN", "CLOSING", "CLOSED"}]
        /\ current' \in Sessions \cup {NoSession}
        /\ agentOpen' \in [Sessions -> BOOLEAN]
    BY ZenonT(60), <2>1 DEF ConnectionBreaks, PanelCloses, panelVars
  <2>4. faults' \in 0 .. MaxFaults
    BY <2>1 DEF ConnectionBreaks
  <2> QED
    BY <2>1, <2>2, <2>3, <2>4 DEF ConnectionBreaks, rowVars, nodeVars, workVars, histVars
<1>6. CASE PanelRestarts
    BY <1>6 DEF PanelRestarts, rowVars, nodeVars, agentVars, histVars, Steps, NoHeld
<1>7. CASE AgentRestarts
    BY SMTT(40), <1>7, PrefixElements DEF AgentRestarts, rowVars, nodeVars, panelVars, workVars, histVars
<1> QED
    BY <1>1, <1>2, <1>3, <1>4, <1>5, <1>6, <1>7 DEF Environment

LEMMA SessionStepsTyped ==
    ASSUME Typed, NEW s \in Sessions, SessionSteps(s)
    PROVE  Typed'
<1> USE SessionAssumption DEF Typed, TypeOK, HeldOK, Workers
<1>1. CASE Connect(s)
  <2>1. <<Hello>> \in Seq(ToPanel)
    BY DEF Hello, ToPanel
  <2>2. readyState' \in [Sessions -> {"OPEN", "CLOSING", "CLOSED"}]
    BY <1>1 DEF Connect
  <2> QED
    BY <1>1, <2>1, <2>2 DEF Connect, rowVars, nodeVars, workVars, histVars
<1>2. CASE PanelNotices(s)
    BY <1>2 DEF PanelNotices, PanelCloses, rowVars, nodeVars, workVars, agentVars, histVars
<1>3. CASE AgentNotices(s)
    BY <1>3 DEF AgentNotices, rowVars, nodeVars, panelVars, workVars, histVars
<1> QED
    BY <1>1, <1>2, <1>3 DEF SessionSteps

LEMMA CompleteTyped ==
    ASSUME Typed, NEW i \in Ids, NEW o \in ErrorCodes, Complete(i, o)
    PROVE  /\ status' \in [Ids -> Statuses]
           /\ errorCode' \in [Ids -> ErrorCodes]
           /\ applied' \in Revisions
           /\ lifecycle' \in Lifecycles
<1> USE DEF Typed, TypeOK
<1>1. CASE o = "ok"
  <2>1. AcceptedRevision(i) \in Revisions
    BY DEF AcceptedRevision
  <2>2. status' \in [Ids -> Statuses] /\ errorCode' = errorCode
    BY <1>1 DEF Complete, Statuses
  <2>3. applied' \in Revisions /\ lifecycle' \in Lifecycles
    BY <1>1, <2>1 DEF Complete, Lifecycles
  <2> QED
    BY <2>2, <2>3
<1>2. CASE o # "ok"
  <2>1. status' \in [Ids -> Statuses]
    BY <1>2 DEF Complete, Statuses
  <2>2. errorCode' \in [Ids -> ErrorCodes]
    <3>1. "dependency" \in ErrorCodes
      BY DEF ErrorCodes
    <3> QED
      BY <1>2, <3>1 DEF Complete
  <2> QED
    BY <1>2, <2>1, <2>2 DEF Complete, Lifecycles
<1> QED
    BY <1>1, <1>2

LEMMA PipelineStepsTyped ==
    ASSUME Typed, NEW s \in Sessions, PipelineSteps(s)
    PROVE  Typed'
<1> USE SessionAssumption DEF Typed, TypeOK, HeldOK, Workers
<1>1. ASSUME NEW type, Received(s, type)
      PROVE  /\ toPanel' \in [Sessions -> Seq(ToPanel)]
             /\ Head(toPanel[s]) \in ToPanel
    BY <1>1, TailElements, ElementsInSet DEF Received
<1>2. CASE HandleHello(s)
    BY <1>1, <1>2 DEF HandleHello, AfterReset, Statuses, Steps, nodeVars, panelVars, agentVars, histVars
<1>3. CASE HandleHeartbeat(s)
    BY <1>1, <1>3 DEF HandleHeartbeat, ReadsExpired, ToExpire, Expired, Steps, rowVars, nodeVars,
                panelVars, agentVars, histVars
<1>4. CASE HandleResult(s)
  <2> DEFINE m == Head(toPanel[s])
  <2>1. m.id \in Ids /\ Booked(m) \subseteq ErrorCodes
    BY <1>1, <1>4 DEF HandleResult, Received, ToPanel, Outcomes, StoredOutcomes, ErrorCodes, Booked
  <2>2. /\ status' \in [Ids -> Statuses]
        /\ errorCode' \in [Ids -> ErrorCodes]
        /\ applied' \in Revisions
        /\ lifecycle' \in Lifecycles
    BY <1>4, <2>1, CompleteTyped DEF HandleResult
  <2>3. readyState' \in [Sessions -> {"OPEN", "CLOSING", "CLOSED"}]
    BY <1>4 DEF HandleResult
  <2>4. /\ pc' \in [Workers -> Steps]
        /\ HeldOK'
    BY <1>4 DEF HandleResult, Steps
  <2> QED
    BY <1>1, <1>4, <2>2, <2>3, <2>4 DEF HandleResult, agentVars, histVars
<1> QED
    BY <1>2, <1>3, <1>4 DEF PipelineSteps

LEMMA WorkerStepsTyped ==
    ASSUME Typed, NEW w \in Workers, WorkerSteps(w)
    PROVE  Typed'
<1> USE SessionAssumption DEF Typed, TypeOK, HeldOK
<1>1. CASE ScanExpired(w)
    BY <1>1 DEF ScanExpired, ReadsExpired, ToExpire, Expired, Steps, rowVars, nodeVars,
                panelVars, agentVars, histVars
<1>2. CASE FailExpired(w)
  <2>1. PICK i \in doomed[w] :
          /\ IF Active(i) THEN Complete(i, "deadline")
                          ELSE UNCHANGED <<status, errorCode, applied, lifecycle>>
          /\ doomed' = [doomed EXCEPT ![w] = @ \ {i}]
          /\ pc' = [pc EXCEPT ![w] = IF doomed[w] = {i} THEN "pick" ELSE "expire"]
    BY <1>2 DEF FailExpired
  <2>2. i \in Ids /\ "deadline" \in ErrorCodes
    BY DEF ErrorCodes
  <2>3. /\ status' \in [Ids -> Statuses]
        /\ errorCode' \in [Ids -> ErrorCodes]
        /\ applied' \in Revisions
        /\ lifecycle' \in Lifecycles
    BY <2>1, <2>2, CompleteTyped
  <2>4. /\ doomed' \in [Workers -> SUBSET Ids]
        /\ pc' \in [Workers -> Steps]
        /\ held' = held
        /\ HeldOK'
    BY <1>2, <2>1 DEF FailExpired, Steps
  <2> QED
    BY <1>2, <2>3, <2>4 DEF FailExpired, panelVars, agentVars, histVars
<1>3. CASE PickReady(w)
  <2>1. CASE Ready # {}
    <3>1. PICK i \in Ids :
            /\ held' = [held EXCEPT ![w] = [id |-> i, rev |-> revision[i]]]
            /\ picked' = picked \cup {i}
      BY <1>3, <2>1 DEF PickReady
    <3>2. [id |-> i, rev |-> revision[i]] \in Command
      BY DEF Command
    <3>3. /\ held' \in [Workers -> Command \cup {NoHeld}]
          /\ pc' \in [Workers -> Steps]
          /\ HeldOK'
      BY <1>3, <2>1, <3>1, <3>2 DEF PickReady, Steps
    <3> QED
      BY <1>3, <2>1, <3>1, <3>3 DEF PickReady, rowVars, nodeVars, panelVars, agentVars
  <2>2. CASE Ready = {}
    BY ZenonT(40), <1>3, <2>2 DEF PickReady, Finished, Steps, rowVars, nodeVars, panelVars, agentVars
  <2> QED
    BY <2>1, <2>2
<1>4. CASE Claim(w)
  <2>1. status' \in [Ids -> Statuses]
    BY <1>4 DEF Claim, Statuses
  <2>2. CASE Claimable(held[w].id)
    BY <1>4, <2>1, <2>2 DEF Claim, Steps, nodeVars, panelVars, agentVars, histVars
  <2>3. CASE ~Claimable(held[w].id)
    <3>1. /\ held' = [held EXCEPT ![w] = NoHeld]
          /\ Finished(w)
      BY <1>4, <2>3 DEF Claim
    <3>2. /\ held' \in [Workers -> Command \cup {NoHeld}]
          /\ pc' \in [Workers -> Steps]
          /\ target' \in [Dispatchers -> Sessions \cup {NoSession}]
          /\ HeldOK'
      BY <3>1 DEF Finished, Steps
    <3> QED
      BY <1>4, <2>1, <3>2 DEF Claim, nodeVars, panelVars, agentVars, histVars
  <2> QED
    BY <2>2, <2>3
<1>5. CASE Send(w)
    BY <1>5, AppendElements DEF Send, Behind, Finished, Steps, rowVars, nodeVars, panelVars,
                agentVars, histVars
<1> QED
    BY <1>1, <1>2, <1>3, <1>4, <1>5 DEF WorkerSteps

LEMMA DispatchTyped ==
    ASSUME Typed, NEW d \in Dispatchers, Dispatch(d)
    PROVE  Typed'
BY SessionAssumption
DEF Typed, TypeOK, HeldOK, Workers, Dispatch, ReadsExpired, ToExpire, Expired, Steps,
    rowVars, nodeVars, panelVars, agentVars, histVars

LEMMA AnswerTyped ==
    ASSUME Typed, NEW s \in Sessions, NEW i \in Ids, NEW o \in Outcomes,
           NEW q \in Seq(Command), Answer(s, i, o, q)
    PROVE  /\ toPanel' \in [Sessions -> Seq(ToPanel)]
           /\ toAgent' \in [Sessions -> Seq(Command)]
<1>1. Result(i, o) \in ToPanel
    BY DEF Result, ToPanel
<1>2. \A q1 \in Seq(ToPanel) : Append(q1, Result(i, o)) \in Seq(ToPanel)
    BY <1>1, AppendElements
<1> QED
    BY <1>2 DEF Answer, Typed, TypeOK

LEMMA AgentStepsTyped ==
    ASSUME Typed, NEW s \in Sessions, AgentSteps(s)
    PROVE  Typed'
<1> USE DEF Typed, TypeOK, HeldOK
<1> DEFINE c == Head(toAgent[s])
           Running == [id : Ids, rev : Revisions, posted : BOOLEAN]
<1>1. toAgent[s] # <<>> => /\ Tail(toAgent[s]) \in Seq(Command)
                           /\ c \in Command
                           /\ c.id \in Ids /\ c.rev \in Revisions
  <2>1. toAgent[s] # <<>> => Tail(toAgent[s]) \in Seq(Command) /\ c \in Command
    BY TailElements, ElementsInSet
  <2> QED
    BY <2>1 DEF Command
<1>2. exec[s] # Idle => /\ exec[s] \in Running
                        /\ exec[s].id \in Ids /\ exec[s].rev \in Revisions
    OBVIOUS
<1>3. "refused" \in Outcomes /\ StoredOutcomes \subseteq Outcomes
    BY DEF Outcomes
<1>4. CASE SendHeartbeat(s)
  <2>1. \A q \in Seq(ToPanel) : Append(q, Heartbeat) \in Seq(ToPanel)
    <3>1. Heartbeat \in ToPanel
      BY DEF Heartbeat, ToPanel
    <3> QED
      BY <3>1, AppendElements
  <2> QED
    BY <1>4, <2>1 DEF SendHeartbeat, rowVars, nodeVars, panelVars, workVars, agentVars, histVars
<1>5. CASE Begin(s)
  <2>1. CASE Late(c.id, c.rev)
    BY <1>1, <1>3, <1>5, <2>1, AnswerTyped
    DEF Begin, rowVars, nodeVars, panelVars, workVars, histVars
  <2>2. CASE ~Late(c.id, c.rev) /\ Replayed(c.id)
    <3>1. store[c.id] \in Outcomes
      BY <1>1, <1>3, <1>5, <2>2 DEF Begin, Replayed
    <3> QED
      BY <1>1, <1>5, <2>2, <3>1, AnswerTyped
      DEF Begin, rowVars, nodeVars, panelVars, workVars, histVars
  <2>3. CASE ~Late(c.id, c.rev) /\ ~Replayed(c.id)
    <3>1. exec' \in [Sessions -> Running \cup {Idle}]
      <4>1. exec' = [exec EXCEPT ![s] = [id |-> c.id, rev |-> c.rev, posted |-> FALSE]]
        BY <1>5, <2>3 DEF Begin
      <4>2. [id |-> c.id, rev |-> c.rev, posted |-> FALSE] \in Running
        BY <1>1, <1>5 DEF Begin
      <4> QED
        BY <4>1, <4>2
    <3>2. toAgent' \in [Sessions -> Seq(Command)] /\ toPanel' = toPanel
      BY <1>1, <1>5, <2>3 DEF Begin
    <3> QED
      BY <1>5, <3>1, <3>2 DEF Begin, rowVars, nodeVars, panelVars, workVars, histVars
  <2> QED
    BY <2>1, <2>2, <2>3
<1>6. CASE StoreUnreadable(s)
  <2>1. faults' \in 0 .. MaxFaults
    BY <1>6, BoundAssumption DEF StoreUnreadable
  <2> QED
    BY <1>1, <1>3, <1>6, <2>1, AnswerTyped
    DEF StoreUnreadable, rowVars, nodeVars, panelVars, workVars, agentVars, histVars
<1>7. CASE LoopReturns(s)
    BY <1>7 DEF LoopReturns, rowVars, nodeVars, panelVars, workVars, agentVars, histVars
<1>8. CASE Effect(s)
  <2>1. exec' \in [Sessions -> Running \cup {Idle}]
    BY <1>2, <1>8 DEF Effect
  <2>2. live' \in Revisions /\ posted' \in [Ids -> SUBSET Revisions]
    BY <1>2, <1>8 DEF Effect
  <2> QED
    BY <1>8, <2>1, <2>2 DEF Effect, rowVars, nodeVars, panelVars, workVars
<1>9. CASE Finish(s)
  <2>1. PICK o \in Endings(s) :
          /\ store' = [store EXCEPT ![exec[s].id] = Kept(exec[s].id, o)]
          /\ Answer(s, exec[s].id, Reported(exec[s].id, o), toAgent[s])
    BY <1>9 DEF Finish
  <2>2. Kept(exec[s].id, o) \in StoredOutcomes /\ Reported(exec[s].id, o) \in StoredOutcomes
    BY <1>2, <1>9, <2>1 DEF Finish, Kept, Reported, Endings
  <2>3. /\ toPanel' \in [Sessions -> Seq(ToPanel)]
        /\ toAgent' \in [Sessions -> Seq(Command)]
    BY <1>2, <1>3, <1>9, <2>1, <2>2, AnswerTyped DEF Finish
  <2>4. store' \in [Ids -> StoredOutcomes \cup {"none"}]
    BY <2>1, <2>2
  <2> QED
    BY <1>9, <2>3, <2>4 DEF Finish, rowVars, nodeVars, panelVars, workVars, histVars
<1>10. CASE StoreUnwritable(s)
  <2>1. faults' \in 0 .. MaxFaults
    BY <1>10, BoundAssumption DEF StoreUnwritable
  <2>2. /\ toPanel' \in [Sessions -> Seq(ToPanel)]
        /\ toAgent' \in [Sessions -> Seq(Command)]
    BY <1>2, <1>3, <1>10, AnswerTyped DEF StoreUnwritable
  <2> QED
    BY <1>10, <2>1, <2>2 DEF StoreUnwritable, rowVars, nodeVars, panelVars, workVars, histVars
<1> QED
    BY <1>4, <1>5, <1>6, <1>7, <1>8, <1>9, <1>10 DEF AgentSteps

LEMMA StutterTyped == Typed /\ UNCHANGED vars => Typed'
BY DEF Typed, TypeOK, HeldOK, vars

LEMMA NextTyped == Typed /\ [Next]_vars => Typed'
<1> SUFFICES ASSUME Typed, Next PROVE Typed'
    BY StutterTyped
<1> QED
    BY EnvironmentTyped, SessionStepsTyped, PipelineStepsTyped, WorkerStepsTyped,
       DispatchTyped, AgentStepsTyped
    DEF Next

(* Every variable keeps its type, whatever the number of sessions,         *)
(* commands and faults.                                                    *)
THEOREM TypeCorrect == Spec => []TypeOK
<1>1. Init => Typed
    BY TypedInit
<1>2. Typed /\ [Next]_vars => Typed'
    BY NextTyped
<1>3. Typed => TypeOK
    BY DEF Typed
<1> QED
    BY <1>1, <1>2, <1>3, PTL DEF Spec

-----------------------------------------------------------------------------
(* The inductive invariant behind SucceededWasDone and the refinement.     *)
(* Only rows that exist are under way; a success under way, or recorded by *)
(* the panel, is in the Agent's store; the store holds a success only of a *)
(* command that took effect.                                               *)
RowsExist == \A i \in Ids : status[i] = "NONE" <=> i > created

InFlightExists ==
    /\ \A w \in Workers : pc[w] \in {"claim", "send"} => held[w].id <= created
    /\ \A s \in Sessions : \A c \in Elements(toAgent[s]) : c.id <= created
    /\ \A s \in Sessions : exec[s] # Idle => exec[s].id <= created

Success(m) == m.type = "result" /\ m.outcome = "ok"

ReportsStored ==
    \A s \in Sessions : \A m \in Elements(toPanel[s]) : Success(m) => store[m.id] = "ok"

StoredWasPosted == \A i \in Ids : store[i] = "ok" => posted[i] # {}

RunningWasPosted ==
    \A s \in Sessions : exec[s] # Idle /\ exec[s].posted => posted[exec[s].id] # {}

SucceededWasStored == \A i \in Ids : status[i] = "SUCCEEDED" => store[i] = "ok"

IInv == /\ Typed
        /\ RowsExist
        /\ InFlightExists
        /\ ReportsStored
        /\ StoredWasPosted
        /\ RunningWasPosted
        /\ SucceededWasStored

LEMMA IInvInit == Init => IInv
<1> SUFFICES ASSUME Init PROVE IInv
    OBVIOUS
<1>1. \A s \in Sessions : Elements(toAgent[s]) = {} /\ Elements(toPanel[s]) = {}
    BY DEF Init, Elements
<1> QED
    BY <1>1, TypedInit, BoundAssumption
    DEF Init, IInv, RowsExist, InFlightExists, ReportsStored, StoredWasPosted,
        RunningWasPosted, SucceededWasStored, Ids

(* Completing a row that is still active with what a report says, or with  *)
(* a failure, keeps the parts that speak of statuses.                      *)
LEMMA CompleteKeeps ==
    ASSUME IInv, NEW i \in Ids, NEW o, Complete(i, o), Active(i),
           o = "ok" => store[i] = "ok", created' = created, store' = store
    PROVE  RowsExist' /\ SucceededWasStored'
<1> USE DEF IInv, Typed, TypeOK
<1>1. \A j \in Ids : /\ status'[j] = "NONE" <=> status[j] = "NONE"
                     /\ status'[j] = "SUCCEEDED" => status[j] = "SUCCEEDED" \/ (j = i /\ o = "ok")
  <2>1. CASE o = "ok"
    BY <2>1 DEF Complete, Active
  <2>2. CASE o # "ok"
    <3>1. \A j \in CancelledBy(i, o) : status[j] = "QUEUED"
      BY DEF CancelledBy, QueuedConfigs, Queued
    <3> QED
      BY ZenonT(40), <2>2, <3>1 DEF Complete, Active
  <2> QED
    BY <2>1, <2>2
<1> QED
    BY <1>1 DEF RowsExist, SucceededWasStored

(* A new row leaves every older one as it was.                             *)
LEMMA NewRowKeeps ==
    ASSUME IInv, NEW k, NEW r, NewRow(k, r), store' = store
    PROVE  RowsExist' /\ SucceededWasStored' /\ created' >= created /\ created' \in Nat
<1> USE DEF IInv, Typed, TypeOK
<1>1. created + 1 \in Ids /\ created' = created + 1
    BY BoundAssumption DEF NewRow, Ids
<1>2. status' = [status EXCEPT ![created + 1] = "QUEUED"]
    BY DEF NewRow
<1> QED
    BY <1>1, <1>2, BoundAssumption DEF RowsExist, SucceededWasStored, Ids

(* What a step must do for the parts it does not touch.                    *)
LEMMA FrameKeeps ==
    ASSUME IInv, UNCHANGED <<pc, held, toAgent, exec, toPanel, store, posted>>,
           created' \in Nat, created' >= created
    PROVE  InFlightExists' /\ ReportsStored' /\ StoredWasPosted' /\ RunningWasPosted'
<1>1. InFlightExists'
  <2>1. \A w \in Workers : pc[w] \in {"claim", "send"} => held[w].id \in Nat
    BY DEF IInv, Typed, HeldOK, Command, Ids
  <2>2. \A s \in Sessions : \A c \in Elements(toAgent[s]) : c.id \in Nat
    <3>1. \A s \in Sessions : Elements(toAgent[s]) \subseteq Command
      BY ElementsInSet DEF IInv, Typed, TypeOK
    <3> QED
      BY <3>1 DEF Command, Ids
  <2>3. \A s \in Sessions : exec[s] # Idle => exec[s].id \in Nat
    BY DEF IInv, Typed, TypeOK, Ids
  <2>4. created \in Nat
    BY DEF IInv, Typed, TypeOK
  <2> QED
    BY <2>1, <2>2, <2>3, <2>4 DEF IInv, InFlightExists
<1>2. ReportsStored' /\ StoredWasPosted' /\ RunningWasPosted'
    BY DEF IInv, ReportsStored, StoredWasPosted, RunningWasPosted
<1> QED
    BY <1>1, <1>2

LEMMA EnvironmentKeeps == IInv /\ Environment => IInv'
<1> SUFFICES ASSUME IInv, Environment PROVE IInv'
    OBVIOUS
<1> USE DEF IInv
<1>0. Typed' /\ created \in Nat
    BY EnvironmentTyped DEF Typed, TypeOK
<1>1. CASE EnqueueTask
  <2>1. /\ NewRow("task", 0)
        /\ UNCHANGED <<pc, held, toAgent, exec, toPanel, store, posted>>
    BY <1>1 DEF EnqueueTask, workVars, agentVars, histVars
  <2> QED
    BY <1>0, <2>1, NewRowKeeps, FrameKeeps
<1>2. CASE StartNode
  <2>1. UNCHANGED <<pc, held, toAgent, exec, toPanel, store, posted>>
    BY <1>2 DEF StartNode, workVars, agentVars
  <2>2. CASE Coalescible # {}
    <3>1. UNCHANGED <<created, status>>
      BY <1>2, <2>2 DEF StartNode
    <3> QED
      BY <1>0, <2>1, <3>1, FrameKeeps DEF RowsExist, SucceededWasStored
  <2>3. CASE Coalescible = {}
    <3>1. NewRow("apply_config", desired + 1)
      BY <1>2, <2>3 DEF StartNode
    <3> QED
      BY <1>0, <2>1, <3>1, NewRowKeeps, FrameKeeps
  <2> QED
    BY <2>2, <2>3
<1>3. CASE (\E i \in Ids : TaskDeadlinePasses(i)) \/ ConfigDeadlinePasses
  <2>1. UNCHANGED <<created, status, pc, held, toAgent, exec, toPanel, store, posted>>
    BY <1>3 DEF TaskDeadlinePasses, ConfigDeadlinePasses, workVars, agentVars, histVars
  <2> QED
    BY <1>0, <2>1, FrameKeeps DEF RowsExist, SucceededWasStored
<1>4. CASE \E s \in Sessions : ConnectionBreaks(s)
  <2>1. PICK s \in Sessions : ConnectionBreaks(s)
    BY <1>4
  <2>2. UNCHANGED <<created, status, pc, held, toAgent, exec, store, posted>>
    BY <2>1 DEF ConnectionBreaks, rowVars, workVars, histVars
  <2>3. PICK q \in Prefixes(toPanel[s]) : toPanel' = [toPanel EXCEPT ![s] = q]
    BY <2>1 DEF ConnectionBreaks
  <2>4. Elements(q) \subseteq Elements(toPanel[s])
    BY PrefixElements DEF Typed, TypeOK
  <2>5. ReportsStored'
    BY <2>2, <2>3, <2>4 DEF ReportsStored, Typed, TypeOK
  <2> QED
    BY <1>0, <2>2, <2>5
    DEF RowsExist, SucceededWasStored, InFlightExists, StoredWasPosted, RunningWasPosted
<1>5. CASE PanelRestarts
  <2>1. UNCHANGED <<created, status, toAgent, exec, store, posted>>
    BY <1>5 DEF PanelRestarts, rowVars, agentVars, histVars
  <2>2. InFlightExists'
    BY <1>5, <2>1 DEF PanelRestarts, InFlightExists
  <2>3. ReportsStored'
    BY <1>5 DEF PanelRestarts, ReportsStored, Elements
  <2> QED
    BY <1>0, <2>1, <2>2, <2>3
    DEF RowsExist, SucceededWasStored, StoredWasPosted, RunningWasPosted
<1>6. CASE AgentRestarts
  <2>1. UNCHANGED <<created, status, pc, held, store, posted>>
    BY <1>6 DEF AgentRestarts, rowVars, workVars, histVars
  <2>2. InFlightExists' /\ RunningWasPosted'
    BY <1>6, <2>1 DEF AgentRestarts, InFlightExists, RunningWasPosted, Elements
  <2>3. PICK s \in Sessions :
            \E q \in Prefixes(toPanel[s]) : toPanel' = [toPanel EXCEPT ![s] = q]
    BY <1>6 DEF AgentRestarts
  <2>4. PICK q \in Prefixes(toPanel[s]) : toPanel' = [toPanel EXCEPT ![s] = q]
    BY <2>3
  <2>5. Elements(q) \subseteq Elements(toPanel[s])
    BY PrefixElements DEF Typed, TypeOK
  <2>6. ReportsStored'
    BY <2>1, <2>4, <2>5 DEF ReportsStored, Typed, TypeOK
  <2> QED
    BY <1>0, <2>1, <2>2, <2>6 DEF RowsExist, SucceededWasStored, StoredWasPosted
<1> QED
    BY <1>1, <1>2, <1>3, <1>4, <1>5, <1>6 DEF Environment

LEMMA SessionStepsKeep ==
    ASSUME IInv, NEW s \in Sessions, SessionSteps(s)
    PROVE  IInv'
<1> USE DEF IInv
<1>1. Typed'
    BY SessionStepsTyped
<1>2. UNCHANGED <<created, status, pc, held, toAgent, exec, store, posted>>
    BY DEF SessionSteps, Connect, PanelNotices, AgentNotices, rowVars, workVars, agentVars,
           histVars
<1>3. ReportsStored'
  <2>1. CASE Connect(s)
    <3>1. toPanel' = [toPanel EXCEPT ![s] = <<Hello>>]
      BY <2>1 DEF Connect
    <3>2. \A m \in Elements(<<Hello>>) : ~Success(m)
      BY DEF Elements, Hello, Success
    <3> QED
      BY <1>2, <3>1, <3>2 DEF ReportsStored, Typed, TypeOK
  <2>2. CASE PanelNotices(s) \/ AgentNotices(s)
    BY <1>2, <2>2 DEF PanelNotices, AgentNotices, ReportsStored
  <2> QED
    BY <2>1, <2>2 DEF SessionSteps
<1> QED
    BY <1>1, <1>2, <1>3
    DEF RowsExist, SucceededWasStored, InFlightExists, StoredWasPosted, RunningWasPosted

LEMMA PipelineStepsKeep ==
    ASSUME IInv, NEW s \in Sessions, PipelineSteps(s)
    PROVE  IInv'
<1> USE DEF IInv
<1>1. Typed'
    BY PipelineStepsTyped
<1>2. UNCHANGED <<created, held, toAgent, exec, store, posted>>
    BY DEF PipelineSteps, HandleHello, HandleHeartbeat, HandleResult, rowVars, agentVars, histVars
<1>3. ASSUME NEW type, Received(s, type)
      PROVE  /\ ReportsStored'
             /\ Head(toPanel[s]) \in Elements(toPanel[s])
             /\ Head(toPanel[s]) \in ToPanel
  <2>1. toPanel[s] \in Seq(ToPanel) /\ toPanel[s] # <<>>
    BY <1>3 DEF Received, Typed, TypeOK
  <2>2. /\ Head(toPanel[s]) \in Elements(toPanel[s])
        /\ Elements(Tail(toPanel[s])) \subseteq Elements(toPanel[s])
    BY <2>1, TailElements
  <2>3. Head(toPanel[s]) \in ToPanel
    BY <2>1, <2>2, ElementsInSet
  <2>4. toPanel' = [toPanel EXCEPT ![s] = Tail(toPanel[s])]
    BY <1>3 DEF Received
  <2> QED
    BY <1>2, <2>2, <2>3, <2>4 DEF ReportsStored, Typed, TypeOK
<1>4. InFlightExists'
  <2>1. \A w \in Workers : pc'[w] \in {"claim", "send"} => pc[w] \in {"claim", "send"}
    BY DEF PipelineSteps, HandleHello, HandleHeartbeat, ReadsExpired, HandleResult, Typed, TypeOK,
           Workers
  <2> QED
    BY <1>2, <2>1 DEF InFlightExists
<1>5. RowsExist' /\ SucceededWasStored' /\ ReportsStored'
  <2>1. CASE HandleHello(s)
    <3>1. status' = AfterReset
      BY <2>1 DEF HandleHello
    <3> QED
      BY <1>2, <1>3, <2>1, <3>1
      DEF HandleHello, AfterReset, RowsExist, SucceededWasStored, Typed, TypeOK
  <2>2. CASE HandleHeartbeat(s)
    BY <1>2, <1>3, <2>2 DEF HandleHeartbeat, rowVars, RowsExist, SucceededWasStored
  <2>3. CASE HandleResult(s)
    <3> DEFINE m == Head(toPanel[s])
    <3>1. Received(s, "result") /\ m.type = "result" /\ m.id \in Ids
      BY <1>3, <2>3 DEF HandleResult, Received, ToPanel
    <3>2. CASE Acceptable(m.id)
      <4>1. PICK o \in Booked(m) : Complete(m.id, o) /\ Active(m.id)
        BY <2>3, <3>2 DEF HandleResult, Acceptable
      <4>2. o = "ok" => store[m.id] = "ok"
        BY <1>3, <3>1, <4>1 DEF ReportsStored, Success, Booked
      <4> QED
        BY <1>2, <1>3, <3>1, <4>1, <4>2, CompleteKeeps
    <3>3. CASE ~Acceptable(m.id)
      BY <1>2, <1>3, <2>3, <3>1, <3>3 DEF HandleResult, RowsExist, SucceededWasStored
    <3> QED
      BY <3>2, <3>3
  <2> QED
    BY <2>1, <2>2, <2>3 DEF PipelineSteps
<1> QED
    BY <1>1, <1>2, <1>4, <1>5 DEF StoredWasPosted, RunningWasPosted

LEMMA WorkerStepsKeep ==
    ASSUME IInv, NEW w \in Workers, WorkerSteps(w)
    PROVE  IInv'
<1> USE DEF IInv
<1>1. Typed'
    BY WorkerStepsTyped
<1>2. UNCHANGED <<created, toPanel, exec, store, posted>>
    BY DEF WorkerSteps, ScanExpired, FailExpired, PickReady, Claim, Send, rowVars, agentVars,
           histVars
<1>3. ReportsStored' /\ StoredWasPosted' /\ RunningWasPosted'
    BY <1>2 DEF ReportsStored, StoredWasPosted, RunningWasPosted
<1>4. CASE ScanExpired(w)
    BY <1>1, <1>2, <1>3, <1>4
    DEF ScanExpired, ReadsExpired, rowVars, RowsExist, SucceededWasStored, InFlightExists,
        Typed, TypeOK
<1>5. CASE FailExpired(w)
  <2>1. PICK i \in doomed[w] :
          /\ IF Active(i) THEN Complete(i, "deadline")
                          ELSE UNCHANGED <<status, errorCode, applied, lifecycle>>
          /\ pc' = [pc EXCEPT ![w] = IF doomed[w] = {i} THEN "pick" ELSE "expire"]
    BY <1>5 DEF FailExpired
  <2>2. i \in Ids
    BY DEF Typed, TypeOK
  <2>3. RowsExist' /\ SucceededWasStored'
    <3>1. CASE Active(i)
      BY <1>2, <2>1, <2>2, <3>1, CompleteKeeps
    <3>2. CASE ~Active(i)
      BY <1>2, <2>1, <3>2 DEF RowsExist, SucceededWasStored
    <3> QED
      BY <3>1, <3>2
  <2>4. InFlightExists'
    BY <1>2, <1>5, <2>1 DEF FailExpired, InFlightExists, Typed, TypeOK
  <2> QED
    BY <1>1, <1>3, <2>3, <2>4
<1>6. CASE PickReady(w)
  <2>1. UNCHANGED <<status, toAgent>>
    BY <1>6 DEF PickReady, rowVars
  <2>2. CASE Ready # {}
    <3>1. PICK i \in Ids :
            /\ First(i, Ready)
            /\ held' = [held EXCEPT ![w] = [id |-> i, rev |-> revision[i]]]
      BY <1>6, <2>2 DEF PickReady
    <3>2. i <= created
      BY <3>1 DEF First, Ready, Queued, RowsExist, Typed, TypeOK, Ids
    <3>3. held'[w].id = i /\ \A v \in Workers \ {w} : held'[v] = held[v] /\ pc'[v] = pc[v]
      BY <1>6, <2>2, <3>1 DEF PickReady, Typed, TypeOK
    <3>4. InFlightExists'
      BY <1>2, <2>1, <3>2, <3>3 DEF InFlightExists
    <3> QED
      BY <1>1, <1>2, <1>3, <2>1, <3>4 DEF RowsExist, SucceededWasStored
  <2>3. CASE Ready = {}
    BY <1>1, <1>2, <1>3, <1>6, <2>1, <2>3
    DEF PickReady, Finished, RowsExist, SucceededWasStored, InFlightExists, Typed, TypeOK
  <2> QED
    BY <2>2, <2>3
<1>7. CASE Claim(w)
  <2>1. toAgent' = toAgent
    BY <1>7 DEF Claim
  <2>2. CASE Claimable(held[w].id)
    <3>1. /\ status' = [status EXCEPT ![held[w].id] = "RUNNING"]
          /\ pc' = [pc EXCEPT ![w] = "send"]
          /\ held' = held
          /\ pc[w] = "claim"
      BY <1>7, <2>2 DEF Claim
    <3>2. RowsExist' /\ SucceededWasStored'
      BY <1>2, <2>2, <3>1 DEF Claimable, RowsExist, SucceededWasStored, Typed, TypeOK
    <3>3. InFlightExists'
      BY <1>2, <2>1, <3>1 DEF InFlightExists, Typed, TypeOK
    <3> QED
      BY <1>1, <1>3, <3>2, <3>3
  <2>3. CASE ~Claimable(held[w].id)
    <3>1. /\ UNCHANGED status
          /\ held' = [held EXCEPT ![w] = NoHeld]
          /\ pc' = [pc EXCEPT ![w] = "idle"]
      BY <1>7, <2>3 DEF Claim, Finished
    <3> QED
      BY <1>1, <1>2, <1>3, <2>1, <3>1
      DEF RowsExist, SucceededWasStored, InFlightExists, Typed, TypeOK
  <2> QED
    BY <2>2, <2>3
<1>8. CASE Send(w)
  <2>1. /\ held[w] \in Command /\ held[w].id <= created
        /\ UNCHANGED status
        /\ held' = [held EXCEPT ![w] = NoHeld]
        /\ pc' = [pc EXCEPT ![w] = "idle"]
    BY <1>8 DEF Send, Finished, rowVars, InFlightExists, Typed, HeldOK
  <2>2. \/ toAgent' = toAgent
        \/ \E s \in Sessions : toAgent' = [toAgent EXCEPT ![s] = Append(toAgent[s], held[w])]
    <3> DEFINE s == SendsOn(w)
    <3>1. CASE s \in Sessions
      BY <1>8, <3>1 DEF Send, Behind
    <3>2. CASE s \notin Sessions
      BY <1>8, <3>2 DEF Send, Typed, TypeOK
    <3> QED
      BY <3>1, <3>2
  <2>3. \A s \in Sessions : Elements(toAgent'[s]) \subseteq Elements(toAgent[s]) \cup {held[w]}
    <3>1. ASSUME NEW s \in Sessions
          PROVE  Elements(Append(toAgent[s], held[w])) = Elements(toAgent[s]) \cup {held[w]}
      BY <2>1, AppendElements DEF Typed, TypeOK
    <3> QED
      BY <2>2, <3>1 DEF Typed, TypeOK
  <2>4. InFlightExists'
    BY <1>2, <2>1, <2>3 DEF InFlightExists, Typed, TypeOK
  <2> QED
    BY <1>1, <1>2, <1>3, <2>1, <2>4 DEF RowsExist, SucceededWasStored
<1> QED
    BY <1>4, <1>5, <1>6, <1>7, <1>8 DEF WorkerSteps

LEMMA DispatchKeeps ==
    ASSUME IInv, NEW d \in Dispatchers, Dispatch(d)
    PROVE  IInv'
<1> USE DEF IInv
<1>1. UNCHANGED <<created, status, held, toAgent, toPanel, exec, store, posted>>
    BY DEF Dispatch, rowVars, agentVars, histVars
<1>2. \A w \in Workers : pc'[w] \in {"claim", "send"} => pc[w] \in {"claim", "send"}
    BY DEF Dispatch, ReadsExpired, Typed, TypeOK, Workers
<1>3. Typed'
    BY DispatchTyped
<1> QED
    BY <1>1, <1>2, <1>3
    DEF RowsExist, SucceededWasStored, InFlightExists, ReportsStored, StoredWasPosted,
        RunningWasPosted

LEMMA AnswerKeeps ==
    ASSUME IInv, NEW s \in Sessions, NEW i \in Ids, NEW o \in Outcomes,
           NEW q \in Seq(Command), Elements(q) \subseteq Elements(toAgent[s]),
           Answer(s, i, o, q),
           \A j \in Ids : store[j] = "ok" => store'[j] = "ok",
           o = "ok" => store'[i] = "ok"
    PROVE  /\ ReportsStored'
           /\ \A t \in Sessions : Elements(toAgent'[t]) \subseteq Elements(toAgent[t])
<1> USE DEF IInv, Typed, TypeOK
<1>1. Result(i, o) \in ToPanel
    BY DEF Result, ToPanel
<1>2. \A t \in Sessions : Elements(toPanel'[t]) \subseteq Elements(toPanel[t]) \cup {Result(i, o)}
  <2>1. Elements(Append(toPanel[s], Result(i, o))) = Elements(toPanel[s]) \cup {Result(i, o)}
    BY <1>1, AppendElements
  <2> QED
    BY <2>1 DEF Answer
<1>3. \A t \in Sessions : \A m \in Elements(toPanel[t]) : Success(m) => m.id \in Ids
  <2>1. \A t \in Sessions : Elements(toPanel[t]) \subseteq ToPanel
    BY ElementsInSet
  <2> QED
    BY <2>1 DEF ToPanel, Success
<1>4. Success(Result(i, o)) => store'[Result(i, o).id] = "ok"
    BY DEF Success, Result
<1>5. ReportsStored'
    BY <1>2, <1>3, <1>4 DEF ReportsStored
<1>6. Elements(<<>>) = {}
    BY DEF Elements
<1> QED
    BY <1>5, <1>6 DEF Answer

LEMMA AgentStepsKeep ==
    ASSUME IInv, NEW s \in Sessions, AgentSteps(s)
    PROVE  IInv'
<1> USE DEF IInv
<1> DEFINE c == Head(toAgent[s])
           e == exec[s]
<1>1. Typed'
    BY AgentStepsTyped
<1>2. /\ UNCHANGED <<created, status, pc, held>>
      /\ RowsExist'
    BY DEF AgentSteps, SendHeartbeat, Begin, StoreUnreadable, LoopReturns, Effect, Finish,
           StoreUnwritable, rowVars, workVars, RowsExist
<1>3. toAgent[s] # <<>> =>
          /\ Tail(toAgent[s]) \in Seq(Command)
          /\ Elements(Tail(toAgent[s])) \subseteq Elements(toAgent[s])
          /\ c.id \in Ids /\ c.id <= created
  <2>1. toAgent[s] # <<>> =>
          /\ Tail(toAgent[s]) \in Seq(Command)
          /\ Elements(Tail(toAgent[s])) \subseteq Elements(toAgent[s])
          /\ c \in Elements(toAgent[s]) /\ c \in Command
    BY TailElements, ElementsInSet DEF Typed, TypeOK
  <2> QED
    BY <2>1 DEF InFlightExists, Command
<1>4. e # Idle => e.id \in Ids /\ e.id <= created
    BY DEF Typed, TypeOK, InFlightExists
<1>5. "refused" \in Outcomes /\ StoredOutcomes \subseteq Outcomes /\ "refused" # "ok"
    BY DEF Outcomes
<1>6. CASE SendHeartbeat(s)
  <2>1. UNCHANGED <<toAgent, exec, store, posted>>
    BY <1>6 DEF SendHeartbeat, agentVars, histVars
  <2>2. ReportsStored'
    <3>1. toPanel' = [toPanel EXCEPT ![s] = Append(toPanel[s], Heartbeat)]
      BY <1>6 DEF SendHeartbeat
    <3>2. Heartbeat \in ToPanel /\ ~Success(Heartbeat)
      BY DEF Heartbeat, ToPanel, Success
    <3>3. Elements(Append(toPanel[s], Heartbeat)) = Elements(toPanel[s]) \cup {Heartbeat}
      BY <3>2, AppendElements DEF Typed, TypeOK
    <3> QED
      BY <2>1, <3>1, <3>2, <3>3 DEF ReportsStored, Typed, TypeOK
  <2> QED
    BY <1>1, <1>2, <2>1, <2>2
    DEF InFlightExists, StoredWasPosted, RunningWasPosted, SucceededWasStored
<1>7. CASE Begin(s)
  <2>1. UNCHANGED <<store, posted>> /\ toAgent[s] # <<>>
    BY <1>7 DEF Begin, histVars
  <2>2. CASE exec' = exec /\ \E o \in Outcomes : /\ o = "ok" => store[c.id] = "ok"
                                              /\ Answer(s, c.id, o, Tail(toAgent[s]))
    <3>1. /\ ReportsStored'
          /\ \A t \in Sessions : Elements(toAgent'[t]) \subseteq Elements(toAgent[t])
      BY <1>3, <2>1, <2>2, AnswerKeeps
    <3> QED
      BY <1>1, <1>2, <2>1, <2>2, <3>1
      DEF InFlightExists, StoredWasPosted, RunningWasPosted, SucceededWasStored
  <2>3. CASE /\ exec' = [exec EXCEPT ![s] = [id |-> c.id, rev |-> c.rev, posted |-> FALSE]]
             /\ toAgent' = [toAgent EXCEPT ![s] = Tail(toAgent[s])]
             /\ toPanel' = toPanel
    <3>1. InFlightExists'
      BY <1>2, <1>3, <2>1, <2>3 DEF InFlightExists, Typed, TypeOK
    <3>2. ReportsStored' /\ StoredWasPosted' /\ SucceededWasStored'
      BY <1>2, <2>1, <2>3 DEF ReportsStored, StoredWasPosted, SucceededWasStored
    <3>3. RunningWasPosted'
      BY <2>1, <2>3 DEF RunningWasPosted, Typed, TypeOK
    <3> QED
      BY <1>1, <1>2, <3>1, <3>2, <3>3
  <2>4. CASE Late(c.id, c.rev)
    BY <1>5, <1>7, <2>2, <2>4 DEF Begin
  <2>5. CASE ~Late(c.id, c.rev) /\ Replayed(c.id)
    <3>1. store[c.id] \in Outcomes
      BY <1>3, <1>5, <2>1, <2>5 DEF Replayed, Typed, TypeOK
    <3> QED
      BY <1>7, <2>2, <2>5, <3>1 DEF Begin
  <2>6. CASE ~Late(c.id, c.rev) /\ ~Replayed(c.id)
    BY <1>7, <2>3, <2>6 DEF Begin
  <2> QED
    BY <2>4, <2>5, <2>6
<1>8. CASE StoreUnreadable(s)
  <2>1. UNCHANGED <<exec, store, posted>> /\ toAgent[s] # <<>>
    BY <1>8 DEF StoreUnreadable, agentVars, histVars
  <2>2. /\ ReportsStored'
        /\ \A t \in Sessions : Elements(toAgent'[t]) \subseteq Elements(toAgent[t])
    BY <1>3, <1>5, <1>8, <2>1, AnswerKeeps DEF StoreUnreadable
  <2> QED
    BY <1>1, <1>2, <2>1, <2>2
    DEF InFlightExists, StoredWasPosted, RunningWasPosted, SucceededWasStored
<1>9. CASE LoopReturns(s)
  <2>1. /\ UNCHANGED <<exec, store, posted, toPanel>>
        /\ \A t \in Sessions : Elements(toAgent'[t]) \subseteq Elements(toAgent[t])
    BY <1>9 DEF LoopReturns, agentVars, histVars, Elements, Typed, TypeOK
  <2> QED
    BY <1>1, <1>2, <2>1
    DEF InFlightExists, ReportsStored, StoredWasPosted, RunningWasPosted, SucceededWasStored
<1>10. CASE Effect(s)
  <2>1. /\ UNCHANGED <<toAgent, toPanel, store>>
        /\ e # Idle
        /\ exec' = [exec EXCEPT ![s] = [e EXCEPT !.posted = TRUE]]
        /\ posted' = [posted EXCEPT ![e.id] = posted[e.id] \cup {e.rev}]
    BY <1>10 DEF Effect
  <2>2. \A i \in Ids : posted[i] # {} => posted'[i] # {}
    BY <1>4, <2>1 DEF Typed, TypeOK
  <2>3. posted'[e.id] # {}
    BY <1>4, <2>1 DEF Typed, TypeOK
  <2>4. exec'[s].id = e.id /\ \A t \in Sessions \ {s} : exec'[t] = exec[t]
    BY <2>1 DEF Typed, TypeOK
  <2>5. \A t \in Sessions : exec[t] # Idle => exec[t].id \in Ids
    BY DEF Typed, TypeOK
  <2>6. RunningWasPosted'
    BY <2>2, <2>3, <2>4, <2>5 DEF RunningWasPosted
  <2>7. InFlightExists'
    BY <1>2, <1>4, <2>1, <2>4 DEF InFlightExists
  <2> QED
    BY <1>1, <1>2, <2>1, <2>2, <2>6, <2>7
    DEF ReportsStored, StoredWasPosted, SucceededWasStored
<1>11. CASE Finish(s)
  <2>1. PICK o \in Endings(s) :
          /\ store' = [store EXCEPT ![e.id] = Kept(e.id, o)]
          /\ Answer(s, e.id, Reported(e.id, o), toAgent[s])
    BY <1>11 DEF Finish
  <2>2. /\ e # Idle /\ UNCHANGED posted
        /\ exec' = [exec EXCEPT ![s] = Idle]
    BY <1>11 DEF Finish, histVars
  <2>3. /\ Reported(e.id, o) = Kept(e.id, o)
        /\ Kept(e.id, o) \in StoredOutcomes
        /\ Kept(e.id, o) = "ok" => store[e.id] = "ok" \/ e.posted
    BY <1>4, <2>2 DEF Reported, Kept, Endings, Typed, TypeOK
  <2>4. /\ store'[e.id] = Kept(e.id, o)
        /\ \A j \in Ids \ {e.id} : store'[j] = store[j]
        /\ \A j \in Ids : store[j] = "ok" => store'[j] = "ok"
    BY <1>4, <2>1, <2>2 DEF Kept, Typed, TypeOK
  <2>5. /\ ReportsStored'
        /\ \A t \in Sessions : Elements(toAgent'[t]) \subseteq Elements(toAgent[t])
    BY <1>4, <1>5, <2>1, <2>2, <2>3, <2>4, AnswerKeeps DEF Typed, TypeOK
  <2>6. StoredWasPosted'
    BY <1>4, <2>2, <2>3, <2>4 DEF StoredWasPosted, RunningWasPosted
  <2>7. RunningWasPosted' /\ InFlightExists'
    BY <1>2, <2>2, <2>5 DEF RunningWasPosted, InFlightExists, Typed, TypeOK
  <2>8. SucceededWasStored'
    BY <1>2, <2>4 DEF SucceededWasStored
  <2> QED
    BY <1>1, <1>2, <2>5, <2>6, <2>7, <2>8
<1>12. CASE StoreUnwritable(s)
  <2>1. /\ e # Idle /\ UNCHANGED <<store, posted>>
        /\ exec' = [exec EXCEPT ![s] = Idle]
        /\ Answer(s, e.id, "refused", toAgent[s])
    BY <1>12 DEF StoreUnwritable, histVars
  <2>2. /\ ReportsStored'
        /\ \A t \in Sessions : Elements(toAgent'[t]) \subseteq Elements(toAgent[t])
    BY <1>4, <1>5, <2>1, AnswerKeeps DEF Typed, TypeOK
  <2> QED
    BY <1>1, <1>2, <2>1, <2>2
    DEF InFlightExists, StoredWasPosted, RunningWasPosted, SucceededWasStored, Typed, TypeOK
<1> QED
    BY <1>6, <1>7, <1>8, <1>9, <1>10, <1>11, <1>12 DEF AgentSteps

LEMMA StutterKeeps == IInv /\ UNCHANGED vars => IInv'
<1> SUFFICES ASSUME IInv, UNCHANGED vars PROVE IInv'
    OBVIOUS
<1>1. Typed'
    BY StutterTyped DEF IInv
<1> QED
    BY <1>1
    DEF vars, IInv, RowsExist, InFlightExists, ReportsStored, StoredWasPosted,
        RunningWasPosted, SucceededWasStored

LEMMA NextKeeps == IInv /\ [Next]_vars => IInv'
<1> SUFFICES ASSUME IInv, Next PROVE IInv'
    BY StutterKeeps
<1> QED
    BY EnvironmentKeeps, SessionStepsKeep, PipelineStepsKeep, WorkerStepsKeep,
       DispatchKeeps, AgentStepsKeep
    DEF Next

LEMMA Invariance == Spec => []IInv
<1> QED
    BY IInvInit, NextKeeps, PTL DEF Spec

(* A row is reported SUCCEEDED only if the Agent ran its handler to the    *)
(* end, with its effect, and recorded the success, however the sessions,   *)
(* workers and faults interleave.                                          *)
THEOREM SucceededOnlyIfDone == Spec => []SucceededWasDone
<1>1. IInv => SucceededWasDone
    BY DEF IInv, SucceededWasStored, StoredWasPosted, SucceededWasDone
<1> QED
    BY <1>1, Invariance, PTL

-----------------------------------------------------------------------------
(* The rows implement the durable command queue.                           *)
Stored == {i \in Ids : store[i] = "ok"}

LEMMA QueueInit == Init => Queue!CInit
BY DEF Init, Queue!CInit, Phase

LEMMA Stutter ==
    ASSUME \A i \in Ids : Phase(i)' = Phase(i), Stored' = Stored
    PROVE  UNCHANGED Queue!cvars
BY DEF Queue!cvars, Stored

LEMMA NewRowSubmits ==
    ASSUME IInv, NEW k, NEW r, NewRow(k, r), store' = store
    PROVE  Queue!CNext
<1>1. PICK i \in Ids : i = created + 1
    BY BoundAssumption DEF NewRow, Ids, IInv, Typed, TypeOK
<1>2. status[i] = "NONE"
    BY <1>1 DEF IInv, RowsExist, Typed, TypeOK
<1>3. status'[i] = "QUEUED" /\ \A j \in Ids \ {i} : status'[j] = status[j]
    BY <1>1 DEF NewRow, IInv, Typed, TypeOK
<1>4. Phase(i) = "absent" /\ Phase(i)' = "pending"
    BY <1>2, <1>3 DEF Phase
<1>5. \A j \in Ids \ {i} : Phase(j)' = Phase(j)
    BY <1>3 DEF Phase
<1>6. Queue!Submit(i)
    BY <1>1, <1>4, <1>5 DEF Queue!Submit
<1> QED
    BY <1>1, <1>6 DEF Queue!CNext

LEMMA CompleteEnds ==
    ASSUME IInv, NEW i \in Ids, NEW o, Complete(i, o), Active(i),
           o = "ok" => store[i] = "ok", store' = store
    PROVE  Queue!CNext
<1> USE DEF IInv, Typed, TypeOK
<1>1. Phase(i) = "pending"
    BY DEF Phase, Active
<1>2. CASE o = "ok"
  <2>1. status'[i] = "SUCCEEDED" /\ \A j \in Ids \ {i} : status'[j] = status[j]
    BY <1>2 DEF Complete
  <2>2. Phase(i)' = "succeeded" /\ \A j \in Ids \ {i} : Phase(j)' = Phase(j)
    BY <2>1 DEF Phase
  <2>3. Queue!Succeed(i)
    BY <1>1, <1>2, <2>2 DEF Queue!Succeed
  <2> QED
    BY <2>3 DEF Queue!CNext
<1>3. CASE o # "ok"
  <2> DEFINE D == CancelledBy(i, o)
  <2>1. D \subseteq Ids \ {i} /\ \A j \in D : status[j] = "QUEUED"
    BY DEF CancelledBy, QueuedConfigs, Queued
  <2>2. /\ status'[i] = "FAILED"
        /\ \A j \in D : status'[j] = "CANCELLED"
        /\ \A j \in Ids \ {i} : j \notin D => status'[j] = status[j]
    BY <1>3, <2>1 DEF Complete
  <2>3. /\ Phase(i)' = "failed"
        /\ \A j \in D : Phase(j) = "pending" /\ Phase(j)' = "cancelled"
        /\ \A j \in Ids \ {i} : j \notin D => Phase(j)' = Phase(j)
    BY <2>1, <2>2 DEF Phase
  <2>4. D \in SUBSET {j \in Ids \ {i} : [k \in Ids |-> Phase(k)][j] = "pending"}
    BY <2>1, <2>3
  <2>5. [j \in Ids |-> Phase(j)'] = [j \in Ids |-> IF j = i THEN "failed"
                                                   ELSE IF j \in D THEN "cancelled"
                                                   ELSE [k \in Ids |-> Phase(k)][j]]
    BY <2>1, <2>3
  <2>6. Stored' = Stored
    BY DEF Stored
  <2>7. Queue!Fail(i)
    BY <1>1, <2>4, <2>5, <2>6, Zenon DEF Queue!Fail, Stored
  <2> QED
    BY <2>7 DEF Queue!CNext
<1> QED
    BY <1>2, <1>3

LEMMA FinishPerforms ==
    ASSUME IInv, NEW s \in Sessions, Finish(s)
    PROVE  Queue!CNext \/ UNCHANGED Queue!cvars
<1> USE DEF IInv, Typed, TypeOK
<1>1. PICK i \in Ids : i = exec[s].id /\ i <= created
    BY DEF Finish, InFlightExists
<1>2. status' = status
    BY DEF Finish, rowVars
<1>3. \A j \in Ids : Phase(j)' = Phase(j)
    BY <1>2 DEF Phase
<1>4. PICK o \in Endings(s) : store' = [store EXCEPT ![i] = Kept(i, o)]
    BY <1>1 DEF Finish
<1>5. Phase(i) # "absent"
  <2>1. status[i] # "NONE" /\ status[i] \in Statuses
    BY <1>1, BoundAssumption DEF RowsExist, Ids
  <2> QED
    BY <2>1 DEF Phase, Statuses
<1>6. CASE Kept(i, o) = "ok"
  <2>1. Stored' = Stored \cup {i}
    BY <1>1, <1>4, <1>6 DEF Stored
  <2>2. Queue!Perform(i)
    BY <1>1, <1>3, <1>5, <2>1 DEF Queue!Perform, Stored
  <2> QED
    BY <1>1, <2>2 DEF Queue!CNext
<1>7. CASE Kept(i, o) # "ok"
  <2>1. Stored' = Stored
    BY <1>1, <1>4, <1>7 DEF Stored, Kept
  <2> QED
    BY <1>3, <2>1, Stutter
<1> QED
    BY <1>6, <1>7

LEMMA StepImplements == IInv /\ [Next]_vars => [Queue!CNext]_(Queue!cvars)
<1> SUFFICES ASSUME IInv, [Next]_vars PROVE Queue!CNext \/ UNCHANGED Queue!cvars
    OBVIOUS
<1> USE DEF IInv
<1>1. ASSUME UNCHANGED <<status, store>> PROVE UNCHANGED Queue!cvars
  <2>1. Stored' = Stored /\ \A i \in Ids : Phase(i)' = Phase(i)
    BY <1>1 DEF Stored, Phase
  <2> QED
    BY <2>1, Stutter
<1>2. ASSUME store' = store,
             \A i \in Ids : \/ status'[i] = status[i]
                            \/ Active(i) /\ status'[i] \in {"QUEUED", "RUNNING"}
      PROVE  UNCHANGED Queue!cvars
  <2>1. \A i \in Ids : Phase(i)' = Phase(i)
    BY <1>2 DEF Phase, Active
  <2>2. Stored' = Stored
    BY <1>2 DEF Stored
  <2> QED
    BY <2>1, <2>2, Stutter
<1>3. CASE EnqueueTask
    BY <1>3, NewRowSubmits DEF EnqueueTask, agentVars
<1>4. CASE StartNode
  <2>1. store' = store
    BY <1>4 DEF StartNode, agentVars
  <2>2. CASE Coalescible # {}
    BY <1>1, <1>4, <2>1, <2>2 DEF StartNode
  <2>3. CASE Coalescible = {}
    BY <1>4, <2>1, <2>3, NewRowSubmits DEF StartNode
  <2> QED
    BY <2>2, <2>3
<1>5. CASE \/ \E i \in Ids : TaskDeadlinePasses(i)
           \/ ConfigDeadlinePasses
           \/ \E s \in Sessions : ConnectionBreaks(s)
           \/ PanelRestarts
           \/ AgentRestarts
  <2>1. UNCHANGED <<status, store>>
    BY <1>5 DEF TaskDeadlinePasses, ConfigDeadlinePasses, ConnectionBreaks, PanelRestarts,
                AgentRestarts, rowVars, agentVars
  <2> QED
    BY <1>1, <2>1
<1>6. CASE \/ \E d \in Dispatchers : Dispatch(d)
           \/ \E s \in Sessions : SessionSteps(s)
  <2>1. UNCHANGED <<status, store>>
    BY <1>6 DEF Dispatch, SessionSteps, Connect, PanelNotices, AgentNotices, rowVars, agentVars
  <2> QED
    BY <1>1, <2>1
<1>7. ASSUME NEW s \in Sessions, PipelineSteps(s)
      PROVE  Queue!CNext \/ UNCHANGED Queue!cvars
  <2>1. store' = store
    BY <1>7 DEF PipelineSteps, HandleHello, HandleHeartbeat, HandleResult, agentVars
  <2>2. CASE HandleHello(s)
    <3>1. \A i \in Ids : \/ status'[i] = status[i]
                         \/ Active(i) /\ status'[i] = "QUEUED"
      <4>1. status' = AfterReset
        BY <2>2 DEF HandleHello
      <4>2. \A i \in Ids : status'[i] = IF status[i] = "RUNNING" THEN "QUEUED" ELSE status[i]
        BY <4>1 DEF AfterReset
      <4> QED
        BY <4>2 DEF Active
    <3> QED
      BY <1>2, <2>1, <3>1
  <2>3. CASE HandleHeartbeat(s)
    BY <1>1, <2>1, <2>3 DEF HandleHeartbeat, rowVars
  <2>4. CASE HandleResult(s)
    <3> DEFINE m == Head(toPanel[s])
    <3>1. /\ m.type = "result" /\ m.id \in Ids
          /\ m.outcome = "ok" => store[m.id] = "ok"
      <4>1. toPanel[s] \in Seq(ToPanel) /\ toPanel[s] # <<>> /\ m.type = "result"
        BY <2>4 DEF HandleResult, Received, Typed, TypeOK
      <4>2. m \in Elements(toPanel[s]) /\ m \in ToPanel
        BY <4>1, TailElements, ElementsInSet
      <4> QED
        BY <4>1, <4>2 DEF ToPanel, ReportsStored, Success
    <3>2. CASE Acceptable(m.id)
      <4>1. PICK o \in Booked(m) : Complete(m.id, o) /\ Active(m.id)
        BY <2>4, <3>2 DEF HandleResult, Acceptable
      <4>2. o = "ok" => store[m.id] = "ok"
        BY <3>1, <4>1 DEF Booked
      <4> QED
        BY <2>1, <3>1, <4>1, <4>2, CompleteEnds
    <3>3. CASE ~Acceptable(m.id)
      BY <1>1, <2>1, <2>4, <3>3 DEF HandleResult
    <3> QED
      BY <3>2, <3>3
  <2> QED
    BY <1>7, <2>2, <2>3, <2>4 DEF PipelineSteps
<1>8. ASSUME NEW w \in Workers, WorkerSteps(w)
      PROVE  Queue!CNext \/ UNCHANGED Queue!cvars
  <2>1. store' = store
    BY <1>8 DEF WorkerSteps, ScanExpired, FailExpired, PickReady, Claim, Send, agentVars
  <2>2. CASE ScanExpired(w) \/ PickReady(w) \/ Send(w)
    BY <1>1, <2>1, <2>2 DEF ScanExpired, PickReady, Send, rowVars
  <2>3. CASE FailExpired(w)
    <3>1. PICK i \in doomed[w] :
            IF Active(i) THEN Complete(i, "deadline")
                         ELSE UNCHANGED <<status, errorCode, applied, lifecycle>>
      BY <2>3 DEF FailExpired
    <3>2. i \in Ids
      BY DEF Typed, TypeOK
    <3>3. CASE Active(i)
      BY <2>1, <3>1, <3>2, <3>3, CompleteEnds
    <3>4. CASE ~Active(i)
      BY <1>1, <2>1, <3>1, <3>4
    <3> QED
      BY <3>3, <3>4
  <2>4. CASE Claim(w)
    <3>1. \A i \in Ids : \/ status'[i] = status[i]
                         \/ Active(i) /\ status'[i] = "RUNNING"
      <4>1. CASE Claimable(held[w].id)
        <5>1. status' = [status EXCEPT ![held[w].id] = "RUNNING"]
          BY <2>4, <4>1 DEF Claim
        <5>2. status \in [Ids -> Statuses] /\ status[held[w].id] = "QUEUED"
          BY <4>1 DEF Claimable, Typed, TypeOK
        <5> QED
          BY <5>1, <5>2 DEF Active
      <4>2. CASE ~Claimable(held[w].id)
        BY <2>4, <4>2 DEF Claim
      <4> QED
        BY <4>1, <4>2
    <3> QED
      BY <1>2, <2>1, <3>1
  <2> QED
    BY <1>8, <2>2, <2>3, <2>4 DEF WorkerSteps
<1>9. ASSUME NEW s \in Sessions, AgentSteps(s)
      PROVE  Queue!CNext \/ UNCHANGED Queue!cvars
  <2>1. CASE Finish(s)
    BY <2>1, FinishPerforms
  <2>2. CASE ~Finish(s)
    <3>1. UNCHANGED <<status, store>>
      BY <1>9, <2>2 DEF AgentSteps, SendHeartbeat, Begin, StoreUnreadable, LoopReturns, Effect,
                       StoreUnwritable, rowVars, agentVars
    <3> QED
      BY <1>1, <3>1
  <2> QED
    BY <2>1, <2>2
<1>10. CASE UNCHANGED vars
    BY <1>1, <1>10 DEF vars
<1> QED
    BY <1>3, <1>4, <1>5, <1>6, <1>7, <1>8, <1>9, <1>10 DEF Next, Environment

(* The command rows, with the Agent's store, implement the queue promised  *)
(* to provisioning: one outcome per command, never changed, and success    *)
(* only for work that was done and recorded.                               *)
THEOREM ImplementsQueue == Spec => QueueSpec
<1> QED
    BY QueueInit, StepImplements, Invariance, PTL DEF Spec, QueueSpec, Queue!CSpec

-----------------------------------------------------------------------------
(* Panel and Agent agree: every report that is under way, other than a     *)
(* refusal, is what the store holds; so is the reason of a failed row,     *)
(* unless it is its deadline, a refusal or an unfit host.                  *)
Agrees(m) == m.type = "result" => m.outcome = "refused" \/ store[m.id] = m.outcome

ReportsAgree == \A s \in Sessions : \A m \in Elements(toPanel[s]) : Agrees(m)

Explained(i) == \/ errorCode[i] \in {"deadline", "refused"}
                \/ errorCode[i] \notin {"ok", "none"} /\ store[i] = errorCode[i]
                \/ errorCode[i] = "unfit" /\ store[i] = "ok"

FailuresAgree == \A i \in Ids : status[i] = "FAILED" => Explained(i)

(* What the store holds is never replaced.                                 *)
LEMMA StoreIsKept ==
    ASSUME IInv, [Next]_vars, NEW i \in Ids, store[i] # "none"
    PROVE  store'[i] = store[i]
<1>1. CASE \E s \in Sessions : Finish(s)
    BY <1>1 DEF Finish, Kept, IInv, Typed, TypeOK
<1>2. CASE ~\E s \in Sessions : Finish(s)
  <2>1. store' = store
    BY <1>2 DEF Next, Environment, EnqueueTask, StartNode, TaskDeadlinePasses, ConfigDeadlinePasses,
        ConnectionBreaks, PanelRestarts, AgentRestarts, Dispatch, SessionSteps, Connect,
        PanelNotices, AgentNotices, PipelineSteps, HandleHello, HandleHeartbeat, HandleResult,
        WorkerSteps, ScanExpired, FailExpired, PickReady, Claim, Send, AgentSteps, SendHeartbeat,
        Begin, StoreUnreadable, LoopReturns, Effect, StoreUnwritable, agentVars, vars
  <2> QED
    BY <2>1
<1> QED
    BY <1>1, <1>2

(* The message a pipeline takes is one of its queue's.                     *)
LEMMA TakenFromQueue ==
    ASSUME IInv, NEW s \in Sessions, NEW type, Received(s, type)
    PROVE  /\ Head(toPanel[s]) \in Elements(toPanel[s])
           /\ Head(toPanel[s]) \in ToPanel
           /\ \A t \in Sessions : Elements(toPanel'[t]) \subseteq Elements(toPanel[t])
<1> USE DEF IInv, Typed, TypeOK
<1>1. toPanel[s] \in Seq(ToPanel) /\ toPanel[s] # <<>>
    BY DEF Received
<1>2. /\ Head(toPanel[s]) \in Elements(toPanel[s])
      /\ Elements(Tail(toPanel[s])) \subseteq Elements(toPanel[s])
      /\ Elements(toPanel[s]) \subseteq ToPanel
    BY <1>1, TailElements, ElementsInSet
<1>3. toPanel' = [toPanel EXCEPT ![s] = Tail(toPanel[s])]
    BY DEF Received
<1> QED
    BY <1>2, <1>3

(* An answer adds at most one message to one queue.                        *)
LEMMA AnswerAdds ==
    ASSUME IInv, NEW s \in Sessions, NEW i \in Ids, NEW o \in Outcomes, NEW q, Answer(s, i, o, q)
    PROVE  \A t \in Sessions : Elements(toPanel'[t]) \subseteq Elements(toPanel[t]) \cup {Result(i, o)}
<1> USE DEF IInv, Typed, TypeOK
<1>1. Result(i, o) \in ToPanel
    BY DEF Result, ToPanel
<1>2. Elements(Append(toPanel[s], Result(i, o))) = Elements(toPanel[s]) \cup {Result(i, o)}
    BY <1>1, AppendElements
<1> QED
    BY <1>2 DEF Answer

(* A message that is new in a queue agrees with the store.                 *)
LEMMA NewReportsAgree ==
    ASSUME IInv, Next, NEW s \in Sessions, NEW m \in Elements(toPanel'[s]),
           m \notin Elements(toPanel[s])
    PROVE  m.type = "result" => m.outcome = "refused" \/ store'[m.id] = m.outcome
<1> USE DEF IInv, Typed, TypeOK
<1>1. CASE Environment
  <2>1. ASSUME NEW t \in Sessions, NEW q \in Prefixes(toPanel[t]),
               toPanel' = [toPanel EXCEPT ![t] = q]
        PROVE  FALSE
    <3>1. Elements(q) \subseteq Elements(toPanel[t])
      BY PrefixElements
    <3> QED
      BY <2>1, <3>1
  <2>2. toPanel'[s] # <<>>
    BY DEF Elements
  <2> QED
    BY <1>1, <2>1, <2>2
    DEF Environment, EnqueueTask, StartNode, TaskDeadlinePasses, ConfigDeadlinePasses,
        ConnectionBreaks, PanelRestarts, AgentRestarts
<1>2. ASSUME NEW d \in Dispatchers, Dispatch(d) PROVE FALSE
    BY <1>2 DEF Dispatch
<1>3. ASSUME NEW w \in Workers, WorkerSteps(w) PROVE FALSE
    BY <1>3 DEF WorkerSteps, ScanExpired, FailExpired, PickReady, Claim, Send, rowVars
<1>4. ASSUME NEW t \in Sessions, SessionSteps(t) PROVE m = Hello
  <2>1. \A x \in Elements(<<Hello>>) : x = Hello
    BY DEF Elements
  <2> QED
    BY <1>4, <2>1 DEF SessionSteps, Connect, PanelNotices, AgentNotices
<1>5. ASSUME NEW t \in Sessions, PipelineSteps(t) PROVE FALSE
    BY <1>5, TakenFromQueue DEF PipelineSteps, HandleHello, HandleHeartbeat, HandleResult
<1>6. ASSUME NEW t \in Sessions, AgentSteps(t)
      PROVE  \/ m = Heartbeat
             \/ \E i \in Ids, o \in Outcomes : /\ m = Result(i, o)
                                               /\ o = "refused" \/ store'[i] = o
  <2>1. CASE SendHeartbeat(t)
    <3>1. Elements(Append(toPanel[t], Heartbeat)) = Elements(toPanel[t]) \cup {Heartbeat}
      <4>1. Heartbeat \in ToPanel
        BY DEF Heartbeat, ToPanel
      <4> QED
        BY <4>1, AppendElements
    <3> QED
      BY <2>1, <3>1 DEF SendHeartbeat
  <2>2. CASE Begin(t) \/ StoreUnreadable(t)
    <3> DEFINE i == Head(toAgent[t]).id
    <3>1. i \in Ids
      <4>1. Head(toAgent[t]) \in Command
        BY <2>2, TailElements, ElementsInSet DEF Begin, StoreUnreadable
      <4> QED
        BY <4>1 DEF Command
    <3>2. store' = store /\ "refused" \in Outcomes
      BY <2>2 DEF Begin, StoreUnreadable, agentVars, Outcomes
    <3>3. \E o \in Outcomes : /\ o = "refused" \/ store'[i] = o
                              /\ Answer(t, i, o, Tail(toAgent[t]))
      <4>1. CASE StoreUnreadable(t) \/ Late(i, Head(toAgent[t]).rev)
        BY <2>2, <3>2, <4>1 DEF Begin, StoreUnreadable
      <4>2. CASE Begin(t) /\ ~Late(i, Head(toAgent[t]).rev)
        <5>1. Replayed(i)
          BY <4>2 DEF Begin
        <5>2. store[i] \in Outcomes
          BY <3>1, <5>1 DEF Replayed, Outcomes
        <5> QED
          BY <3>2, <4>2, <5>1, <5>2 DEF Begin
      <4> QED
        BY <2>2, <4>1, <4>2
    <3> QED
      BY <3>1, <3>3, AnswerAdds
  <2>3. CASE LoopReturns(t) \/ Effect(t)
    BY <2>3 DEF LoopReturns, Effect
  <2>4. CASE Finish(t)
    <3>1. exec[t].id \in Ids
      BY <2>4 DEF Finish
    <3>2. PICK o \in Endings(t) :
            /\ store' = [store EXCEPT ![exec[t].id] = Kept(exec[t].id, o)]
            /\ Answer(t, exec[t].id, Reported(exec[t].id, o), toAgent[t])
      BY <2>4 DEF Finish
    <3>3. /\ Reported(exec[t].id, o) = store'[exec[t].id]
          /\ Reported(exec[t].id, o) \in Outcomes
      BY <3>1, <3>2 DEF Kept, Reported, Endings, Outcomes
    <3> QED
      BY <3>1, <3>2, <3>3, AnswerAdds
  <2>5. CASE StoreUnwritable(t)
    <3>1. exec[t].id \in Ids /\ "refused" \in Outcomes
      BY <2>5 DEF StoreUnwritable, Outcomes
    <3> QED
      BY <2>5, <3>1, AnswerAdds DEF StoreUnwritable
  <2> QED
    BY <1>6, <2>1, <2>2, <2>3, <2>4, <2>5 DEF AgentSteps
<1> QED
    BY <1>1, <1>2, <1>3, <1>4, <1>5, <1>6 DEF Next, Hello, Heartbeat, Result

LEMMA CompleteAgrees ==
    ASSUME IInv, FailuresAgree, NEW i \in Ids, NEW o, Complete(i, o), Active(i), store' = store,
           \/ o \in {"ok", "deadline", "refused"}
           \/ o # "none" /\ store[i] = o
           \/ o = "unfit" /\ store[i] = "ok"
    PROVE  FailuresAgree'
<1> USE DEF IInv, Typed, TypeOK
<1>1. ASSUME NEW j \in Ids, status'[j] = "FAILED"
      PROVE  \/ j = i /\ o # "ok" /\ errorCode'[j] = o
             \/ status[j] = "FAILED" /\ errorCode'[j] = errorCode[j]
  <2>1. CASE o = "ok"
    BY <1>1, <2>1 DEF Complete
  <2>2. CASE o # "ok"
    <3>1. j \in CancelledBy(i, o) => j # i
      BY DEF CancelledBy
    <3>2. /\ status'[j] = IF j = i THEN "FAILED"
                          ELSE IF j \in CancelledBy(i, o) THEN "CANCELLED" ELSE status[j]
          /\ errorCode'[j] = IF j = i THEN o
                             ELSE IF j \in CancelledBy(i, o) THEN "dependency" ELSE errorCode[j]
      BY <2>2 DEF Complete
    <3> QED
      BY ZenonT(20), <1>1, <2>2, <3>1, <3>2
  <2> QED
    BY <2>1, <2>2
<1> QED
    BY <1>1 DEF FailuresAgree, Explained

LEMMA FailuresKeep ==
    ASSUME IInv, ReportsAgree, FailuresAgree, [Next]_vars
    PROVE  FailuresAgree'
<1> USE DEF IInv
<1>1. ASSUME \A i \in Ids : status'[i] = "FAILED" => status[i] = "FAILED",
             errorCode' = errorCode
      PROVE  FailuresAgree'
    BY <1>1, StoreIsKept DEF FailuresAgree, Explained
<1>2. CASE \/ UNCHANGED vars
           \/ Environment
           \/ \E d \in Dispatchers : Dispatch(d)
           \/ \E s \in Sessions : SessionSteps(s) \/ AgentSteps(s)
  <2>1. errorCode' = errorCode
    BY <1>2
    DEF vars, Environment, EnqueueTask, StartNode, TaskDeadlinePasses, ConfigDeadlinePasses,
        ConnectionBreaks, PanelRestarts, AgentRestarts, Dispatch, SessionSteps, Connect,
        PanelNotices, AgentNotices, AgentSteps, SendHeartbeat, Begin, StoreUnreadable,
        LoopReturns, Effect, Finish, StoreUnwritable, rowVars
  <2>2. \/ status' = status
        \/ \E i \in Ids : status' = [status EXCEPT ![i] = "QUEUED"]
    <3>1. ASSUME NEW k, NEW r, NewRow(k, r)
          PROVE  \E i \in Ids : status' = [status EXCEPT ![i] = "QUEUED"]
      <4>1. created + 1 \in Ids
        BY <3>1, BoundAssumption DEF NewRow, Ids, Typed, TypeOK
      <4> QED
        BY <3>1, <4>1 DEF NewRow
    <3> QED
      BY <1>2, <3>1
      DEF vars, Environment, EnqueueTask, StartNode, TaskDeadlinePasses, ConfigDeadlinePasses,
          ConnectionBreaks, PanelRestarts, AgentRestarts, Dispatch, SessionSteps, Connect,
          PanelNotices, AgentNotices, AgentSteps, SendHeartbeat, Begin, StoreUnreadable,
          LoopReturns, Effect, Finish, StoreUnwritable, rowVars
  <2> QED
    BY <1>1, <2>1, <2>2 DEF Typed, TypeOK
<1>3. ASSUME NEW s \in Sessions, PipelineSteps(s) PROVE FailuresAgree'
  <2>1. CASE HandleHello(s)
    <3>1. errorCode' = errorCode /\ status' = AfterReset
      BY <2>1 DEF HandleHello
    <3> QED
      BY <1>1, <3>1 DEF AfterReset
  <2>2. CASE HandleHeartbeat(s)
    BY <1>1, <2>2 DEF HandleHeartbeat, rowVars
  <2>3. CASE HandleResult(s)
    <3> DEFINE m == Head(toPanel[s])
    <3>1. /\ m \in Elements(toPanel[s]) /\ m.type = "result"
          /\ m.id \in Ids /\ m.outcome \in Outcomes
      <4>1. m \in Elements(toPanel[s]) /\ m \in ToPanel /\ m.type = "result"
        BY <2>3, TakenFromQueue DEF HandleResult, Received
      <4> QED
        BY <4>1 DEF ToPanel
    <3>2. m.outcome = "refused" \/ store[m.id] = m.outcome
      BY <3>1 DEF ReportsAgree, Agrees
    <3>3. CASE Acceptable(m.id)
      <4>1. PICK o \in Booked(m) : Complete(m.id, o) /\ Active(m.id) /\ store' = store
        BY <2>3, <3>3 DEF HandleResult, Acceptable, agentVars
      <4>2. \/ o = m.outcome /\ m.outcome # "none"
            \/ o = "unfit" /\ m.outcome = "ok"
        BY <3>1, <4>1 DEF Outcomes, StoredOutcomes, Booked
      <4> QED
        BY <3>1, <3>2, <4>1, <4>2, CompleteAgrees
    <3>4. CASE ~Acceptable(m.id)
      BY <1>1, <2>3, <3>4 DEF HandleResult
    <3> QED
      BY <3>3, <3>4
  <2> QED
    BY <1>3, <2>1, <2>2, <2>3 DEF PipelineSteps
<1>4. ASSUME NEW w \in Workers, WorkerSteps(w) PROVE FailuresAgree'
  <2>1. CASE ScanExpired(w) \/ PickReady(w) \/ Send(w)
    BY <1>1, <2>1 DEF ScanExpired, PickReady, Send, rowVars
  <2>2. CASE Claim(w)
    <3>1. errorCode' = errorCode
      BY <2>2 DEF Claim
    <3>2. status' = status \/ status' = [status EXCEPT ![held[w].id] = "RUNNING"]
      BY <2>2 DEF Claim
    <3> QED
      BY <1>1, <3>1, <3>2 DEF Typed, TypeOK
  <2>3. CASE FailExpired(w)
    <3>1. PICK i \in doomed[w] :
            IF Active(i) THEN Complete(i, "deadline")
                         ELSE UNCHANGED <<status, errorCode, applied, lifecycle>>
      BY <2>3 DEF FailExpired
    <3>2. i \in Ids /\ store' = store
      BY <2>3 DEF FailExpired, agentVars, Typed, TypeOK
    <3>3. CASE Active(i)
      BY <3>1, <3>2, <3>3, CompleteAgrees
    <3>4. CASE ~Active(i)
      BY <1>1, <3>1, <3>4
    <3> QED
      BY <3>3, <3>4
  <2> QED
    BY <1>4, <2>1, <2>2, <2>3 DEF WorkerSteps
<1> QED
    BY <1>2, <1>3, <1>4 DEF Next

LEMMA ReportsKeep ==
    ASSUME IInv, ReportsAgree, [Next]_vars
    PROVE  ReportsAgree'
<1> SUFFICES ASSUME NEW s \in Sessions, NEW m \in Elements(toPanel'[s]), m.type = "result"
             PROVE  m.outcome = "refused" \/ store'[m.id] = m.outcome
    BY DEF ReportsAgree, Agrees
<1>1. CASE m \in Elements(toPanel[s])
  <2>1. m.id \in Ids /\ m.outcome # "none"
    <3>1. m \in ToPanel
      BY <1>1, ElementsInSet DEF IInv, Typed, TypeOK
    <3> QED
      BY <3>1 DEF ToPanel, Outcomes, StoredOutcomes
  <2>2. m.outcome = "refused" \/ store[m.id] = m.outcome
    BY <1>1 DEF ReportsAgree, Agrees
  <2> QED
    BY <2>1, <2>2, StoreIsKept
<1>2. CASE m \notin Elements(toPanel[s])
  <2>1. CASE Next
    BY <1>2, <2>1, NewReportsAgree
  <2>2. CASE UNCHANGED vars
    BY <1>2, <2>2 DEF vars
  <2> QED
    BY <2>1, <2>2
<1> QED
    BY <1>1, <1>2

(* A failure the panel shows is the failure the Agent recorded: only where *)
(* the deadline ended the row, or the Agent refused or could not use its   *)
(* store, may the panel call failed what the Agent did.                    *)
THEOREM OutcomesNeverDisagree == Spec => []OutcomesAgree
<1> DEFINE AInv == ReportsAgree /\ FailuresAgree
<1>1. Init => AInv
    BY DEF Init, ReportsAgree, FailuresAgree, Elements
<1>2. IInv /\ AInv /\ [Next]_vars => AInv'
    BY ReportsKeep, FailuresKeep
<1>3. AInv => OutcomesAgree
    BY DEF FailuresAgree, Explained, OutcomesAgree
<1> QED
    BY <1>1, <1>2, <1>3, Invariance, PTL DEF Spec

-----------------------------------------------------------------------------
(* The payload that ran.  Every command under way carries the revision of  *)
(* its row, as read when the row was picked, unless the row's payload was  *)
(* replaced afterwards.                                                    *)
AsPicked(c) == c.id \in picked /\ (c.rev = revision[c.id] \/ c.id \in rewritten)

UnderWayAsPicked ==
    /\ \A w \in Workers : pc[w] \in {"claim", "send"} => AsPicked(held[w])
    /\ \A s \in Sessions : \A c \in Elements(toAgent[s]) : AsPicked(c)
    /\ \A s \in Sessions : exec[s] # Idle => AsPicked(exec[s])

PickedExist == \A i \in picked : i <= created

EffectsPosted ==
    \A s \in Sessions : exec[s] # Idle /\ exec[s].posted => exec[s].rev \in posted[exec[s].id]

StoredPayloadRan ==
    \A i \in Ids : store[i] = "ok" =>
        i \in picked /\ (i \in rewritten \/ revision[i] \in posted[i])

PInv == PickedExist /\ UnderWayAsPicked /\ EffectsPosted /\ StoredPayloadRan

LEMMA PickedRowIsKept ==
    ASSUME IInv, PickedExist, [Next]_vars
    PROVE  /\ PickedExist'
           /\ \A i \in picked : /\ i \in picked'
                                /\ i \in rewritten => i \in rewritten'
                                /\ revision'[i] = revision[i] \/ i \in rewritten'
<1> USE DEF IInv, Typed, TypeOK, Ids
<1>1. ASSUME NEW k, NEW r, NewRow(k, r), picked' = picked
      PROVE  /\ PickedExist'
             /\ \A i \in picked : revision'[i] = revision[i]
  <2>1. created + 1 \in Ids /\ created' = created + 1
    BY <1>1, BoundAssumption DEF NewRow
  <2>2. revision' = [revision EXCEPT ![created + 1] = r]
    BY <1>1 DEF NewRow
  <2> QED
    BY <1>1, <2>1, <2>2, BoundAssumption DEF PickedExist
<1>2. CASE EnqueueTask
    BY <1>1, <1>2 DEF EnqueueTask, histVars
<1>3. CASE StartNode
  <2>1. CASE Coalescible # {}
    <3>1. PICK i \in Ids : /\ revision' = [revision EXCEPT ![i] = desired + 1]
                           /\ rewritten' = rewritten \cup ({i} \cap picked)
      BY <1>3, <2>1 DEF StartNode
    <3>2. UNCHANGED <<created, picked>>
      BY <1>3, <2>1 DEF StartNode
    <3> QED
      BY <3>1, <3>2 DEF PickedExist
  <2>2. CASE Coalescible = {}
    <3>1. /\ NewRow("apply_config", desired + 1)
          /\ UNCHANGED <<picked, rewritten>>
      BY <1>3, <2>2 DEF StartNode
    <3> QED
      BY <1>1, <3>1
  <2> QED
    BY <2>1, <2>2
<1>4. CASE \E w \in Workers : PickReady(w)
  <2>1. PICK w \in Workers : PickReady(w)
    BY <1>4
  <2>2. UNCHANGED <<created, revision, rewritten>>
    BY <2>1 DEF PickReady, rowVars
  <2>3. CASE Ready # {}
    <3>1. PICK i \in Ids : First(i, Ready) /\ picked' = picked \cup {i}
      BY <2>1, <2>3 DEF PickReady
    <3>2. i <= created
      BY <3>1 DEF First, Ready, Queued, RowsExist
    <3> QED
      BY <2>2, <3>1, <3>2 DEF PickedExist
  <2>4. CASE Ready = {}
    BY <2>1, <2>2, <2>4 DEF PickReady, PickedExist
  <2> QED
    BY <2>3, <2>4
<1>5. CASE ~ (EnqueueTask \/ StartNode \/ \E w \in Workers : PickReady(w))
  <2>1. UNCHANGED <<created, revision, picked, rewritten>>
    BY ZenonT(60), <1>5
    DEF Next, Environment, TaskDeadlinePasses, ConfigDeadlinePasses, ConnectionBreaks,
        PanelRestarts, AgentRestarts, Dispatch, SessionSteps, Connect, PanelNotices,
        AgentNotices, PipelineSteps, HandleHello, HandleHeartbeat, HandleResult, WorkerSteps,
        ScanExpired, FailExpired, Claim, Send, AgentSteps, SendHeartbeat, Begin,
        StoreUnreadable, LoopReturns, Effect, Finish, StoreUnwritable, rowVars, histVars, vars
  <2> QED
    BY <2>1 DEF PickedExist
<1> QED
    BY <1>2, <1>3, <1>4, <1>5

(* Every command under way after a step was under way before it, or is the *)
(* row just picked.                                                        *)
LEMMA HeldKeeps ==
    ASSUME IInv, PickedExist, UnderWayAsPicked, [Next]_vars,
           NEW w \in Workers, pc'[w] \in {"claim", "send"}
    PROVE  AsPicked(held[w])'
<1>0. \A i \in picked : /\ i \in picked'
                        /\ i \in rewritten => i \in rewritten'
                        /\ revision'[i] = revision[i] \/ i \in rewritten'
    BY PickedRowIsKept
<1> USE DEF IInv, Typed, TypeOK
<1>1. CASE pc[w] \in {"claim", "send"} /\ held'[w] = held[w]
  <2>1. AsPicked(held[w])
    BY <1>1 DEF UnderWayAsPicked
  <2>2. held[w].id \in picked /\ (held[w].rev = revision[held[w].id] \/ held[w].id \in rewritten)
    BY <2>1 DEF AsPicked
  <2>3. held[w].id \in picked' /\ (held[w].rev = revision'[held[w].id] \/ held[w].id \in rewritten')
    BY <1>0, <2>2
  <2> QED
    BY <1>1, <2>3 DEF AsPicked
<1>2. CASE PickReady(w)
  <2>1. CASE Ready # {}
    <3>1. PICK i \in Ids :
            /\ held' = [held EXCEPT ![w] = [id |-> i, rev |-> revision[i]]]
            /\ picked' = picked \cup {i}
      BY <1>2, <2>1 DEF PickReady
    <3>2. revision' = revision
      BY <1>2 DEF PickReady, rowVars
    <3>3. held'[w].id = i /\ held'[w].rev = revision[i]
      BY <3>1
    <3> QED
      BY <3>1, <3>2, <3>3 DEF AsPicked
  <2>2. CASE Ready = {}
    BY <1>2, <2>2 DEF PickReady, Finished
  <2> QED
    BY <2>1, <2>2
<1>3. CASE \E v \in Workers : v # w /\ WorkerSteps(v)
  <2>1. pc'[w] = pc[w] /\ held'[w] = held[w]
    BY <1>3 DEF WorkerSteps, ScanExpired, FailExpired, PickReady, Claim, Send, ReadsExpired, Finished
  <2> QED
    BY <1>1, <2>1
<1>4. CASE WorkerSteps(w) /\ ~PickReady(w)
  <2>1. pc[w] \in {"claim", "send"} /\ held'[w] = held[w]
    BY <1>4 DEF WorkerSteps, ScanExpired, FailExpired, Claim, Send, ReadsExpired, Finished
  <2> QED
    BY <1>1, <2>1
<1>5. CASE ~ \E v \in Workers : WorkerSteps(v)
  <2>1. pc[w] \in {"claim", "send"} /\ held'[w] = held[w]
    BY ZenonT(60), <1>5
    DEF Next, Environment, EnqueueTask, StartNode, TaskDeadlinePasses, ConfigDeadlinePasses,
        ConnectionBreaks, PanelRestarts, AgentRestarts, Dispatch, ReadsExpired, SessionSteps,
        Connect, PanelNotices, AgentNotices, PipelineSteps, HandleHello, HandleHeartbeat,
        HandleResult, AgentSteps, SendHeartbeat, Begin, StoreUnreadable, LoopReturns, Effect,
        Finish, StoreUnwritable, workVars, vars
  <2> QED
    BY <1>1, <2>1
<1> QED
    BY <1>2, <1>3, <1>4, <1>5

LEMMA ToAgentKeeps ==
    ASSUME IInv, PickedExist, UnderWayAsPicked, [Next]_vars,
           NEW s \in Sessions, NEW c \in Elements(toAgent'[s])
    PROVE  c.id \in picked' /\ (c.rev = revision'[c.id] \/ c.id \in rewritten')
<1>0. \A i \in picked : /\ i \in picked'
                        /\ i \in rewritten => i \in rewritten'
                        /\ revision'[i] = revision[i] \/ i \in rewritten'
    BY PickedRowIsKept
<1> USE DEF IInv, Typed, TypeOK
<1>1. c \in Elements(toAgent[s]) \/ \E w \in Workers : pc[w] = "send" /\ c = held[w]
  <2>1. CASE \E w \in Workers : Send(w)
    <3>1. PICK w \in Workers : Send(w)
      BY <2>1
    <3>2. pc[w] = "send" /\ held[w] \in Command
      BY <3>1 DEF Send, HeldOK
    <3>3. CASE toAgent' = toAgent
      BY <3>3
    <3>4. CASE toAgent' # toAgent
      <4>1. toAgent' = [toAgent EXCEPT ![SendsOn(w)] = Append(toAgent[SendsOn(w)], held[w])]
        BY <3>1, <3>4 DEF Send, Behind
      <4>2. s = SendsOn(w) =>
              Elements(Append(toAgent[s], held[w])) = Elements(toAgent[s]) \cup {held[w]}
        BY <3>2, AppendElements
      <4> QED
        BY <3>2, <4>1, <4>2
    <3> QED
      BY <3>3, <3>4
  <2>2. CASE \E t \in Sessions : AgentSteps(t)
    <3>1. PICK t \in Sessions : AgentSteps(t)
      BY <2>2
    <3>2. Elements(<<>>) = {}
      BY DEF Elements
    <3>3. toAgent[t] # <<>> => Elements(Tail(toAgent[t])) \subseteq Elements(toAgent[t])
      BY TailElements
    <3>4. \/ toAgent' = toAgent
          \/ toAgent' = [toAgent EXCEPT ![t] = <<>>]
          \/ toAgent[t] # <<>> /\ toAgent' = [toAgent EXCEPT ![t] = Tail(toAgent[t])]
      BY <3>1 DEF AgentSteps, SendHeartbeat, Begin, StoreUnreadable, LoopReturns, Effect, Finish,
                  StoreUnwritable, Answer
    <3> QED
      BY <3>2, <3>3, <3>4
  <2>3. CASE ~ \/ \E w \in Workers : Send(w)
               \/ \E t \in Sessions : AgentSteps(t)
    <3>1. toAgent' = toAgent \/ toAgent' = [t \in Sessions |-> <<>>]
      BY <2>3
      DEF Next, Environment, EnqueueTask, StartNode, TaskDeadlinePasses, ConfigDeadlinePasses,
          ConnectionBreaks, PanelRestarts, AgentRestarts, Dispatch, SessionSteps, Connect,
          PanelNotices, AgentNotices, PipelineSteps, HandleHello, HandleHeartbeat, HandleResult,
          WorkerSteps, ScanExpired, FailExpired, PickReady, Claim, vars
    <3> QED
      BY <3>1 DEF Elements
  <2> QED
    BY <2>1, <2>2, <2>3
<1>2. c.id \in picked /\ (c.rev = revision[c.id] \/ c.id \in rewritten)
    BY <1>1 DEF UnderWayAsPicked, AsPicked
<1> QED
    BY <1>0, <1>2

(* Only the Agent's steps and its restart touch what a loop executes.      *)
LEMMA ExecFrame ==
    ASSUME [Next]_vars, ~ \E t \in Sessions : AgentSteps(t)
    PROVE  exec' = exec \/ exec' = [t \in Sessions |-> Idle]
BY DEF Next, Environment, EnqueueTask, StartNode, TaskDeadlinePasses, ConfigDeadlinePasses,
    ConnectionBreaks, PanelRestarts, AgentRestarts, Dispatch, SessionSteps, Connect,
    PanelNotices, AgentNotices, PipelineSteps, HandleHello, HandleHeartbeat, HandleResult,
    WorkerSteps, ScanExpired, FailExpired, PickReady, Claim, Send, agentVars, vars

LEMMA ExecKeeps ==
    ASSUME IInv, PickedExist, UnderWayAsPicked, [Next]_vars,
           NEW s \in Sessions, exec'[s] # Idle
    PROVE  AsPicked(exec[s])'
<1>0. \A i \in picked : /\ i \in picked'
                        /\ i \in rewritten => i \in rewritten'
                        /\ revision'[i] = revision[i] \/ i \in rewritten'
    BY PickedRowIsKept
<1> USE DEF IInv, Typed, TypeOK
<1>1. \E c : /\ c.id = exec'[s].id /\ c.rev = exec'[s].rev
             /\ \/ c \in Elements(toAgent[s])
                \/ exec[s] # Idle /\ c = exec[s]
  <2>1. CASE Begin(s) /\ exec'[s] # exec[s]
    <3>1. exec'[s].id = Head(toAgent[s]).id /\ exec'[s].rev = Head(toAgent[s]).rev
      BY <2>1 DEF Begin
    <3>2. Head(toAgent[s]) \in Elements(toAgent[s])
      BY <2>1, TailElements DEF Begin
    <3> QED
      BY <3>1, <3>2
  <2>2. CASE Effect(s)
    <3>1. exec' = [exec EXCEPT ![s] = [exec[s] EXCEPT !.posted = TRUE]] /\ exec[s] # Idle
      BY <2>2 DEF Effect
    <3>2. exec'[s] = [exec[s] EXCEPT !.posted = TRUE]
      BY <3>1
    <3>3. exec'[s].id = exec[s].id /\ exec'[s].rev = exec[s].rev
      BY <3>1, <3>2
    <3> QED
      BY <3>1, <3>3
  <2>3. CASE exec'[s] = exec[s]
    BY <2>3
  <2>4. CASE ~ (Begin(s) \/ Effect(s) \/ exec'[s] = exec[s])
    <3>1. ASSUME NEW t \in Sessions, AgentSteps(t) PROVE FALSE
      <4>1. exec' \in {exec, [exec EXCEPT ![t] = Idle]} \/ Begin(t) \/ Effect(t)
        BY <3>1 DEF AgentSteps, SendHeartbeat, StoreUnreadable, LoopReturns, Finish,
                    StoreUnwritable, agentVars
      <4>2. t # s => exec'[s] = exec[s]
        BY <4>1 DEF Begin, Effect
      <4> QED
        BY <2>4, <4>1, <4>2
    <3> QED
      BY <2>4, <3>1, ExecFrame
  <2> QED
    BY <2>1, <2>2, <2>3, <2>4
<1>2. PICK c : /\ c.id = exec'[s].id /\ c.rev = exec'[s].rev
               /\ \/ c \in Elements(toAgent[s])
                  \/ exec[s] # Idle /\ c = exec[s]
    BY <1>1
<1>3. c.id \in picked /\ (c.rev = revision[c.id] \/ c.id \in rewritten)
    BY <1>2 DEF UnderWayAsPicked, AsPicked
<1>4. c.id \in picked' /\ (c.rev = revision'[c.id] \/ c.id \in rewritten')
    BY <1>0, <1>3
<1> QED
    BY <1>2, <1>4 DEF AsPicked

(* What was posted stays posted, and an effect adds the revision it has.   *)
LEMMA EffectsKeep ==
    ASSUME IInv, EffectsPosted, [Next]_vars
    PROVE  EffectsPosted' /\ \A i \in Ids : posted[i] \subseteq posted'[i]
<1> USE DEF IInv, Typed, TypeOK
<1>1. CASE \E s \in Sessions : Effect(s)
  <2>1. PICK s \in Sessions : Effect(s)
    BY <1>1
  <2>2. /\ exec[s] # Idle
        /\ exec' = [exec EXCEPT ![s] = [exec[s] EXCEPT !.posted = TRUE]]
        /\ posted' = [posted EXCEPT ![exec[s].id] = posted[exec[s].id] \cup {exec[s].rev}]
    BY <2>1 DEF Effect
  <2>3. \A i \in Ids : posted[i] \subseteq posted'[i]
    BY <2>2
  <2>4. exec'[s].id = exec[s].id /\ exec'[s].rev = exec[s].rev /\ exec[s].id \in Ids
    BY <2>2
  <2>5. exec'[s].rev \in posted'[exec'[s].id]
    BY <2>2, <2>4
  <2>6. \A t \in Sessions \ {s} : exec'[t] = exec[t] /\ (exec[t] # Idle => exec[t].id \in Ids)
    BY <2>2
  <2> QED
    BY <2>3, <2>5, <2>6 DEF EffectsPosted
<1>2. CASE ~ \E s \in Sessions : Effect(s)
  <2>1. posted' = posted
    BY <1>2
    DEF Next, Environment, EnqueueTask, StartNode, TaskDeadlinePasses, ConfigDeadlinePasses,
        ConnectionBreaks, PanelRestarts, AgentRestarts, Dispatch, SessionSteps, Connect,
        PanelNotices, AgentNotices, PipelineSteps, HandleHello, HandleHeartbeat, HandleResult,
        WorkerSteps, ScanExpired, FailExpired, PickReady, Claim, Send, AgentSteps, SendHeartbeat,
        Begin, StoreUnreadable, LoopReturns, Finish, StoreUnwritable, histVars, vars
  <2>2. \A s \in Sessions : exec'[s] = exec[s] \/ exec'[s] = Idle \/ ~exec'[s].posted
    <3>1. ASSUME NEW t \in Sessions, AgentSteps(t), NEW s \in Sessions
          PROVE  exec'[s] = exec[s] \/ exec'[s] = Idle \/ ~exec'[s].posted
      BY <1>2, <3>1 DEF AgentSteps, SendHeartbeat, Begin, StoreUnreadable, LoopReturns, Finish,
                        StoreUnwritable, agentVars
    <3> QED
      BY <3>1, ExecFrame
  <2> QED
    BY <2>1, <2>2 DEF EffectsPosted
<1> QED
    BY <1>1, <1>2

LEMMA StoredPayloadKeeps ==
    ASSUME IInv, PInv, [Next]_vars
    PROVE  StoredPayloadRan'
<1>0. \A i \in picked : /\ i \in picked'
                        /\ i \in rewritten => i \in rewritten'
                        /\ revision'[i] = revision[i] \/ i \in rewritten'
    BY PickedRowIsKept DEF PInv
<1> USE DEF IInv, Typed, TypeOK
<1> SUFFICES ASSUME NEW i \in Ids, store'[i] = "ok"
             PROVE  i \in picked' /\ (i \in rewritten' \/ revision'[i] \in posted'[i])
    BY DEF StoredPayloadRan
<1>1. posted[i] \subseteq posted'[i]
    BY EffectsKeep DEF PInv
<1>2. i \in picked /\ (i \in rewritten \/ revision[i] \in posted[i])
  <2>1. CASE store[i] = "ok"
    BY <2>1 DEF PInv, StoredPayloadRan
  <2>2. CASE store[i] # "ok"
    <3>1. PICK s \in Sessions : Finish(s) /\ exec[s].id = i
      <4>1. CASE \E s \in Sessions : Finish(s)
        BY <2>2, <4>1 DEF Finish
      <4>2. CASE ~\E s \in Sessions : Finish(s)
        <5>1. store' = store
          BY <4>2 DEF Next, Environment, EnqueueTask, StartNode, TaskDeadlinePasses,
              ConfigDeadlinePasses, ConnectionBreaks, PanelRestarts, AgentRestarts, Dispatch,
              SessionSteps, Connect, PanelNotices, AgentNotices, PipelineSteps, HandleHello,
              HandleHeartbeat, HandleResult, WorkerSteps, ScanExpired, FailExpired, PickReady,
              Claim, Send, AgentSteps, SendHeartbeat, Begin, StoreUnreadable, LoopReturns, Effect,
              StoreUnwritable, agentVars, vars
        <5> QED
          BY <2>2, <5>1
      <4> QED
        BY <4>1, <4>2
    <3>2. exec[s] # Idle /\ exec[s].posted
      BY <2>2, <3>1 DEF Finish, Endings, Kept
    <3> QED
      BY <3>1, <3>2 DEF PInv, EffectsPosted, UnderWayAsPicked, AsPicked
  <2> QED
    BY <2>1, <2>2
<1> QED
    BY <1>0, <1>1, <1>2

(* A row whose payload nobody replaced after it was read for dispatch is   *)
(* SUCCEEDED only if that payload reached the Node: neither a superseded   *)
(* session, nor a repeated delivery, nor a stored result of another        *)
(* revision can end it.                                                    *)
THEOREM SucceededPayloadRan == Spec => []UnchangedPayloadRan
<1>1. Init => PInv
    BY DEF Init, PInv, PickedExist, UnderWayAsPicked, EffectsPosted, StoredPayloadRan, Elements
<1>2. IInv /\ PInv /\ [Next]_vars => PInv'
  <2> SUFFICES ASSUME IInv, PInv, [Next]_vars PROVE PInv'
    OBVIOUS
  <2>1. UnderWayAsPicked'
    BY HeldKeeps, ToAgentKeeps, ExecKeeps DEF PInv, UnderWayAsPicked, AsPicked
  <2> QED
    BY <2>1, PickedRowIsKept, EffectsKeep, StoredPayloadKeeps DEF PInv
<1>3. IInv /\ PInv => UnchangedPayloadRan
    BY DEF IInv, SucceededWasStored, PInv, StoredPayloadRan, UnchangedPayloadRan
<1> QED
    BY <1>1, <1>2, <1>3, Invariance, PTL DEF Spec

-----------------------------------------------------------------------------
(* The order of the work in behaviours that nothing disturbs.  There is    *)
(* one session then; what is RUNNING is, from the oldest to the youngest   *)
(* row, answered, being executed, sent, or about to be sent; rows end and  *)
(* start in the order of the queue; and each row of the Node asks for more *)
(* than the one before it.                                                 *)
Ordered(q, R) == \A m, n \in 1 .. Len(q) : m < n => <<q[m], q[n]>> \in R
ByCommand == {p \in Command \X Command : p[1].id < p[2].id}
ByResult  == {p \in ToPanel \X ToPanel :
                p[1].type = "result" /\ p[2].type = "result" => p[1].id < p[2].id}

RunningRows  == {i \in Ids : status[i] = "RUNNING"}
Answered(s)  == {m.id : m \in {x \in Elements(toPanel[s]) : x.type = "result"}}
Executing(s) == IF exec[s] = Idle THEN {} ELSE {exec[s].id}
Sent(s)      == {c.id : c \in Elements(toAgent[s])}
Sending(s)   == IF pc[s] = "send" THEN {held[s].id} ELSE {}
Before(S, T) == \A i \in S, j \in T : i < j

Alone ==
    /\ current \notin Sessions => RunningRows = {}
    /\ \A s \in Sessions :
          /\ doomed[s] = {} /\ pc[s] # "expire"
          /\ IF s = current THEN readyState[s] = "OPEN" /\ agentOpen[s] ELSE SlotFree(s)

WorksInOrder(s) ==
    /\ Ordered(toAgent[s], ByCommand)
    /\ Ordered(toPanel[s], ByResult)
    /\ Before(Answered(s), Executing(s) \cup Sent(s) \cup Sending(s))
    /\ Before(Executing(s), Sent(s) \cup Sending(s))
    /\ Before(Sent(s), Sending(s))

HasTheRunning(s) == Answered(s) \cup Executing(s) \cup Sent(s) \cup Sending(s) = RunningRows

ClaimsTheFirst(s) == pc[s] = "claim" => First(held[s].id, Queued)

HelloIsAlone(s) ==
    Hello \in Elements(toPanel[s]) =>
        toPanel[s] = <<Hello>> /\ pc[s] = "idle" /\ RunningRows = {}

Wire == \A s \in Sessions : s = current =>
            WorksInOrder(s) /\ HasTheRunning(s) /\ ClaimsTheFirst(s) /\ HelloIsAlone(s)

Config(i) == i \in 1 .. created /\ kind[i] = "apply_config"

RowsInOrder ==
    \A i, j \in 1 .. created : i < j =>
        /\ Active(i) => status[j] \notin {"SUCCEEDED", "FAILED"}
        /\ status[j] = "RUNNING" => status[i] # "QUEUED"
        /\ Config(i) /\ Config(j) =>
              /\ status[i] = "QUEUED" => status[j] = "QUEUED"
              /\ revision[i] < revision[j]

RevisionsFit ==
    /\ \A i \in Ids : Config(i) => /\ 1 <= revision[i] /\ revision[i] <= desired
                                   /\ Active(i) => applied < revision[i]
    /\ applied <= desired
    /\ desired > 0 => \E i \in Ids : Config(i) /\ revision[i] = desired

Decided ==
    desired > 0 /\ lifecycle = "PROVISIONING" /\ (\A i \in Ids : status[i] # "CANCELLED")
        => \E i \in Ids : Config(i) /\ Active(i) /\ revision[i] = desired

RowsFit == RowsInOrder /\ RevisionsFit /\ Decided

Order == Alone /\ Wire /\ RowsFit

OrderInv == Undisturbed => Order

(* Taking the head of an ordered queue, and adding what comes after it all.*)
LEMMA OrderedTail ==
    ASSUME NEW S, NEW R, NEW q \in Seq(S), q # <<>>, Ordered(q, R)
    PROVE  /\ Ordered(Tail(q), R)
           /\ Elements(q) = {Head(q)} \cup Elements(Tail(q))
           /\ \A x \in Elements(Tail(q)) : <<Head(q), x>> \in R
<1>1. /\ Len(Tail(q)) = Len(q) - 1
      /\ \A n \in 1 .. Len(Tail(q)) : Tail(q)[n] = q[n + 1]
    BY HeadTailProperties
<1>2. Len(q) \in Nat \ {0} /\ Head(q) = q[1]
    BY EmptySeq
<1>3. Ordered(Tail(q), R)
    BY <1>1, <1>2 DEF Ordered
<1>4. Elements(q) \subseteq {Head(q)} \cup Elements(Tail(q))
  <2> SUFFICES ASSUME NEW n \in 1 .. Len(q), n # 1
               PROVE  q[n] \in Elements(Tail(q))
    BY <1>2 DEF Elements
  <2>1. n - 1 \in 1 .. Len(Tail(q)) /\ Tail(q)[n - 1] = q[n]
    BY <1>1, <1>2
  <2> QED
    BY <2>1 DEF Elements
<1>5. {Head(q)} \cup Elements(Tail(q)) \subseteq Elements(q)
    BY TailElements
<1>6. ASSUME NEW x \in Elements(Tail(q)) PROVE <<Head(q), x>> \in R
  <2>1. PICK n \in 1 .. Len(Tail(q)) : x = Tail(q)[n]
    BY <1>6 DEF Elements
  <2>2. x = q[n + 1] /\ 1 \in 1 .. Len(q) /\ n + 1 \in 1 .. Len(q) /\ 1 < n + 1
    BY <1>1, <1>2, <2>1
  <2> QED
    BY <1>2, <2>2 DEF Ordered
<1> QED
    BY <1>3, <1>4, <1>5, <1>6

LEMMA OrderedAppend ==
    ASSUME NEW S, NEW R, NEW q \in Seq(S), NEW x \in S, Ordered(q, R),
           \A y \in Elements(q) : <<y, x>> \in R
    PROVE  Ordered(Append(q, x), R)
<1>1. /\ Len(Append(q, x)) = Len(q) + 1
      /\ \A n \in 1 .. Len(q) : Append(q, x)[n] = q[n]
      /\ Append(q, x)[Len(q) + 1] = x
    BY AppendProperties
<1>2. Len(q) \in Nat
    OBVIOUS
<1>3. \A m \in 1 .. Len(q) : <<q[m], x>> \in R
    BY DEF Elements
<1> SUFFICES ASSUME NEW m \in 1 .. Len(q) + 1, NEW n \in 1 .. Len(q) + 1, m < n
             PROVE  <<Append(q, x)[m], Append(q, x)[n]>> \in R
    BY <1>1 DEF Ordered
<1>4. CASE n \in 1 .. Len(q)
    BY <1>1, <1>2, <1>4 DEF Ordered
<1>5. CASE n = Len(q) + 1
    BY <1>1, <1>2, <1>3, <1>5
<1> QED
    BY <1>2, <1>4, <1>5

LEMMA EmptyQueue ==
    ASSUME NEW R
    PROVE  Elements(<<>>) = {} /\ Ordered(<<>>, R)
BY DEF Elements, Ordered

LEMMA OrderInit == Init => Order
<1> SUFFICES ASSUME Init PROVE Order
    OBVIOUS
<1> USE DEF Init
<1>1. Alone
    BY SessionAssumption DEF Alone, SlotFree, RunningRows, Workers
<1>2. Wire
    BY SessionAssumption DEF Wire
<1>3. RowsFit
    BY BoundAssumption DEF RowsFit, RowsInOrder, RevisionsFit, Decided, Config, Ids
<1> QED
    BY <1>1, <1>2, <1>3 DEF Order

(* Disturbance is for good.                                                *)
LEMMA UndisturbedBefore == IInv /\ [Next]_vars /\ Undisturbed' => Undisturbed
<1> SUFFICES ASSUME IInv, [Next]_vars
             PROVE  late \subseteq late' /\ overdue <= overdue' /\ faults' <= faults
    BY BoundAssumption DEF IInv, Typed, TypeOK, Undisturbed, Revisions
<1> USE DEF IInv, Typed, TypeOK, Revisions
<1>1. CASE Environment
  <2>1. CASE EnqueueTask \/ StartNode
    BY <2>1 DEF EnqueueTask, StartNode
  <2>2. CASE \/ \E i \in Ids : TaskDeadlinePasses(i)
             \/ ConfigDeadlinePasses
    <3>1. /\ late \subseteq late' /\ faults' = faults
          /\ overdue' = overdue \/ overdue' = overdue + 1
      BY <2>2 DEF TaskDeadlinePasses, ConfigDeadlinePasses
    <3> QED
      BY <3>1, BoundAssumption
  <2>3. CASE \/ \E s \in Sessions : ConnectionBreaks(s)
             \/ PanelRestarts \/ AgentRestarts
    <3>1. UNCHANGED <<late, overdue>> /\ faults' = faults - 1
      BY <2>3 DEF ConnectionBreaks, PanelRestarts, AgentRestarts, rowVars
    <3> QED
      BY <3>1, BoundAssumption
  <2> QED
    BY <1>1, <2>1, <2>2, <2>3 DEF Environment
<1>2. ASSUME NEW d \in Dispatchers, Dispatch(d)
      PROVE  UNCHANGED <<late, overdue, faults>>
    BY <1>2 DEF Dispatch, rowVars
<1>3. ASSUME NEW s \in Sessions, SessionSteps(s) \/ PipelineSteps(s)
      PROVE  UNCHANGED <<late, overdue, faults>>
    BY <1>3 DEF SessionSteps, PipelineSteps, Connect, PanelNotices, AgentNotices, HandleHello,
                HandleHeartbeat, HandleResult, rowVars
<1>4. ASSUME NEW s \in Sessions, AgentSteps(s)
      PROVE  UNCHANGED <<late, overdue>> /\ faults' <= faults
    BY <1>4, BoundAssumption
    DEF AgentSteps, SendHeartbeat, Begin, StoreUnreadable, LoopReturns, Effect, Finish,
        StoreUnwritable, rowVars
<1>5. ASSUME NEW w \in Workers, WorkerSteps(w)
      PROVE  UNCHANGED <<late, overdue, faults>>
    BY <1>5 DEF WorkerSteps, ScanExpired, FailExpired, PickReady, Claim, Send, rowVars
<1>6. CASE UNCHANGED vars
    BY <1>6 DEF vars
<1> QED
    BY <1>1, <1>2, <1>3, <1>4, <1>5, <1>6, BoundAssumption DEF Next

(* Only the current session acts, until there is one.                      *)
LEMMA ActsAlone ==
    ASSUME Order, NEW s \in Sessions,
           SessionSteps(s) \/ PipelineSteps(s) \/ AgentSteps(s) \/ WorkerSteps(s)
    PROVE  IF s = current THEN ~Connect(s) /\ ~PanelNotices(s) /\ ~AgentNotices(s) /\ ~LoopReturns(s)
                               /\ ~FailExpired(s)
           ELSE Connect(s) /\ current \notin Sessions
<1> USE DEF Order, Alone
<1>1. CASE s = current
  <2>1. readyState[s] = "OPEN" /\ agentOpen[s] /\ pc[s] # "expire"
    BY <1>1
  <2> QED
    BY <1>1, <2>1 DEF Connect, PanelNotices, AgentNotices, LoopReturns, FailExpired
<1>2. CASE s # current
  <2>1. SlotFree(s)
    BY <1>2
  <2>2. ~PipelineSteps(s)
    BY <2>1 DEF SlotFree, PipelineSteps, HandleHello, HandleHeartbeat, HandleResult, Received
  <2>3. ~AgentSteps(s)
    BY <2>1 DEF SlotFree, AgentSteps, SendHeartbeat, Begin, StoreUnreadable, LoopReturns, Effect,
                Finish, StoreUnwritable
  <2>4. ~WorkerSteps(s)
    BY <2>1 DEF SlotFree, WorkerSteps, ScanExpired, FailExpired, PickReady, Claim, Send
  <2>5. Connect(s)
    BY <2>1, <2>2, <2>3, <2>4 DEF SlotFree, SessionSteps, PanelNotices, AgentNotices
  <2>6. current \notin Sessions
    BY <2>5 DEF Connect
  <2> QED
    BY <1>2, <2>5, <2>6
<1> QED
    BY <1>1, <1>2

(* Rows that a step leaves alone stay in order.                            *)
LEMMA RowsStayFit ==
    ASSUME RowsFit,
           UNCHANGED <<created, kind, status, revision, desired, applied, lifecycle>>
    PROVE  RowsFit'
BY DEF RowsFit, RowsInOrder, RevisionsFit, Decided, Config, Active

(* The slots of the other sessions stay free.                              *)
LEMMA StaysAlone ==
    ASSUME IInv, Order, NEW s \in Sessions, s = current, Undisturbed,
           UNCHANGED <<current, readyState, agentOpen, doomed>>, pc'[s] # "expire",
           \A t \in Sessions \ {s} :
              /\ pc'[t] = pc[t] /\ exec'[t] = exec[t]
              /\ toAgent'[t] = toAgent[t] /\ toPanel'[t] = toPanel[t]
    PROVE  Alone'
BY DEF Order, Alone, SlotFree, Undisturbed

(* The work on the wire stays in order when each message stays where it is.*)
LEMMA WireStays ==
    ASSUME Order, NEW s \in Sessions, s = current, current' = current,
           UNCHANGED <<status, held, toAgent, exec>>,
           toPanel'[s] = toPanel[s], pc'[s] \notin {"claim", "send"},
           pc[s] \notin {"claim", "send"}, pc[s] = "idle" => pc'[s] = "idle"
    PROVE  Wire'
<1>1. WorksInOrder(s) /\ HasTheRunning(s) /\ HelloIsAlone(s)
    BY DEF Order, Wire
<1>2. WorksInOrder(s)' /\ HasTheRunning(s)'
    BY <1>1 DEF WorksInOrder, HasTheRunning, RunningRows, Answered, Executing, Sent, Sending
<1>3. ClaimsTheFirst(s)' /\ HelloIsAlone(s)'
    BY <1>1 DEF ClaimsTheFirst, HelloIsAlone, RunningRows
<1> QED
    BY <1>2, <1>3 DEF Wire

(* What happens to the wire when rows are queued or rewritten.             *)
LEMMA WireFrame ==
    ASSUME IInv, Order,
           UNCHANGED <<current, readyState, agentOpen, pc, doomed, held, target, toAgent, toPanel, exec>>,
           RunningRows' = RunningRows,
           \A j \in Queued' : j \in Queued \/ j > created
    PROVE  Alone' /\ (Queued \subseteq Queued' => Wire')
<1>1. Alone'
    BY DEF Order, Alone, SlotFree
<1>2. ASSUME NEW s \in Sessions, s = current, Queued \subseteq Queued'
      PROVE  WorksInOrder(s)' /\ HasTheRunning(s)' /\ ClaimsTheFirst(s)' /\ HelloIsAlone(s)'
  <2>1. WorksInOrder(s) /\ HasTheRunning(s) /\ ClaimsTheFirst(s) /\ HelloIsAlone(s)
    BY <1>2 DEF Order, Wire
  <2>2. WorksInOrder(s)' /\ HasTheRunning(s)' /\ HelloIsAlone(s)'
    BY <2>1 DEF WorksInOrder, HasTheRunning, HelloIsAlone, Answered, Executing, Sent, Sending
  <2>3. ClaimsTheFirst(s)'
    <3> SUFFICES ASSUME pc[s] = "claim" PROVE First(held[s].id, Queued')
      BY DEF ClaimsTheFirst, First
    <3>1. First(held[s].id, Queued)
      BY <2>1 DEF ClaimsTheFirst
    <3>2. held[s].id \in Ids /\ held[s].id <= created /\ created \in Nat
      BY DEF IInv, Typed, TypeOK, HeldOK, InFlightExists, Workers, Command
    <3>3. \A j \in Queued' : j \in Nat
      BY DEF Queued, Ids
    <3> QED
      BY <1>2, <3>1, <3>2, <3>3 DEF First, Ids
  <2> QED
    BY <2>2, <2>3
<1> QED
    BY <1>1, <1>2 DEF Wire

(* A new row.                                                              *)
LEMMA NewRowAtTheEnd ==
    ASSUME IInv, NEW k, NEW r, NewRow(k, r)
    PROVE  /\ created + 1 \in Ids /\ created' = created + 1 /\ created \in Nat
           /\ kind' = [kind EXCEPT ![created + 1] = k]
           /\ status' = [status EXCEPT ![created + 1] = "QUEUED"]
           /\ revision' = [revision EXCEPT ![created + 1] = r]
           /\ RunningRows' = RunningRows
           /\ \A j \in Queued' : j \in Queued \/ j > created
           /\ Queued \subseteq Queued'
<1> USE DEF IInv, Typed, TypeOK
<1>1. /\ created + 1 \in Ids /\ created' = created + 1 /\ created \in Nat
      /\ kind' = [kind EXCEPT ![created + 1] = k]
      /\ status' = [status EXCEPT ![created + 1] = "QUEUED"]
      /\ revision' = [revision EXCEPT ![created + 1] = r]
    BY BoundAssumption DEF NewRow, Ids
<1>2. status[created + 1] = "NONE"
    BY <1>1 DEF RowsExist
<1> QED
    BY <1>1, <1>2 DEF RunningRows, Queued

LEMMA EnqueueTaskInOrder ==
    ASSUME IInv, Order, EnqueueTask
    PROVE  Order'
<1> USE DEF IInv, Typed, TypeOK
<1>1. NewRow("task", 0)
    BY DEF EnqueueTask
<1>2. /\ created + 1 \in Ids /\ created' = created + 1 /\ created \in Nat
      /\ kind' = [kind EXCEPT ![created + 1] = "task"]
      /\ status' = [status EXCEPT ![created + 1] = "QUEUED"]
      /\ revision' = [revision EXCEPT ![created + 1] = 0]
      /\ UNCHANGED <<desired, applied, lifecycle>>
    BY <1>1, NewRowAtTheEnd DEF EnqueueTask, nodeVars
<1>3. Alone' /\ Wire'
  <2>1. UNCHANGED <<current, readyState, agentOpen, pc, doomed, held, target, toAgent, toPanel, exec>>
    BY DEF EnqueueTask, panelVars, workVars, agentVars
  <2> QED
    BY <1>1, <2>1, NewRowAtTheEnd, WireFrame
<1>4. \A i \in 1 .. created : /\ i \in Ids /\ i # created + 1
                              /\ kind'[i] = kind[i] /\ status'[i] = status[i]
                              /\ revision'[i] = revision[i]
  <2>1. \A i \in 1 .. created : i \in Ids /\ i # created + 1
    BY <1>2, BoundAssumption DEF Ids
  <2> QED
    BY <1>2, <2>1
<1>5. \A i \in Ids : Config(i)' <=> Config(i)
    BY <1>2, <1>4 DEF Config, Ids
<1>6. RowsInOrder'
  <2> SUFFICES ASSUME NEW i \in 1 .. created + 1, NEW j \in 1 .. created + 1, i < j
               PROVE  /\ Active(i)' => status'[j] \notin {"SUCCEEDED", "FAILED"}
                      /\ status'[j] = "RUNNING" => status'[i] # "QUEUED"
                      /\ Config(i)' /\ Config(j)' =>
                            /\ status'[i] = "QUEUED" => status'[j] = "QUEUED"
                            /\ revision'[i] < revision'[j]
    BY <1>2 DEF RowsInOrder
  <2>1. CASE j = created + 1
    BY <1>2, <1>5, <2>1 DEF Config
  <2>2. CASE j \in 1 .. created
    <3>1. i \in 1 .. created
      BY <1>2, <2>2
    <3> QED
      BY <1>4, <1>5, <2>2, <3>1 DEF Order, RowsFit, RowsInOrder, Active
  <2> QED
    BY <1>2, <2>1, <2>2
<1>7. RevisionsFit' /\ Decided'
  <2>1. \A i \in Ids : Config(i) => /\ revision'[i] = revision[i] /\ status'[i] = status[i]
    BY <1>4 DEF Config
  <2>2. RevisionsFit'
    BY <1>2, <1>5, <2>1 DEF Order, RowsFit, RevisionsFit, Active
  <2>3. Decided'
    <3>1. \A i \in Ids : status'[i] # "CANCELLED" => status[i] # "CANCELLED"
      <4>1. status[created + 1] = "NONE"
        BY <1>2 DEF RowsExist
      <4> QED
        BY <1>2, <4>1
    <3> QED
      BY <1>2, <1>5, <2>1, <3>1 DEF Order, RowsFit, Decided, Active
  <2> QED
    BY <2>2, <2>3
<1> QED
    BY <1>3, <1>6, <1>7 DEF Order, RowsFit

LEMMA StartNodeInOrder ==
    ASSUME IInv, Order, StartNode
    PROVE  Order'
<1> USE DEF IInv, Typed, TypeOK
<1>1. /\ desired \in Nat /\ desired' = desired + 1 /\ applied' = applied /\ applied \in Nat
      /\ UNCHANGED <<current, readyState, agentOpen, pc, doomed, held, target, toAgent, toPanel, exec>>
    BY BoundAssumption DEF StartNode, panelVars, workVars, agentVars, Revisions
<1>2. CASE Coalescible # {}
  <2>1. PICK i \in Ids : Last(i, Coalescible) /\ revision' = [revision EXCEPT ![i] = desired + 1]
    BY <1>2 DEF StartNode
  <2>2. UNCHANGED <<created, kind, status>>
    BY <1>2 DEF StartNode
  <2>3. Alone' /\ Wire'
    BY <1>1, <2>2, WireFrame DEF RunningRows, Queued
  <2>4. /\ status[i] = "QUEUED" /\ kind[i] = "apply_config" /\ i \in 1 .. created
        /\ \A j \in QueuedConfigs : j <= i
    BY <2>1, BoundAssumption DEF Last, Coalescible, QueuedConfigs, Queued, RowsExist, Ids
  <2>5. created \in Nat /\ \A j \in 1 .. created : j \in Ids
    BY BoundAssumption DEF Ids
  <2>6. \A j \in 1 .. created : Config(j) /\ j # i => revision[j] < revision'[i]
    BY <1>1, <2>1, <2>5, BoundAssumption DEF Order, RowsFit, RevisionsFit, Revisions
  <2>7. \A j \in Ids : /\ Config(j)' <=> Config(j)
                       /\ Active(j)' <=> Active(j)
                       /\ revision'[j] = IF j = i THEN desired + 1 ELSE revision[j]
    BY <2>1, <2>2 DEF Config, Active
  <2>8. RowsInOrder'
    <3> SUFFICES ASSUME NEW a \in 1 .. created, NEW b \in 1 .. created, a < b
                 PROVE  /\ Active(a) => status[b] \notin {"SUCCEEDED", "FAILED"}
                        /\ status[b] = "RUNNING" => status[a] # "QUEUED"
                        /\ Config(a) /\ Config(b) =>
                              /\ status[a] = "QUEUED" => status[b] = "QUEUED"
                              /\ revision'[a] < revision'[b]
      BY <2>2, <2>7 DEF RowsInOrder, Config, Active
    <3>1. /\ Active(a) => status[b] \notin {"SUCCEEDED", "FAILED"}
          /\ status[b] = "RUNNING" => status[a] # "QUEUED"
          /\ Config(a) /\ Config(b) => /\ status[a] = "QUEUED" => status[b] = "QUEUED"
                                       /\ revision[a] < revision[b]
      BY DEF Order, RowsFit, RowsInOrder
    <3>2. Config(a) /\ Config(b) => revision'[a] < revision'[b]
      <4>1. CASE a = i
        <5>1. Config(b) => b \in QueuedConfigs
          BY <2>4, <2>5, <3>1, <4>1 DEF Config, QueuedConfigs, Queued
        <5> QED
          BY <2>4, <4>1, <5>1
      <4>2. CASE a # i
        BY <2>5, <2>6, <2>7, <3>1, <4>2
      <4> QED
        BY <4>1, <4>2
    <3> QED
      BY <3>1, <3>2
  <2>9. RevisionsFit' /\ Decided'
    <3>1. Config(i) /\ Active(i) /\ revision'[i] = desired + 1
      BY <2>1, <2>4 DEF Config, Active
    <3>2. RevisionsFit'
      <4>1. ASSUME NEW j \in Ids, Config(j)
            PROVE  /\ 1 <= revision'[j] /\ revision'[j] <= desired + 1
                   /\ Active(j) => applied < revision'[j]
        <5>1. /\ 1 <= revision[j] /\ revision[j] <= desired /\ applied <= desired
              /\ Active(j) => applied < revision[j]
          BY <4>1 DEF Order, RowsFit, RevisionsFit
        <5>2. revision'[j] = IF j = i THEN desired + 1 ELSE revision[j]
          BY <2>7
        <5>3. revision[j] \in Nat
          BY BoundAssumption DEF Revisions
        <5> QED
          BY <1>1, <5>1, <5>2, <5>3
      <4>2. applied <= desired + 1
        BY <1>1 DEF Order, RowsFit, RevisionsFit
      <4> QED
        BY <1>1, <2>7, <3>1, <4>1, <4>2 DEF RevisionsFit
    <3> QED
      BY <1>1, <2>7, <3>1, <3>2 DEF Decided
  <2> QED
    BY <2>3, <2>8, <2>9 DEF Order, RowsFit
<1>3. CASE Coalescible = {}
  <2>1. NewRow("apply_config", desired + 1)
    BY <1>3 DEF StartNode
  <2>0. PICK n \in Ids : n = created + 1
    BY <2>1, NewRowAtTheEnd
  <2>2. /\ created' = n /\ created \in Nat
        /\ kind' = [kind EXCEPT ![n] = "apply_config"]
        /\ status' = [status EXCEPT ![n] = "QUEUED"]
        /\ revision' = [revision EXCEPT ![n] = desired + 1]
    BY <2>0, <2>1, NewRowAtTheEnd
  <2>3. Alone' /\ Wire'
    BY <1>1, <2>1, NewRowAtTheEnd, WireFrame
  <2>4. \A i \in 1 .. created : /\ i \in Ids /\ i # n
                                /\ kind'[i] = kind[i] /\ status'[i] = status[i]
                                /\ revision'[i] = revision[i]
    <3>1. \A i \in 1 .. created : i \in Ids /\ i # n
      BY <2>0, <2>2, BoundAssumption DEF Ids
    <3> QED
      BY <2>0, <2>2, <3>1
  <2>5. \A i \in 1 .. created : /\ Config(i)' <=> Config(i)
                                /\ Active(i)' <=> Active(i)
                                /\ Config(i) => status[i] # "QUEUED" /\ revision[i] <= desired
    <3> SUFFICES ASSUME NEW i \in 1 .. created
                 PROVE  /\ Config(i)' <=> Config(i)
                        /\ Active(i)' <=> Active(i)
                        /\ Config(i) => status[i] # "QUEUED" /\ revision[i] <= desired
      OBVIOUS
    <3>1. i \in Ids /\ i \in 1 .. created'
      BY <2>0, <2>2, <2>4
    <3>2. kind'[i] = kind[i] /\ status'[i] = status[i]
      BY <2>4
    <3>3. Config(i) => i \notin QueuedConfigs /\ revision[i] <= desired
      BY <1>3, <3>1 DEF Coalescible, Order, RowsFit, RevisionsFit
    <3> QED
      BY <3>1, <3>2, <3>3 DEF Config, Active, QueuedConfigs, Queued
  <2>6. /\ Config(n)' /\ Active(n)'
        /\ revision'[n] = desired + 1 /\ status'[n] = "QUEUED"
    <3>1. Config(n)'
      BY <2>0, <2>2 DEF Config
    <3> QED
      BY <2>0, <2>2, <3>1 DEF Active
  <2>7. RowsInOrder'
    <3> SUFFICES ASSUME NEW i \in 1 .. n, NEW j \in 1 .. n, i < j
                 PROVE  /\ Active(i)' => status'[j] \notin {"SUCCEEDED", "FAILED"}
                        /\ status'[j] = "RUNNING" => status'[i] # "QUEUED"
                        /\ Config(i)' /\ Config(j)' =>
                              /\ status'[i] = "QUEUED" => status'[j] = "QUEUED"
                              /\ revision'[i] < revision'[j]
      BY <2>0, <2>2 DEF RowsInOrder
    <3>1. i \in 1 .. created
      BY <2>0, <2>2
    <3>2. CASE j = n
      <4>1. status'[j] = "QUEUED" /\ revision'[j] = desired + 1
        BY <2>6, <3>2
      <4>2. Config(i)' => revision'[i] <= desired
        BY <2>4, <2>5, <3>1
      <4>3. revision'[i] \in Nat
        BY <2>4, <3>1, BoundAssumption DEF Revisions
      <4> QED
        BY <1>1, <4>1, <4>2, <4>3
    <3>3. CASE j \in 1 .. created
      BY <2>4, <2>5, <3>1, <3>3 DEF Order, RowsFit, RowsInOrder
    <3> QED
      BY <2>0, <2>2, <3>2, <3>3
  <2>8. RevisionsFit' /\ Decided'
    <3>1. \A i \in Ids : Config(i)' => i \in 1 .. created \/ i = n
      BY <2>0, <2>2 DEF Config
    <3>2. RevisionsFit'
      <4>1. ASSUME NEW j \in Ids, Config(j)'
            PROVE  /\ 1 <= revision'[j] /\ revision'[j] <= desired + 1
                   /\ Active(j)' => applied < revision'[j]
        <5>1. applied <= desired
          BY DEF Order, RowsFit, RevisionsFit
        <5>2. CASE j = n
          BY <1>1, <2>6, <5>1, <5>2
        <5>3. CASE j \in 1 .. created
          <6>1. /\ Config(j) /\ revision'[j] = revision[j] /\ revision[j] \in Nat
                /\ Active(j)' <=> Active(j)
            BY <2>4, <2>5, <4>1, <5>3, BoundAssumption DEF Revisions
          <6>2. 1 <= revision[j] /\ revision[j] <= desired /\ (Active(j) => applied < revision[j])
            BY <6>1 DEF Order, RowsFit, RevisionsFit
          <6> QED
            BY <1>1, <6>1, <6>2
        <5> QED
          BY <3>1, <4>1, <5>2, <5>3
      <4>2. applied <= desired + 1
        BY <1>1 DEF Order, RowsFit, RevisionsFit
      <4> QED
        BY <1>1, <2>6, <4>1, <4>2 DEF RevisionsFit
    <3>3. Decided'
      BY <1>1, <2>0, <2>2, <2>6 DEF Decided
    <3> QED
      BY <3>2, <3>3
  <2> QED
    BY <2>3, <2>7, <2>8 DEF Order, RowsFit
<1> QED
  BY <1>2, <1>3

LEMMA ConnectInOrder ==
    ASSUME IInv, Order, NEW s \in Sessions, Connect(s), current \notin Sessions
    PROVE  Order'
<1> USE DEF IInv, Typed, TypeOK
<1>1. /\ UNCHANGED <<status, pc, doomed, held, target, toAgent, exec>>
      /\ current' = s
      /\ readyState'[s] = "OPEN" /\ agentOpen'[s]
      /\ \A t \in Sessions \ {s} : /\ readyState'[t] = readyState[t]
                                   /\ agentOpen'[t] = agentOpen[t]
                                   /\ toPanel'[t] = toPanel[t]
      /\ toPanel'[s] = <<Hello>>
    BY DEF Connect, rowVars, workVars
<1>2. SlotFree(s) /\ RunningRows = {}
    BY DEF Connect, Order, Alone
<1>3. Alone'
    BY <1>1 DEF Order, Alone, SlotFree
<1>4. Wire'
  <2>1. toPanel'[s] = <<Hello>> /\ toAgent'[s] = <<>> /\ exec'[s] = Idle /\ pc'[s] = "idle"
    BY <1>1, <1>2 DEF SlotFree
  <2>2. Elements(<<Hello>>) = {Hello} /\ Ordered(<<Hello>>, ByResult)
    BY DEF Elements, Ordered
  <2>3. Elements(<<>>) = {} /\ Ordered(<<>>, ByCommand)
    BY EmptyQueue
  <2>4. /\ Answered(s)' = {} /\ Executing(s)' = {} /\ Sent(s)' = {} /\ Sending(s)' = {}
        /\ RunningRows' = {}
    BY <1>1, <1>2, <2>1, <2>2, <2>3
    DEF Answered, Executing, Sent, Sending, RunningRows, Hello
  <2>5. WorksInOrder(s)' /\ HasTheRunning(s)'
    BY <2>1, <2>2, <2>3, <2>4 DEF WorksInOrder, HasTheRunning, Before
  <2>6. ClaimsTheFirst(s)' /\ HelloIsAlone(s)'
    BY <2>1, <2>4 DEF ClaimsTheFirst, HelloIsAlone
  <2> QED
    BY <1>1, <2>5, <2>6 DEF Wire
<1>5. RowsFit'
    BY RowsStayFit DEF Order, Connect, rowVars, nodeVars
<1> QED
    BY <1>3, <1>4, <1>5 DEF Order

(* Nothing expires.                                                        *)
LEMMA NothingExpires ==
    ASSUME IInv, Order, Undisturbed
    PROVE  Expired = {} /\ Ready = Queued
<1> USE DEF IInv, Typed, TypeOK
<1>1. ASSUME NEW i \in Ids, Active(i) PROVE ~Late(i, revision[i])
  <2>1. late = {} /\ overdue = 0
    BY DEF Undisturbed
  <2>2. i \in 1 .. created
    BY <1>1, BoundAssumption DEF RowsExist, Active, Ids
  <2>3. kind[i] # "task" => 1 <= revision[i]
    BY <2>2 DEF Kinds, Order, RowsFit, RevisionsFit, Config
  <2>4. revision[i] \in Nat
    BY BoundAssumption DEF Revisions
  <2> QED
    BY <2>1, <2>3, <2>4 DEF Late
<1> QED
    BY <1>1 DEF Expired, Ready, Queued, Active

LEMMA ScanInOrder ==
    ASSUME IInv, Order, Undisturbed, NEW s \in Sessions, s = current, ScanExpired(s)
    PROVE  Order'
<1> USE DEF IInv, Typed, TypeOK, Workers
<1>1. /\ UNCHANGED <<created, kind, status, revision, desired, applied, lifecycle, current,
                     readyState, agentOpen, held, toAgent, toPanel, exec>>
      /\ pc[s] = "scan" /\ pc' = [pc EXCEPT ![s] = "pick"]
      /\ doomed' = [doomed EXCEPT ![s] = {}]
    BY NothingExpires
    DEF ScanExpired, ReadsExpired, ToExpire, rowVars, nodeVars, panelVars, agentVars
<1>2. pc'[s] = "pick" /\ doomed' = doomed
    BY <1>1 DEF Order, Alone
<1>3. Alone'
    BY <1>1, <1>2, StaysAlone
<1>4. Wire'
    BY <1>1, <1>2, WireStays
<1>5. RowsFit'
    BY <1>1, RowsStayFit DEF Order
<1> QED
    BY <1>3, <1>4, <1>5 DEF Order

LEMMA PickInOrder ==
    ASSUME IInv, Order, Undisturbed, NEW s \in Sessions, s = current, PickReady(s)
    PROVE  Order'
<1> USE DEF IInv, Typed, TypeOK, Workers
<1>1. /\ UNCHANGED <<created, kind, status, revision, desired, applied, lifecycle, current,
                     readyState, agentOpen, doomed, toAgent, toPanel, exec>>
      /\ pc[s] = "pick"
    BY DEF PickReady, rowVars, nodeVars, panelVars, agentVars
<1>2. RowsFit'
    BY <1>1, RowsStayFit DEF Order
<1>3. CASE Ready # {}
  <2>1. PICK i \in Ids : First(i, Ready) /\ held' = [held EXCEPT ![s] = [id |-> i, rev |-> revision[i]]]
    BY <1>3 DEF PickReady
  <2>2. pc' = [pc EXCEPT ![s] = "claim"] /\ pc'[s] = "claim" /\ held'[s].id = i
    BY <1>3, <2>1 DEF PickReady
  <2>3. Alone'
    BY <1>1, <2>2, StaysAlone
  <2>4. WorksInOrder(s) /\ HasTheRunning(s) /\ HelloIsAlone(s)
    BY DEF Order, Wire
  <2>5. /\ Answered(s)' = Answered(s) /\ Executing(s)' = Executing(s) /\ Sent(s)' = Sent(s)
        /\ Sending(s)' = Sending(s) /\ RunningRows' = RunningRows /\ Queued' = Queued
    BY <1>1, <2>2 DEF Answered, Executing, Sent, Sending, RunningRows, Queued
  <2>6. WorksInOrder(s)' /\ HasTheRunning(s)' /\ HelloIsAlone(s)'
    BY <1>1, <2>4, <2>5 DEF WorksInOrder, HasTheRunning, HelloIsAlone
  <2>7. ClaimsTheFirst(s)'
    BY <2>1, <2>2, <2>5, NothingExpires DEF ClaimsTheFirst
  <2>8. Wire'
    BY <1>1, <2>6, <2>7 DEF Wire
  <2> QED
    BY <1>2, <2>3, <2>8 DEF Order
<1>4. CASE Ready = {}
  <2>1. held' = held /\ pc' = [pc EXCEPT ![s] = "idle"] /\ pc'[s] = "idle"
    BY <1>4 DEF PickReady, Finished
  <2>2. Alone'
    BY <1>1, <2>1, StaysAlone
  <2>3. Wire'
    BY <1>1, <2>1, WireStays
  <2> QED
    BY <1>2, <2>2, <2>3 DEF Order
<1> QED
    BY <1>3, <1>4

LEMMA ClaimInOrder ==
    ASSUME IInv, Order, Undisturbed, NEW s \in Sessions, s = current, Claim(s)
    PROVE  Order'
<1> USE DEF IInv, Typed, TypeOK, Workers
<1>1. PICK i \in Ids : i = held[s].id
    BY DEF Claim, HeldOK, Command
<1>2. WorksInOrder(s) /\ HasTheRunning(s) /\ HelloIsAlone(s) /\ ClaimsTheFirst(s)
    BY DEF Order, Wire
<1>3. pc[s] = "claim" /\ i \in Queued /\ \A j \in Queued : i <= j
    BY <1>1, <1>2 DEF Claim, ClaimsTheFirst, First
<1>4. /\ status' = [status EXCEPT ![i] = "RUNNING"]
      /\ pc' = [pc EXCEPT ![s] = "send"]
      /\ UNCHANGED <<created, kind, revision, desired, applied, lifecycle, current, readyState,
                     agentOpen, doomed, held, toAgent, toPanel, exec>>
    BY <1>1, <1>3 DEF Claim, Claimable, Queued, nodeVars, panelVars, agentVars
<1>5. pc'[s] = "send" /\ created \in Nat /\ i \in 1 .. created
    BY <1>3, <1>4, BoundAssumption DEF RowsExist, Queued, Ids
<1>6. Alone'
    BY <1>4, <1>5, StaysAlone
<1>7. \A j \in RunningRows : j < i
  <2> SUFFICES ASSUME NEW j \in RunningRows, i < j PROVE FALSE
    BY <1>3 DEF RunningRows, Queued, Ids
  <2>1. j \in 1 .. created /\ status[j] = "RUNNING" /\ status[i] = "QUEUED"
    BY <1>3, BoundAssumption DEF RunningRows, RowsExist, Queued, Ids
  <2> QED
    BY <1>5, <2>1 DEF Order, RowsFit, RowsInOrder
<1>8. Wire'
  <2>1. /\ Answered(s)' = Answered(s) /\ Executing(s)' = Executing(s) /\ Sent(s)' = Sent(s)
        /\ Sending(s) = {} /\ Sending(s)' = {i}
    BY <1>1, <1>3, <1>4, <1>5 DEF Answered, Executing, Sent, Sending
  <2>2. RunningRows' = RunningRows \cup {i}
    BY <1>4 DEF RunningRows
  <2>3. Answered(s) \cup Executing(s) \cup Sent(s) = RunningRows
    BY <1>2, <2>1 DEF HasTheRunning
  <2>4. HasTheRunning(s)'
    BY <2>1, <2>2, <2>3 DEF HasTheRunning
  <2>5. Ordered(toAgent[s], ByCommand)' /\ Ordered(toPanel[s], ByResult)'
    BY <1>2, <1>4 DEF WorksInOrder
  <2>6. /\ Before(Answered(s), Executing(s) \cup Sent(s) \cup {i})
        /\ Before(Executing(s), Sent(s) \cup {i})
        /\ Before(Sent(s), {i})
    BY <1>2, <1>7, <2>1, <2>3 DEF WorksInOrder, Before
  <2>7. WorksInOrder(s)'
    BY <2>1, <2>5, <2>6 DEF WorksInOrder
  <2>8. ClaimsTheFirst(s)' /\ HelloIsAlone(s)'
    BY <1>2, <1>3, <1>4, <1>5 DEF ClaimsTheFirst, HelloIsAlone
  <2> QED
    BY <1>4, <2>4, <2>7, <2>8 DEF Wire
<1>9. \A j \in Ids : /\ Config(j)' <=> Config(j)
                     /\ Active(j)' <=> Active(j)
                     /\ status'[j] = IF j = i THEN "RUNNING" ELSE status[j]
    BY <1>3, <1>4 DEF Config, Active, Queued
<1>10. RowsInOrder'
  <2> SUFFICES ASSUME NEW a \in 1 .. created, NEW b \in 1 .. created, a < b
               PROVE  /\ Active(a)' => status'[b] \notin {"SUCCEEDED", "FAILED"}
                      /\ status'[b] = "RUNNING" => status'[a] # "QUEUED"
                      /\ Config(a)' /\ Config(b)' =>
                            /\ status'[a] = "QUEUED" => status'[b] = "QUEUED"
                            /\ revision[a] < revision[b]
    BY <1>4 DEF RowsInOrder
  <2>1. a \in Ids /\ b \in Ids
    BY <1>5, BoundAssumption DEF Ids
  <2>2. /\ Active(a) => status[b] \notin {"SUCCEEDED", "FAILED"}
        /\ status[b] = "RUNNING" => status[a] # "QUEUED"
        /\ Config(a) /\ Config(b) => /\ status[a] = "QUEUED" => status[b] = "QUEUED"
                                     /\ revision[a] < revision[b]
    BY DEF Order, RowsFit, RowsInOrder
  <2>3. b = i => status[a] # "QUEUED" /\ a # i
    BY <1>3, <2>1 DEF Queued, Ids
  <2> QED
    BY <1>9, <2>1, <2>2, <2>3
<1>11. RevisionsFit' /\ Decided'
  <2>1. \A j \in Ids : status'[j] # "CANCELLED" => status[j] # "CANCELLED"
    BY <1>3, <1>9 DEF Queued
  <2> QED
    BY <1>4, <1>9, <2>1 DEF Order, RowsFit, RevisionsFit, Decided
<1> QED
    BY <1>6, <1>8, <1>10, <1>11 DEF Order, RowsFit

LEMMA SendInOrder ==
    ASSUME IInv, Order, Undisturbed, NEW s \in Sessions, s = current, Send(s)
    PROVE  Order'
<1> USE DEF IInv, Typed, TypeOK, Workers
<1>1. PICK c \in Command : c = held[s]
    BY DEF Send, HeldOK
<1>2. WorksInOrder(s) /\ HasTheRunning(s) /\ HelloIsAlone(s)
    BY DEF Order, Wire
<1>3. pc[s] = "send" /\ SendsOn(s) = s /\ readyState[s] = "OPEN" /\ agentOpen[s]
    BY DEF Send, SendsOn, Undisturbed, Order, Alone
<1>4. /\ toAgent' = [toAgent EXCEPT ![s] = Append(toAgent[s], c)]
      /\ pc' = [pc EXCEPT ![s] = "idle"]
      /\ UNCHANGED <<created, kind, status, revision, desired, applied, lifecycle, current,
                     readyState, agentOpen, doomed, toPanel, exec>>
    BY <1>1, <1>3 DEF Send, Behind, Finished, rowVars, nodeVars, panelVars, agentVars
<1>5. pc'[s] = "idle" /\ toAgent'[s] = Append(toAgent[s], c)
    BY <1>4
<1>6. Alone'
    BY <1>4, <1>5, StaysAlone
<1>7. Wire'
  <2>1. Elements(toAgent'[s]) = Elements(toAgent[s]) \cup {c}
    BY <1>5, AppendElements
  <2>2. /\ Answered(s)' = Answered(s) /\ Executing(s)' = Executing(s)
        /\ Sent(s)' = Sent(s) \cup {c.id} /\ Sending(s) = {c.id} /\ Sending(s)' = {}
        /\ RunningRows' = RunningRows
    BY <1>1, <1>3, <1>4, <1>5, <2>1 DEF Answered, Executing, Sent, Sending, RunningRows
  <2>3. HasTheRunning(s)'
    BY <1>2, <2>2 DEF HasTheRunning
  <2>4. Ordered(toAgent'[s], ByCommand)
    <3>1. \A x \in Elements(toAgent[s]) : x \in Command /\ x.id < c.id
      BY <1>2, <2>2, ElementsInSet DEF WorksInOrder, Before, Sent
    <3>2. \A x \in Elements(toAgent[s]) : <<x, c>> \in ByCommand
      BY <3>1 DEF ByCommand
    <3> QED
      BY <1>2, <1>5, <3>2, OrderedAppend DEF WorksInOrder
  <2>5. WorksInOrder(s)'
    BY <1>2, <1>4, <2>2, <2>4 DEF WorksInOrder, Before
  <2>6. ClaimsTheFirst(s)' /\ HelloIsAlone(s)'
    BY <1>2, <1>4, <1>5, <2>2 DEF ClaimsTheFirst, HelloIsAlone
  <2> QED
    BY <1>4, <2>3, <2>5, <2>6 DEF Wire
<1>8. RowsFit'
    BY <1>4, RowsStayFit DEF Order
<1> QED
    BY <1>6, <1>7, <1>8 DEF Order

(* The pipeline takes the oldest message of its session.                   *)
LEMMA TakesTheHead ==
    ASSUME IInv, Order, NEW s \in Sessions, s = current, NEW type, Received(s, type)
    PROVE  /\ toPanel[s] \in Seq(ToPanel) /\ toPanel[s] # <<>> /\ pc[s] = "idle"
           /\ Head(toPanel[s]) \in ToPanel /\ Head(toPanel[s]).type = type
           /\ toPanel' = [toPanel EXCEPT ![s] = Tail(toPanel[s])]
           /\ Ordered(toPanel'[s], ByResult)
           /\ Elements(toPanel[s]) = {Head(toPanel[s])} \cup Elements(toPanel'[s])
           /\ \A x \in Elements(toPanel'[s]) : x \in ToPanel /\ <<Head(toPanel[s]), x>> \in ByResult
           /\ Hello \notin Elements(toPanel'[s])
<1> USE DEF IInv, Typed, TypeOK
<1>1. /\ toPanel[s] \in Seq(ToPanel) /\ toPanel[s] # <<>> /\ pc[s] = "idle"
      /\ toPanel' = [toPanel EXCEPT ![s] = Tail(toPanel[s])]
      /\ Head(toPanel[s]).type = type
      /\ toPanel'[s] = Tail(toPanel[s])
    BY DEF Received
<1>2. WorksInOrder(s) /\ HelloIsAlone(s)
    BY DEF Order, Wire
<1>3. /\ Ordered(toPanel'[s], ByResult)
      /\ Elements(toPanel[s]) = {Head(toPanel[s])} \cup Elements(toPanel'[s])
      /\ \A x \in Elements(toPanel'[s]) : <<Head(toPanel[s]), x>> \in ByResult
    BY <1>1, <1>2, OrderedTail DEF WorksInOrder
<1>4. Elements(toPanel[s]) \subseteq ToPanel
    BY ElementsInSet
<1>5. Hello \notin Elements(toPanel'[s])
  <2> SUFFICES ASSUME Hello \in Elements(toPanel'[s]) PROVE FALSE
    OBVIOUS
  <2>1. toPanel[s] = <<Hello>>
    BY <1>2, <1>3 DEF HelloIsAlone
  <2>2. toPanel'[s] = <<>>
    BY <1>1, <2>1
  <2> QED
    BY <2>2, EmptyQueue
<1> QED
    BY <1>1, <1>3, <1>4, <1>5

LEMMA HelloInOrder ==
    ASSUME IInv, Order, Undisturbed, NEW s \in Sessions, s = current, HandleHello(s)
    PROVE  Order'
<1> USE DEF IInv, Typed, TypeOK, Workers
<1>1. Received(s, "hello")
    BY DEF HandleHello
<1>2. /\ Head(toPanel[s]) \in ToPanel /\ Head(toPanel[s]).type = "hello" /\ pc[s] = "idle"
      /\ Head(toPanel[s]) \in Elements(toPanel[s])
      /\ toPanel' = [toPanel EXCEPT ![s] = Tail(toPanel[s])]
    BY <1>1, TakesTheHead
<1>3. Head(toPanel[s]) = Hello
    BY <1>2 DEF ToPanel, Hello
<1>4. WorksInOrder(s) /\ HasTheRunning(s) /\ HelloIsAlone(s)
    BY DEF Order, Wire
<1>5. toPanel[s] = <<Hello>> /\ RunningRows = {}
    BY <1>2, <1>3, <1>4 DEF HelloIsAlone
<1>6. /\ UNCHANGED <<created, kind, revision, desired, applied, lifecycle, current, readyState,
                     agentOpen, doomed, held, toAgent, exec>>
      /\ pc' = [pc EXCEPT ![s] = "scan"] /\ pc'[s] = "scan"
      /\ toPanel'[s] = <<>>
    BY <1>2, <1>5 DEF HandleHello, nodeVars, panelVars, agentVars
<1>7. status' = status
  <2>1. \A i \in Ids : status[i] # "RUNNING"
    BY <1>5 DEF RunningRows
  <2> QED
    BY <2>1 DEF HandleHello, AfterReset
<1>8. Alone'
    BY <1>2, <1>6, StaysAlone
<1>9. Wire'
  <2>1. Elements(<<>>) = {} /\ Ordered(<<>>, ByResult)
    BY EmptyQueue
  <2>2. Elements(<<Hello>>) = {Hello}
    BY DEF Elements
  <2>3. /\ Answered(s) = {} /\ Answered(s)' = {} /\ Executing(s)' = Executing(s)
        /\ Sent(s)' = Sent(s) /\ Sending(s)' = Sending(s) /\ RunningRows' = RunningRows
    BY <1>2, <1>5, <1>6, <1>7, <2>1, <2>2
    DEF Answered, Executing, Sent, Sending, RunningRows, Hello
  <2>4. WorksInOrder(s)' /\ HasTheRunning(s)'
    BY <1>4, <1>6, <2>1, <2>3 DEF WorksInOrder, HasTheRunning, Before
  <2>5. ClaimsTheFirst(s)' /\ HelloIsAlone(s)'
    BY <1>6, <2>1 DEF ClaimsTheFirst, HelloIsAlone
  <2> QED
    BY <1>6, <2>4, <2>5 DEF Wire
<1>10. RowsFit'
    BY <1>6, <1>7, RowsStayFit DEF Order
<1> QED
    BY <1>8, <1>9, <1>10 DEF Order

LEMMA HeartbeatInOrder ==
    ASSUME IInv, Order, Undisturbed, NEW s \in Sessions, s = current, HandleHeartbeat(s)
    PROVE  Order'
<1> USE DEF IInv, Typed, TypeOK, Workers
<1>1. Received(s, "heartbeat")
    BY DEF HandleHeartbeat
<1>2. /\ Head(toPanel[s]).type = "heartbeat" /\ pc[s] = "idle"
      /\ toPanel' = [toPanel EXCEPT ![s] = Tail(toPanel[s])]
      /\ Ordered(toPanel'[s], ByResult)
      /\ Elements(toPanel[s]) = {Head(toPanel[s])} \cup Elements(toPanel'[s])
      /\ Hello \notin Elements(toPanel'[s])
    BY <1>1, TakesTheHead
<1>3. WorksInOrder(s) /\ HasTheRunning(s)
    BY DEF Order, Wire
<1>4. /\ UNCHANGED <<created, kind, status, revision, desired, applied, lifecycle, current,
                     readyState, agentOpen, held, toAgent, exec>>
      /\ pc' = [pc EXCEPT ![s] = "pick"] /\ pc'[s] = "pick"
      /\ doomed' = [doomed EXCEPT ![s] = {}]
    BY NothingExpires
    DEF HandleHeartbeat, ReadsExpired, ToExpire, rowVars, nodeVars, panelVars, agentVars
<1>5. doomed' = doomed
    BY <1>4 DEF Order, Alone
<1>6. Alone'
    BY <1>2, <1>4, <1>5, StaysAlone
<1>7. Wire'
  <2>1. /\ Answered(s)' = Answered(s) /\ Executing(s)' = Executing(s) /\ Sent(s)' = Sent(s)
        /\ Sending(s)' = Sending(s) /\ RunningRows' = RunningRows
    BY <1>2, <1>4 DEF Answered, Executing, Sent, Sending, RunningRows
  <2>2. WorksInOrder(s)' /\ HasTheRunning(s)'
    BY <1>2, <1>3, <1>4, <2>1 DEF WorksInOrder, HasTheRunning
  <2>3. ClaimsTheFirst(s)' /\ HelloIsAlone(s)'
    BY <1>2, <1>4 DEF ClaimsTheFirst, HelloIsAlone
  <2> QED
    BY <1>4, <2>2, <2>3 DEF Wire
<1>8. RowsFit'
    BY <1>4, RowsStayFit DEF Order
<1> QED
    BY <1>6, <1>7, <1>8 DEF Order

(* A result that is handled is that of the oldest active row.              *)
LEMMA ResultOfTheOldest ==
    ASSUME IInv, Order, NEW s \in Sessions, s = current, Received(s, "result"),
           NEW i, i = Head(toPanel[s]).id
    PROVE  /\ i \in Ids /\ i \in 1 .. created /\ status[i] = "RUNNING"
           /\ Answered(s) = {i} \cup Answered(s)'
           /\ \A j \in RunningRows \ {i} : i < j
           /\ i \notin Answered(s)' \cup Executing(s) \cup Sent(s)
           /\ \A j \in 1 .. created : Active(j) => i <= j
<1> USE DEF IInv, Typed, TypeOK
<1> DEFINE m == Head(toPanel[s])
<1>1. /\ m \in ToPanel /\ m.type = "result" /\ pc[s] = "idle"
      /\ Elements(toPanel[s]) = {m} \cup Elements(toPanel'[s])
      /\ \A x \in Elements(toPanel'[s]) : x \in ToPanel /\ <<m, x>> \in ByResult
    BY TakesTheHead
<1>2. i \in Ids
    BY <1>1 DEF ToPanel
<1>3. Answered(s) = {i} \cup Answered(s)'
    BY <1>1 DEF Answered
<1>4. \A j \in Answered(s)' : i < j
    BY <1>1 DEF Answered, ByResult
<1>5. WorksInOrder(s) /\ HasTheRunning(s)
    BY DEF Order, Wire
<1>6. \A j \in Executing(s) \cup Sent(s) \cup Sending(s) : i < j
    BY <1>3, <1>5 DEF WorksInOrder, Before
<1>7. status[i] = "RUNNING" /\ \A j \in RunningRows \ {i} : i < j
    BY <1>3, <1>4, <1>5, <1>6 DEF HasTheRunning, RunningRows
<1>8. created \in Nat /\ \A j \in Ids : status[j] # "NONE" => j \in 1 .. created
    BY BoundAssumption DEF RowsExist, Ids
<1>9. ASSUME NEW j \in 1 .. created, Active(j) PROVE i <= j
  <2>1. j \in Ids /\ i \in 1 .. created
    BY SMTT(40), <1>2, <1>7, <1>8, BoundAssumption DEF Ids
  <2>2. CASE status[j] = "RUNNING"
    <3>1. j \in RunningRows /\ i \in Nat /\ j \in Nat
      BY <1>2, <1>8, <2>1, <2>2 DEF RunningRows
    <3>2. j = i \/ i < j
      BY <1>7, <3>1
    <3> QED
      BY <3>1, <3>2
  <2>3. CASE status[j] = "QUEUED"
    BY <1>7, <1>8, <2>1, <2>3 DEF Order, RowsFit, RowsInOrder
  <2> QED
    BY <1>9, <2>2, <2>3 DEF Active
<1> QED
    BY <1>2, <1>3, <1>4, <1>6, <1>7, <1>8, <1>9 DEF Ids

(* What completing it does to the rows.                                    *)
LEMMA CompleteInOrder ==
    ASSUME IInv, Order, NEW i \in Ids, NEW o, Complete(i, o), i \in 1 .. created,
           status[i] = "RUNNING", \A j \in 1 .. created : Active(j) => i <= j,
           UNCHANGED <<created, kind, revision, desired>>
    PROVE  RowsFit'
<1> USE DEF IInv, Typed, TypeOK
<1>0. created \in Nat /\ \A j \in 1 .. created : j \in Ids /\ j \in Nat
    BY BoundAssumption DEF Ids
<1>1. PICK end \in {"SUCCEEDED", "FAILED"} :
        \A j \in Ids : status'[j] = IF j = i THEN end
                                    ELSE IF o # "ok" /\ j \in CancelledBy(i, o) THEN "CANCELLED"
                                    ELSE status[j]
  <2>1. CASE o = "ok"
    <3>1. \A j \in Ids : status'[j] = IF j = i THEN "SUCCEEDED" ELSE status[j]
      BY <2>1 DEF Complete
    <3> QED
      BY <2>1, <3>1
  <2>2. CASE o # "ok"
    <3>1. \A j \in Ids : status'[j] = IF j = i THEN "FAILED"
                                      ELSE IF j \in CancelledBy(i, o) THEN "CANCELLED"
                                      ELSE status[j]
      BY <2>2 DEF Complete
    <3> QED
      BY <2>2, <3>1
  <2> QED
    BY <2>1, <2>2
<1>2. \A j \in Ids : /\ j \in CancelledBy(i, o) => j # i /\ j \in QueuedConfigs
                     /\ Config(j)' <=> Config(j)
                     /\ Active(j)' => Active(j) /\ j # i
                     /\ status'[j] \in {"RUNNING", "QUEUED"} => status'[j] = status[j] /\ j # i
  <2>1. \A j \in Ids : j \in CancelledBy(i, o) => j # i /\ j \in QueuedConfigs
    BY DEF CancelledBy
  <2> QED
    BY <1>1, <2>1 DEF Config, Active
<1>3. \A j \in 1 .. created : i < j /\ Active(i) => status[j] \notin {"SUCCEEDED", "FAILED"}
    BY DEF Order, RowsFit, RowsInOrder
<1>4. Active(i)
    BY DEF Active
<1>5. RowsInOrder'
  <2> SUFFICES ASSUME NEW a \in 1 .. created, NEW b \in 1 .. created, a < b
               PROVE  /\ Active(a)' => status'[b] \notin {"SUCCEEDED", "FAILED"}
                      /\ status'[b] = "RUNNING" => status'[a] # "QUEUED"
                      /\ Config(a)' /\ Config(b)' =>
                            /\ status'[a] = "QUEUED" => status'[b] = "QUEUED"
                            /\ revision[a] < revision[b]
    BY DEF RowsInOrder
  <2>1. /\ Active(a) => status[b] \notin {"SUCCEEDED", "FAILED"}
        /\ status[b] = "RUNNING" => status[a] # "QUEUED"
        /\ Config(a) /\ Config(b) => /\ status[a] = "QUEUED" => status[b] = "QUEUED"
                                     /\ revision[a] < revision[b]
    BY DEF Order, RowsFit, RowsInOrder
  <2>2. Active(a)' => status'[b] \notin {"SUCCEEDED", "FAILED"}
    <3> SUFFICES ASSUME Active(a)' PROVE status'[b] \notin {"SUCCEEDED", "FAILED"}
      OBVIOUS
    <3>1. Active(a) /\ a # i
      BY <1>0, <1>2
    <3>2. b # i
      BY <1>0, <3>1
    <3> QED
      BY <1>0, <1>1, <2>1, <3>1, <3>2
  <2>3. status'[b] = "RUNNING" => status'[a] # "QUEUED"
    BY <1>0, <1>2, <2>1
  <2>4. ASSUME Config(a), Config(b), status'[a] = "QUEUED"
        PROVE  status'[b] = "QUEUED"
    <3>1. status[a] = "QUEUED" /\ a # i /\ status[b] = "QUEUED" /\ b # i
      BY <1>0, <1>2, <2>1, <2>4
    <3>2. a \in QueuedConfigs /\ b \in QueuedConfigs
      BY <1>0, <2>4, <3>1 DEF QueuedConfigs, Queued, Config
    <3>3. a \in CancelledBy(i, o) <=> b \in CancelledBy(i, o)
      BY <3>1, <3>2 DEF CancelledBy
    <3> QED
      BY <1>0, <1>1, <2>4, <3>1, <3>3
  <2> QED
    BY <1>0, <1>2, <2>1, <2>2, <2>3, <2>4
<1>6. \A j \in Ids : Config(j) => revision[j] \in Nat /\ 1 <= revision[j] /\ revision[j] <= desired
    BY BoundAssumption DEF Order, RowsFit, RevisionsFit, Revisions
<1>7. CASE o = "ok" /\ kind[i] = "apply_config"
  <2>1. Config(i) /\ applied' = revision[i] /\ applied < revision[i]
        /\ lifecycle' = IF revision[i] = desired THEN "CONFIG_VALIDATED" ELSE "PROVISIONING"
    <3>1. Config(i)
      BY <1>7 DEF Config
    <3> QED
      BY <1>4, <1>6, <1>7, <3>1 DEF Complete, AcceptedRevision, Order, RowsFit, RevisionsFit
  <2>2. ASSUME NEW j \in Ids, Config(j), j # i, i <= j
        PROVE  revision[i] < revision[j]
    BY <1>0, <2>1, <2>2 DEF Order, RowsFit, RowsInOrder, Config
  <2>3. RevisionsFit'
    <3>1. \A j \in Ids : Config(j) /\ Active(j)' => applied' < revision[j]
      BY <1>2, <2>1, <2>2 DEF Config
    <3>2. applied' <= desired
      BY <1>6, <2>1
    <3>3. desired > 0 => \E j \in Ids : Config(j) /\ revision[j] = desired
      BY DEF Order, RowsFit, RevisionsFit
    <3> QED
      BY <1>2, <1>6, <3>1, <3>2, <3>3 DEF RevisionsFit
  <2>4. Decided'
    <3> SUFFICES ASSUME desired > 0, lifecycle' = "PROVISIONING",
                        \A j \in Ids : status'[j] # "CANCELLED"
                 PROVE  \E j \in Ids : Config(j)' /\ Active(j)' /\ revision[j] = desired
      BY DEF Decided
    <3>1. PICK j \in Ids : Config(j) /\ revision[j] = desired
      BY DEF Order, RowsFit, RevisionsFit
    <3>2. j # i /\ revision[i] < revision[j]
      BY <1>6, <2>1, <3>1
    <3>3. i < j
      <4> SUFFICES ASSUME j < i PROVE FALSE
        BY <1>0, <3>1, <3>2 DEF Config
      <4>1. revision[j] < revision[i]
        BY <2>1, <3>1 DEF Order, RowsFit, RowsInOrder, Config
      <4> QED
        BY <1>6, <2>1, <3>1, <3>2, <4>1
    <3>4. status[j] \notin {"SUCCEEDED", "FAILED"} /\ status[j] # "NONE"
      BY <1>0, <1>3, <1>4, <3>1, <3>3 DEF Config, RowsExist
    <3>5. status'[j] = status[j] /\ status[j] # "CANCELLED"
      BY <1>1, <1>7, <3>2
    <3>6. Active(j)'
      BY <3>4, <3>5 DEF Active, Statuses
    <3> QED
      BY <1>2, <3>1, <3>6
  <2> QED
    BY <1>5, <2>3, <2>4 DEF RowsFit
<1>8. CASE ~(o = "ok" /\ kind[i] = "apply_config")
  <2>1. applied' = applied /\ lifecycle' = IF kind[i] = "apply_config" THEN "FAILED" ELSE lifecycle
    BY <1>8 DEF Complete
  <2>2. RevisionsFit'
    BY <1>2, <2>1 DEF Order, RowsFit, RevisionsFit
  <2>3. Decided'
    <3> SUFFICES ASSUME desired > 0, lifecycle' = "PROVISIONING",
                        \A j \in Ids : status'[j] # "CANCELLED"
                 PROVE  \E j \in Ids : Config(j)' /\ Active(j)' /\ revision[j] = desired
      BY DEF Decided
    <3>1. kind[i] # "apply_config" /\ lifecycle = "PROVISIONING"
      BY <2>1
    <3>2. \A j \in Ids : status'[j] = IF j = i THEN end ELSE status[j]
      BY <1>1, <3>1 DEF CancelledBy
    <3>3. \A j \in Ids : status[j] # "CANCELLED"
      BY <3>2
    <3>4. PICK j \in Ids : Config(j) /\ Active(j) /\ revision[j] = desired
      BY <3>1, <3>3 DEF Order, RowsFit, Decided
    <3>5. j # i
      BY <3>1, <3>4 DEF Config
    <3> QED
      BY <1>2, <3>2, <3>4, <3>5 DEF Active
  <2> QED
    BY <1>5, <2>2, <2>3 DEF RowsFit
<1> QED
    BY <1>7, <1>8

LEMMA ResultInOrder ==
    ASSUME IInv, Order, Undisturbed, NEW s \in Sessions, s = current, HandleResult(s)
    PROVE  Order'
<1> USE DEF IInv, Typed, TypeOK, Workers
<1>1. PICK i : i = Head(toPanel[s]).id
    OBVIOUS
<1>2. Received(s, "result")
    BY DEF HandleResult
<1>3. /\ i \in Ids /\ i \in 1 .. created /\ status[i] = "RUNNING"
      /\ Answered(s) = {i} \cup Answered(s)'
      /\ \A j \in RunningRows \ {i} : i < j
      /\ i \notin Answered(s)' \cup Executing(s) \cup Sent(s)
      /\ \A j \in 1 .. created : Active(j) => i <= j
    BY <1>1, <1>2, ResultOfTheOldest
<1>4. PICK o : Complete(i, o)
    BY <1>1, <1>3 DEF HandleResult, Acceptable, Active
<1>5. /\ UNCHANGED <<created, kind, revision, desired, current, readyState, agentOpen, doomed,
                     held, toAgent, exec>>
      /\ pc' = [pc EXCEPT ![s] = "scan"] /\ pc'[s] = "scan"
    BY <1>1, <1>3 DEF HandleResult, Acceptable, Active, agentVars
<1>6. RowsFit'
    BY <1>3, <1>4, <1>5, CompleteInOrder
<1>7. /\ toPanel' = [toPanel EXCEPT ![s] = Tail(toPanel[s])] /\ pc[s] = "idle"
      /\ Ordered(toPanel'[s], ByResult)
      /\ Hello \notin Elements(toPanel'[s])
    BY <1>2, TakesTheHead
<1>8. Alone'
    BY <1>5, <1>7, StaysAlone
<1>9. RunningRows' = RunningRows \ {i}
  <2>1. CASE o = "ok"
    BY <1>3, <1>4, <2>1 DEF Complete, RunningRows
  <2>2. CASE o # "ok"
    <3>1. \A j \in CancelledBy(i, o) : status[j] # "RUNNING"
      BY DEF CancelledBy, QueuedConfigs, Queued
    <3>2. \A j \in Ids : status'[j] = IF j = i THEN "FAILED"
                                      ELSE IF j \in CancelledBy(i, o) THEN "CANCELLED"
                                      ELSE status[j]
      BY <1>4, <2>2 DEF Complete
    <3> QED
      BY <3>1, <3>2 DEF RunningRows
  <2> QED
    BY <2>1, <2>2
<1>10. Wire'
  <2>1. WorksInOrder(s) /\ HasTheRunning(s)
    BY DEF Order, Wire
  <2>2. /\ Executing(s)' = Executing(s) /\ Sent(s)' = Sent(s) /\ Sending(s) = {} /\ Sending(s)' = {}
    BY <1>5, <1>7 DEF Executing, Sent, Sending
  <2>3. HasTheRunning(s)'
    BY <1>3, <1>9, <2>1, <2>2 DEF HasTheRunning
  <2>4. WorksInOrder(s)'
    BY <1>3, <1>5, <1>7, <2>1, <2>2 DEF WorksInOrder, Before
  <2>5. ClaimsTheFirst(s)' /\ HelloIsAlone(s)'
    BY <1>5, <1>7 DEF ClaimsTheFirst, HelloIsAlone
  <2> QED
    BY <1>5, <2>3, <2>4, <2>5 DEF Wire
<1> QED
    BY <1>6, <1>8, <1>10 DEF Order

LEMMA SendHeartbeatInOrder ==
    ASSUME IInv, Order, Undisturbed, NEW s \in Sessions, s = current, SendHeartbeat(s)
    PROVE  Order'
<1> USE DEF IInv, Typed, TypeOK, Workers
<1>1. /\ UNCHANGED <<created, kind, status, revision, desired, applied, lifecycle, current,
                     readyState, agentOpen, pc, doomed, held, toAgent, exec>>
      /\ toPanel[s] = <<>> /\ toPanel' = [toPanel EXCEPT ![s] = Append(toPanel[s], Heartbeat)]
      /\ toPanel'[s] = Append(toPanel[s], Heartbeat)
    BY DEF SendHeartbeat, rowVars, nodeVars, panelVars, workVars, agentVars
<1>2. Alone'
    BY <1>1, StaysAlone DEF Order, Alone
<1>3. Wire'
  <2>1. WorksInOrder(s) /\ HasTheRunning(s) /\ ClaimsTheFirst(s)
    BY DEF Order, Wire
  <2>2. Heartbeat \in ToPanel /\ Heartbeat # Hello /\ Heartbeat.type # "result"
    BY DEF Heartbeat, ToPanel, Hello
  <2>3. Elements(<<>>) = {} /\ Ordered(<<>>, ByResult) /\ toPanel[s] \in Seq(ToPanel)
    BY EmptyQueue
  <2>4. Elements(toPanel'[s]) = {Heartbeat} /\ Ordered(toPanel'[s], ByResult)
    <3> HIDE DEF TypeOK
    <3>1. PICK q \in Seq(ToPanel) : q = toPanel[s]
      BY <2>3
    <3>2. Elements(Append(q, Heartbeat)) = Elements(q) \cup {Heartbeat}
      BY <2>2, AppendElements
    <3>3. Elements(q) = {} /\ Ordered(q, ByResult)
      BY <1>1, <2>3, <3>1
    <3>4. Ordered(Append(q, Heartbeat), ByResult)
      BY <2>2, <3>3, OrderedAppend
    <3> QED
      BY <1>1, <3>1, <3>2, <3>3, <3>4
  <2>5. /\ Answered(s)' = Answered(s) /\ Executing(s)' = Executing(s) /\ Sent(s)' = Sent(s)
        /\ Sending(s)' = Sending(s) /\ RunningRows' = RunningRows /\ Queued' = Queued
    BY <1>1, <2>2, <2>3, <2>4 DEF Answered, Executing, Sent, Sending, RunningRows, Queued
  <2>6. WorksInOrder(s)' /\ HasTheRunning(s)'
    BY <1>1, <2>1, <2>4, <2>5 DEF WorksInOrder, HasTheRunning
  <2>7. ClaimsTheFirst(s)' /\ HelloIsAlone(s)'
    BY <1>1, <2>1, <2>2, <2>4, <2>5 DEF ClaimsTheFirst, HelloIsAlone
  <2> QED
    BY <1>1, <2>6, <2>7 DEF Wire
<1>4. RowsFit'
    BY <1>1, RowsStayFit DEF Order
<1> QED
    BY <1>2, <1>3, <1>4 DEF Order

(* An answer goes behind those of older rows.                              *)
LEMMA AnswerInOrder ==
    ASSUME IInv, Order, NEW s \in Sessions, s = current, NEW i \in RunningRows,
           NEW o \in Outcomes, NEW q, Answer(s, i, o, q), \A j \in Answered(s) : j < i
    PROVE  /\ toAgent' = [toAgent EXCEPT ![s] = q]
           /\ \A t \in Sessions \ {s} : toPanel'[t] = toPanel[t]
           /\ Ordered(toPanel'[s], ByResult)
           /\ Answered(s)' = Answered(s) \cup {i}
           /\ Hello \notin Elements(toPanel'[s])
<1> USE DEF IInv, Typed, TypeOK
<1> DEFINE m == Result(i, o)
<1>1. m \in ToPanel /\ m # Hello /\ m.type = "result" /\ m.id = i
    BY DEF Result, ToPanel, RunningRows, Hello
<1>2. readyState[s] = "OPEN" /\ agentOpen[s]
    BY DEF Order, Alone
<1>3. /\ toPanel' = [toPanel EXCEPT ![s] = Append(toPanel[s], m)]
      /\ toPanel'[s] = Append(toPanel[s], m)
      /\ toAgent' = [toAgent EXCEPT ![s] = q]
    BY <1>2 DEF Answer
<1>4. Elements(toPanel'[s]) = Elements(toPanel[s]) \cup {m}
    BY <1>1, <1>3, AppendElements
<1>5. WorksInOrder(s) /\ HelloIsAlone(s)
    BY DEF Order, Wire
<1>6. Ordered(toPanel'[s], ByResult)
  <2>1. ASSUME NEW x \in Elements(toPanel[s]) PROVE <<x, m>> \in ByResult
    <3>1. x \in ToPanel
      BY ElementsInSet
    <3>2. x.type = "result" => x.id < m.id
      BY <1>1 DEF Answered
    <3> QED
      BY <1>1, <3>1, <3>2 DEF ByResult
  <2> QED
    BY <1>1, <1>3, <1>5, <2>1, OrderedAppend DEF WorksInOrder
<1>7. Answered(s)' = Answered(s) \cup {i}
    BY <1>1, <1>4 DEF Answered
<1>8. Hello \notin Elements(toPanel'[s])
    BY <1>1, <1>4, <1>5 DEF HelloIsAlone
<1> QED
    BY <1>3, <1>6, <1>7, <1>8

LEMMA BeginInOrder ==
    ASSUME IInv, Order, Undisturbed, NEW s \in Sessions, s = current, Begin(s)
    PROVE  Order'
<1> USE DEF IInv, Typed, TypeOK, Workers
<1>1. PICK c : c = Head(toAgent[s])
    OBVIOUS
<1>2. PICK rest : rest = Tail(toAgent[s])
    OBVIOUS
<1>3. toAgent[s] # <<>> /\ exec[s] = Idle
    BY DEF Begin
<1>4. WorksInOrder(s) /\ HasTheRunning(s) /\ ClaimsTheFirst(s) /\ HelloIsAlone(s)
    BY DEF Order, Wire
<1>5. /\ Ordered(rest, ByCommand)
      /\ Elements(toAgent[s]) = {c} \cup Elements(rest)
      /\ \A x \in Elements(rest) : <<c, x>> \in ByCommand
    BY ZenonT(60), <1>1, <1>2, <1>3, <1>4, OrderedTail DEF WorksInOrder
<1>6. c \in Command /\ c.id \in Ids /\ c.rev \in Revisions
  <2>1. c \in Command
    BY <1>5, ElementsInSet
  <2> QED
    BY <2>1 DEF Command
<1> DEFINE S == {x.id : x \in Elements(rest)}
<1>7. Sent(s) = {c.id} \cup S /\ \A j \in S : c.id < j
  <2>1. Sent(s) = {c.id} \cup S
    BY <1>5 DEF Sent
  <2>2. \A x \in Elements(rest) : c.id < x.id
    BY <1>5 DEF ByCommand
  <2> QED
    BY <2>1, <2>2
<1>8. /\ UNCHANGED <<created, kind, status, revision, desired, applied, lifecycle, current,
                     readyState, agentOpen, pc, doomed, held>>
    BY DEF Begin, rowVars, nodeVars, panelVars, workVars
<1>9. c.id \in RunningRows /\ Executing(s) = {} /\ \A j \in Answered(s) : j < c.id
    BY <1>3, <1>4, <1>7 DEF HasTheRunning, WorksInOrder, Before, Executing
<1> DEFINE Taken ==
         /\ toAgent' = [toAgent EXCEPT ![s] = rest]
         /\ \A t \in Sessions \ {s} : toPanel'[t] = toPanel[t] /\ exec'[t] = exec[t]
         /\ Ordered(toPanel'[s], ByResult)
         /\ Hello \notin Elements(toPanel'[s])
         /\ \/ Answered(s)' = Answered(s) \cup {c.id} /\ Executing(s)' = {}
            \/ Answered(s)' = Answered(s) /\ Executing(s)' = {c.id}
<1>10. Taken
  <2>1. ASSUME NEW o \in Outcomes, Answer(s, c.id, o, rest), exec' = exec
        PROVE  Taken
    BY <1>3, <1>9, <2>1, AnswerInOrder DEF Executing
  <2>2. CASE Late(c.id, c.rev)
    BY <1>1, <1>2, <2>1, <2>2 DEF Begin, Outcomes
  <2>3. CASE ~Late(c.id, c.rev) /\ Replayed(c.id)
    BY <1>1, <1>2, <1>6, <2>1, <2>3 DEF Begin, Outcomes, Replayed
  <2>4. CASE ~Late(c.id, c.rev) /\ ~Replayed(c.id)
    <3>1. /\ exec' = [exec EXCEPT ![s] = [id |-> c.id, rev |-> c.rev, posted |-> FALSE]]
          /\ toAgent' = [toAgent EXCEPT ![s] = rest] /\ toPanel' = toPanel
      BY <1>1, <1>2, <2>4 DEF Begin
    <3>2. exec'[s].id = c.id /\ exec'[s] # Idle
      BY <1>6, <3>1 DEF Idle, Ids
    <3>3. Answered(s)' = Answered(s) /\ Executing(s)' = {c.id}
      BY <3>1, <3>2 DEF Answered, Executing
    <3> QED
      BY <1>4, <1>9, <3>1, <3>3 DEF WorksInOrder, HelloIsAlone
  <2> QED
    BY <2>2, <2>3, <2>4
<1>11. toAgent'[s] = rest /\ Sent(s)' = S /\ Sending(s)' = Sending(s) /\ RunningRows' = RunningRows
       /\ Queued' = Queued
    BY <1>8, <1>10 DEF Sent, Sending, RunningRows, Queued
<1>12. Alone'
    BY <1>8, <1>10, StaysAlone DEF Order, Alone
<1>13. Wire'
  <2>1. HasTheRunning(s)'
    BY <1>4, <1>7, <1>9, <1>10, <1>11 DEF HasTheRunning
  <2>2. WorksInOrder(s)'
    <3>1. /\ Before(Answered(s), {c.id} \cup S \cup Sending(s))
          /\ Before({c.id}, S \cup Sending(s)) /\ Before(S, Sending(s))
      BY <1>4, <1>7 DEF WorksInOrder, Before
    <3>2. /\ Before(Answered(s)', Executing(s)' \cup S \cup Sending(s))
          /\ Before(Executing(s)', S \cup Sending(s))
      BY ZenonT(60), <1>10, <3>1 DEF Before
    <3> QED
      BY <1>5, <1>10, <1>11, <3>1, <3>2 DEF WorksInOrder
  <2>3. ClaimsTheFirst(s)' /\ HelloIsAlone(s)'
    BY <1>4, <1>8, <1>10, <1>11 DEF ClaimsTheFirst, HelloIsAlone
  <2> QED
    BY <1>8, <2>1, <2>2, <2>3 DEF Wire
<1>14. RowsFit'
    BY <1>8, RowsStayFit DEF Order
<1> QED
    BY <1>12, <1>13, <1>14 DEF Order

LEMMA EffectInOrder ==
    ASSUME IInv, Order, Undisturbed, NEW s \in Sessions, s = current, Effect(s)
    PROVE  Order'
<1> USE DEF IInv, Typed, TypeOK, Workers
<1>1. /\ UNCHANGED <<created, kind, status, revision, desired, applied, lifecycle, current,
                     readyState, agentOpen, pc, doomed, held, toAgent, toPanel>>
      /\ \A t \in Sessions \ {s} : exec'[t] = exec[t]
      /\ exec[s] # Idle
    BY DEF Effect, rowVars, nodeVars, panelVars, workVars
<1>2. exec'[s].id = exec[s].id /\ exec'[s] # Idle
  <2>1. exec' = [exec EXCEPT ![s] = [exec[s] EXCEPT !.posted = TRUE]]
    BY DEF Effect
  <2>2. exec[s] \in [id : Ids, rev : Revisions, posted : BOOLEAN] /\ exec[s].id \in Ids
    BY <1>1
  <2>3. exec'[s].id = exec[s].id
    BY <2>1, <2>2
  <2> QED
    BY <2>2, <2>3 DEF Idle, Ids
<1>3. Alone'
    BY <1>1, StaysAlone DEF Order, Alone
<1>4. Wire'
  <2>1. WorksInOrder(s) /\ HasTheRunning(s) /\ ClaimsTheFirst(s) /\ HelloIsAlone(s)
    BY DEF Order, Wire
  <2>2. /\ Answered(s)' = Answered(s) /\ Executing(s)' = Executing(s) /\ Sent(s)' = Sent(s)
        /\ Sending(s)' = Sending(s) /\ RunningRows' = RunningRows /\ Queued' = Queued
    BY <1>1, <1>2 DEF Answered, Executing, Sent, Sending, RunningRows, Queued
  <2>3. WorksInOrder(s)' /\ HasTheRunning(s)' /\ ClaimsTheFirst(s)' /\ HelloIsAlone(s)'
    BY <1>1, <2>1, <2>2 DEF WorksInOrder, HasTheRunning, ClaimsTheFirst, HelloIsAlone
  <2> QED
    BY <1>1, <2>3 DEF Wire
<1>5. RowsFit'
    BY <1>1, RowsStayFit DEF Order
<1> QED
    BY <1>3, <1>4, <1>5 DEF Order

LEMMA FinishInOrder ==
    ASSUME IInv, Order, Undisturbed, NEW s \in Sessions, s = current, Finish(s)
    PROVE  Order'
<1> USE DEF IInv, Typed, TypeOK, Workers
<1>1. PICK i \in Ids : i = exec[s].id
    BY DEF Finish
<1>2. PICK o \in Endings(s) : Answer(s, i, Reported(i, o), toAgent[s])
    BY <1>1 DEF Finish
<1>3. Reported(i, o) \in Outcomes
    BY <1>2 DEF Reported, Endings, Outcomes
<1>4. WorksInOrder(s) /\ HasTheRunning(s) /\ ClaimsTheFirst(s) /\ HelloIsAlone(s)
    BY DEF Order, Wire
<1>5. Executing(s) = {i} /\ i \in RunningRows /\ \A j \in Answered(s) : j < i
    BY <1>1, <1>4 DEF Finish, Executing, HasTheRunning, WorksInOrder, Before
<1>6. /\ toAgent' = [toAgent EXCEPT ![s] = toAgent[s]]
      /\ \A t \in Sessions \ {s} : toPanel'[t] = toPanel[t]
      /\ Ordered(toPanel'[s], ByResult)
      /\ Answered(s)' = Answered(s) \cup {i}
      /\ Hello \notin Elements(toPanel'[s])
    BY <1>2, <1>3, <1>5, AnswerInOrder
<1>7. /\ UNCHANGED <<created, kind, status, revision, desired, applied, lifecycle, current,
                     readyState, agentOpen, pc, doomed, held>>
      /\ exec' = [exec EXCEPT ![s] = Idle]
    BY DEF Finish, rowVars, nodeVars, panelVars, workVars
<1>8. toAgent' = toAgent
    BY <1>6
<1>9. Alone'
    BY <1>6, <1>7, <1>8, StaysAlone DEF Order, Alone
<1>10. Wire'
  <2>1. /\ Executing(s)' = {} /\ Sent(s)' = Sent(s) /\ Sending(s)' = Sending(s)
        /\ RunningRows' = RunningRows /\ Queued' = Queued
    BY <1>7, <1>8 DEF Executing, Sent, Sending, RunningRows, Queued
  <2>2. HasTheRunning(s)'
    BY <1>4, <1>5, <1>6, <2>1 DEF HasTheRunning
  <2>3. WorksInOrder(s)'
    BY <1>4, <1>5, <1>6, <1>8, <2>1 DEF WorksInOrder, Before
  <2>4. ClaimsTheFirst(s)' /\ HelloIsAlone(s)'
    BY <1>4, <1>6, <1>7, <2>1 DEF ClaimsTheFirst, HelloIsAlone
  <2> QED
    BY <1>7, <2>2, <2>3, <2>4 DEF Wire
<1>11. RowsFit'
    BY <1>7, RowsStayFit DEF Order
<1> QED
    BY <1>9, <1>10, <1>11 DEF Order

LEMMA StutterInOrder == Order /\ UNCHANGED vars => Order'
<1> SUFFICES ASSUME Order, UNCHANGED vars PROVE Order'
    OBVIOUS
<1> USE DEF vars
<1>1. Alone'
    BY DEF Order, Alone, SlotFree, RunningRows
<1>2. RowsFit'
    BY RowsStayFit DEF Order
<1>3. ASSUME NEW s \in Sessions, s = current
      PROVE  WorksInOrder(s)' /\ HasTheRunning(s)' /\ ClaimsTheFirst(s)' /\ HelloIsAlone(s)'
  <2>1. WorksInOrder(s) /\ HasTheRunning(s) /\ ClaimsTheFirst(s) /\ HelloIsAlone(s)
    BY <1>3 DEF Order, Wire
  <2>2. /\ Answered(s)' = Answered(s) /\ Executing(s)' = Executing(s) /\ Sent(s)' = Sent(s)
        /\ Sending(s)' = Sending(s) /\ RunningRows' = RunningRows /\ Queued' = Queued
    BY DEF Answered, Executing, Sent, Sending, RunningRows, Queued
  <2> QED
    BY <2>1, <2>2 DEF WorksInOrder, HasTheRunning, ClaimsTheFirst, HelloIsAlone
<1> QED
    BY <1>1, <1>2, <1>3 DEF Order, Wire

LEMMA NextInOrder == IInv /\ OrderInv /\ [Next]_vars => OrderInv'
<1> SUFFICES ASSUME IInv, OrderInv, [Next]_vars, Undisturbed'
             PROVE  Order'
    BY DEF OrderInv
<1>1. Undisturbed /\ Order
    BY UndisturbedBefore DEF OrderInv
<1>2. /\ late = {} /\ overdue = 0 /\ faults = MaxFaults /\ Dispatchers = {}
      /\ late' = {} /\ overdue' = 0 /\ faults' = MaxFaults
    BY <1>1 DEF Undisturbed
<1>3. faults' # faults - 1
    BY <1>2, BoundAssumption
<1>4. CASE Environment
  <2>1. ~(\E i \in Ids : TaskDeadlinePasses(i)) /\ ~ConfigDeadlinePasses
    <3>1. ASSUME NEW i \in Ids, TaskDeadlinePasses(i) PROVE i \in late'
      BY <3>1 DEF TaskDeadlinePasses
    <3>2. ConfigDeadlinePasses => overdue' = overdue + 1
      BY DEF ConfigDeadlinePasses
    <3> QED
      BY <1>2, <3>1, <3>2
  <2>2. ~(\E s \in Sessions : ConnectionBreaks(s)) /\ ~PanelRestarts /\ ~AgentRestarts
    BY <1>3 DEF ConnectionBreaks, PanelRestarts, AgentRestarts
  <2> QED
    BY <1>1, <1>4, <2>1, <2>2, EnqueueTaskInOrder, StartNodeInOrder DEF Environment
<1>5. ASSUME NEW s \in Sessions,
             SessionSteps(s) \/ PipelineSteps(s) \/ AgentSteps(s) \/ WorkerSteps(s)
      PROVE  Order'
  <2>1. CASE s # current
    BY <1>1, <1>5, <2>1, ActsAlone, ConnectInOrder
  <2>2. CASE s = current
    <3>1. /\ ~SessionSteps(s) /\ ~LoopReturns(s) /\ ~FailExpired(s)
          /\ ~StoreUnreadable(s) /\ ~StoreUnwritable(s)
      BY <1>1, <1>3, <1>5, <2>2, ActsAlone DEF SessionSteps, StoreUnreadable, StoreUnwritable
    <3>2. CASE PipelineSteps(s)
      BY <1>1, <2>2, <3>2, HelloInOrder, HeartbeatInOrder, ResultInOrder DEF PipelineSteps
    <3>3. CASE WorkerSteps(s)
      BY <1>1, <2>2, <3>1, <3>3, ScanInOrder, PickInOrder, ClaimInOrder, SendInOrder DEF WorkerSteps
    <3>4. CASE AgentSteps(s)
      BY <1>1, <2>2, <3>1, <3>4, SendHeartbeatInOrder, BeginInOrder, EffectInOrder, FinishInOrder
      DEF AgentSteps
    <3> QED
      BY <1>5, <3>1, <3>2, <3>3, <3>4
  <2> QED
    BY <2>1, <2>2
<1>6. CASE UNCHANGED vars
    BY <1>1, <1>6, StutterInOrder
<1> QED
    BY <1>2, <1>4, <1>5, <1>6 DEF Next, Workers

LEMMA OrderHolds == Spec => []OrderInv
<1>1. Init => OrderInv
    BY OrderInit DEF OrderInv
<1>2. IInv /\ OrderInv /\ [Next]_vars => OrderInv'
    BY NextInOrder
<1> QED
    BY <1>1, <1>2, Invariance, PTL DEF Spec

(* Without a fault, a deadline or a dispatch beside the pipeline, a Node   *)
(* all of whose commands have their outcome, none of them cancelled, is    *)
(* not left provisioning (completeCommand).                                *)
THEOREM QuietNodeIsDecided == Spec => []QuiescentNodeIsDecided
<1>1. OrderInv => QuiescentNodeIsDecided
    BY DEF OrderInv, Order, RowsFit, Decided, QuiescentNodeIsDecided
<1> QED
    BY <1>1, OrderHolds, PTL

(* Nothing but a result changes what the Node has applied, and that of an  *)
(* active configuration asks for more than what it has.                    *)
LEMMA AppliedOnlyGrows ==
    ASSUME IInv, OrderInv, [Next]_vars, Undisturbed
    PROVE  applied' >= applied
<1> USE DEF IInv, Typed, TypeOK
<1>1. Order /\ applied \in Nat
    BY BoundAssumption DEF OrderInv, Revisions
<1>2. CASE UNCHANGED applied
    BY <1>1, <1>2
<1>3. ASSUME NEW s \in Sessions, HandleResult(s), applied' # applied
      PROVE  applied' >= applied
  <2>1. s = current
    BY <1>1, <1>3, ActsAlone DEF PipelineSteps, Connect, nodeVars
  <2>2. PICK i : i = Head(toPanel[s]).id
    OBVIOUS
  <2>3. i \in Ids /\ i \in 1 .. created /\ status[i] = "RUNNING"
    BY <1>1, <1>3, <2>1, <2>2, ResultOfTheOldest DEF HandleResult
  <2>4. PICK o : Complete(i, o)
    BY <2>2, <2>3, <1>3 DEF HandleResult, Acceptable, Active
  <2>5. kind[i] = "apply_config" /\ applied' = AcceptedRevision(i)
    BY <1>3, <2>4 DEF Complete
  <2>6. revision[i] <= desired /\ applied < revision[i] /\ revision[i] \in Nat
    BY <1>1, <2>3, <2>5, BoundAssumption
    DEF Order, RowsFit, RevisionsFit, Config, Active, Revisions
  <2> QED
    BY <1>1, <2>5, <2>6 DEF AcceptedRevision
<1>4. CASE Environment
    BY <1>2, <1>4
    DEF Environment, EnqueueTask, StartNode, TaskDeadlinePasses, ConfigDeadlinePasses,
        ConnectionBreaks, PanelRestarts, AgentRestarts, nodeVars
<1>5. ASSUME NEW s \in Sessions,
             SessionSteps(s) \/ PipelineSteps(s) \/ AgentSteps(s) \/ WorkerSteps(s)
      PROVE  applied' >= applied
  <2>1. CASE SessionSteps(s)
    BY <1>2, <2>1 DEF SessionSteps, Connect, PanelNotices, AgentNotices, nodeVars
  <2>2. CASE PipelineSteps(s)
    BY <1>2, <1>3, <2>2 DEF PipelineSteps, HandleHello, HandleHeartbeat, nodeVars
  <2>3. CASE AgentSteps(s)
    BY <1>2, <2>3
    DEF AgentSteps, SendHeartbeat, Begin, StoreUnreadable, LoopReturns, Effect, Finish,
        StoreUnwritable, nodeVars
  <2>4. CASE WorkerSteps(s)
    <3>1. ~FailExpired(s)
      BY <1>1 DEF Order, Alone, FailExpired
    <3> QED
      BY <1>2, <2>4, <3>1 DEF WorkerSteps, ScanExpired, PickReady, Claim, Send, nodeVars
  <2> QED
    BY <1>5, <2>1, <2>2, <2>3, <2>4
<1>6. CASE UNCHANGED vars
    BY <1>2, <1>6 DEF vars
<1> QED
    BY <1>4, <1>5, <1>6 DEF Next, Workers, Undisturbed

(* In the same behaviours appliedRevision never goes back: results are     *)
(* handled in the order of the queue and none is handled twice.            *)
THEOREM RevisionsAreAppliedInOrder == Spec => AppliedNeverRegresses
<1>1. IInv /\ OrderInv /\ [Next]_vars => [Undisturbed => applied' >= applied]_vars
    BY AppliedOnlyGrows
<1> QED
    BY <1>1, Invariance, OrderHolds, PTL DEF Spec, AppliedNeverRegresses
=============================================================================
