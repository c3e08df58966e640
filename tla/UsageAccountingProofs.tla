----------------------- MODULE UsageAccountingProofs -----------------------
(***************************************************************************)
(* What UsageAccounting guarantees for any users, Nodes, units and faults. *)
(***************************************************************************)
EXTENDS UsageAccounting, FiniteSetTheorems, TLAPS

(* Where a unit that was consumed may be on its way to the history: one    *)
(* place at a time, and it was not recorded before it left the last.       *)
PollsOfNodes ==
    \A n \in Nodes : poll[n] # Idle => poll[n].units \subseteq OnNode(spent, n)

HistoryPlaces ==
    /\ counters \subseteq spent /\ hash \subseteq spent /\ processing \subseteq spent
    /\ \A p \in Units : p \notin spent => recorded[p] = 0
    /\ \A p \in counters :
          ~Answered(p) /\ p \notin hash /\ p \notin processing /\ recorded[p] = 0
    /\ \A p \in spent :
          Answered(p) => p \notin hash /\ p \notin processing /\ recorded[p] = 0
    /\ \A p \in hash : p \notin processing /\ recorded[p] = 0
    /\ \A p \in processing : Pushing(p[2], "renamed") => recorded[p] = 0

HistoryInv ==
    PollsOfNodes /\ HistoryPlaces /\ RecordedOnce /\ NothingLeavesHistory

(* The same on the way to the accounts: how often a unit was charged while *)
(* its job is at each stage.                                               *)
InJob(p) == \E j \in charges : p \in j.units

ChargedBy(j, p) ==
    (IF j.stage = "committed" THEN 1 ELSE 0) + (IF j.again /\ p \in recharged THEN 1 ELSE 0)

ChargePlaces ==
    /\ counters \subseteq spent
    /\ \A j \in charges : j.units \subseteq spent
    /\ \A p \in Units : p \notin spent => charged[p] = 0
    /\ \A p \in counters : ~Answered(p) /\ ~Counted(p) /\ ~InJob(p) /\ charged[p] = 0
    /\ \A p \in spent : Answered(p) \/ Counted(p) => ~InJob(p) /\ charged[p] = 0
    /\ \A j, k \in charges : \A p \in j.units : p \in k.units => j = k
    /\ \A j \in charges : \A p \in j.units : charged[p] <= ChargedBy(j, p)
    /\ \A j \in charges : j.stage = "committed" => \A p \in j.units : charged[p] > 0

ChargeInv ==
    PollsOfNodes /\ ChargePlaces /\ ChargedOnce /\ NothingLeavesCharges

(* While a reset is at work the queue of the charges is paused, and once   *)
(* it saw the queue quiet nothing of it runs.                              *)
ResetInv ==
    /\ reset # Idle =>
          /\ reset.stage # "waiting" \/ reset.again => "charges" \in paused
          /\ reset.stage = "waiting" /\ ~reset.again => reset.done = {}
          /\ ~reset.gaveUp /\ (reset.done # {} \/ reset.stage \in {"selected", "swept", "resuming"})
                => Running = {}
    /\ ResetHolds /\ PausedByReset

-----------------------------------------------------------------------------
(* The variables have their types, and no job is Idle.                     *)
LEMMA JobFacts ==
    ASSUME TypeOK, NEW n \in Nodes
    PROVE  /\ poll[n] # Idle => poll[n] \in Polls
           /\ push[n] # Idle => push[n] \in Pushes
    BY DEF TypeOK

LEMMA PollTypes ==
    ASSUME TypeOK, NEW n \in Nodes, PollNode(n)
    PROVE  TypeOK'
<1>0. /\ poll[n] # Idle => poll[n] \in Polls
      /\ push[n] # Idle => push[n] \in Pushes
    BY JobFacts
<1> USE UsageBounds DEF TypeOK, traffic, recordVars, chargeVars, resetVars, Polling, Fault, OnNode
<1>1. CASE PollAnswers(n)
    BY <1>0, <1>1 DEF PollAnswers, PollEnds, Polls
<1>2. CASE PollUnanswered(n)
    BY <1>2 DEF PollUnanswered, PollEnds
<1>3. CASE PollCounts(n)
    BY <1>0, <1>3 DEF PollCounts, Kept, Polls
<1>4. CASE PollCharges(n)
  <2>1. /\ poll' \in [Nodes -> Polls \cup {Idle}]
        /\ poll[n].units \in SUBSET Units
    BY <1>0, <1>4 DEF PollCharges, PollTo, Polls
  <2>2. [stage |-> "waiting", units |-> poll[n].units, again |-> FALSE] \in Charges
    BY <2>1 DEF Charges
  <2> QED
    BY <1>4, <2>1, <2>2 DEF PollCharges
<1>5. CASE PollPushes(n)
    BY <1>0, <1>5 DEF PollPushes, PollEnds, Pushes
<1>6. CASE PollFails(n)
    BY <1>0, <1>6 DEF PollFails, PollEnds, PollLoses, Polls
<1>7. CASE PollAnswerLost(n)
    BY <1>0, <1>7 DEF PollAnswerLost, PollEnds
<1>8. CASE PollCutOff(n)
  <2>1. [NewPoll EXCEPT !.again = TRUE] \in Polls
    BY DEF NewPoll, Polls
  <2>2. poll' \in [Nodes -> Polls \cup {Idle}]
    BY <1>8, <2>1 DEF PollCutOff
  <2>3. lostRecord' \subseteq Units /\ lostCharge' \subseteq Units
    BY <1>0, <1>8 DEF PollCutOff, PollLoses, Polls
  <2> QED
    BY <1>8, <2>2, <2>3 DEF PollCutOff, PollLoses
<1> QED
    BY <1>1, <1>2, <1>3, <1>4, <1>5, <1>6, <1>7, <1>8 DEF PollNode

LEMMA PushTypes ==
    ASSUME TypeOK, NEW n \in Nodes, PushNode(n)
    PROVE  TypeOK'
<1>0. push[n] # Idle => push[n] \in Pushes
    BY JobFacts
<1> USE UsageBounds DEF TypeOK, traffic, chargeVars, resetVars, Pushing, PushTo, Fault, OnNode
<1>1. CASE PushRenames(n)
    BY <1>0, <1>1 DEF PushRenames, Pushes
<1>2. CASE PushFindsNothing(n)
    BY <1>0, <1>2 DEF PushFindsNothing, Pushes
<1>3. CASE PushUpserts(n)
    BY <1>0, <1>3 DEF PushUpserts, Pushes, Counts
<1>4. CASE PushUpsertFails(n)
    BY <1>0, <1>4 DEF PushUpsertFails, Pushes
<1>5. CASE PushEnds(n)
    BY <1>5 DEF PushEnds
<1>6. CASE PushCutOff(n)
    BY <1>0, <1>6 DEF PushCutOff, Pushes
<1>7. CASE HashExpires(n)
    BY <1>7 DEF HashExpires
<1> QED
    BY <1>1, <1>2, <1>3, <1>4, <1>5, <1>6, <1>7 DEF PushNode

LEMMA ChargeTypes ==
    ASSUME TypeOK, NEW j \in charges, ChargeJob(j)
    PROVE  TypeOK'
<1>0. j \in Charges
    BY DEF TypeOK
<1> USE UsageBounds DEF TypeOK, traffic, recordVars, resetVars, Become, Fault, Charges
<1>1. CASE ChargeBegins(j)
    BY <1>0, <1>1 DEF ChargeBegins
<1>2. CASE ChargeCommits(j)
    BY <1>0, <1>2 DEF ChargeCommits, Counts
<1>3. CASE ChargeEnds(j)
    BY <1>3 DEF ChargeEnds
<1>4. CASE ChargeFails(j)
    BY <1>0, <1>4 DEF ChargeFails
<1>5. CASE ChargeCutOff(j)
  <2>1. [j EXCEPT !.stage = "waiting", !.again = TRUE] \in Charges
    BY <1>0
  <2>2. charges' \subseteq Charges
    BY <1>5, <2>1 DEF ChargeCutOff
  <2>3. recharged' \subseteq Units /\ lostCharge' \subseteq Units
    BY <1>0, <1>5 DEF ChargeCutOff
  <2> QED
    BY <1>5, <2>2, <2>3 DEF ChargeCutOff
<1> QED
    BY <1>1, <1>2, <1>3, <1>4, <1>5 DEF ChargeJob

LEMMA ResetTypes ==
    ASSUME TypeOK, ResetJob
    PROVE  TypeOK'
<1>0. reset # Idle => reset \in Resets
    BY DEF TypeOK
<1> USE UsageBounds
    DEF TypeOK, nonReset, traffic, recordVars, Resetting, Fault, Request, Queues, ResetOver, Strands
<1>1. CASE ResetTask
    BY <1>1 DEF ResetTask, NewReset, Resets
<1>2. CASE ResetPauses
    BY <1>0, <1>2 DEF ResetPauses, Resets
<1>3. CASE ResetSelects
    BY <1>0, <1>3 DEF ResetSelects, Selects, Resets
<1>4. CASE ThrottleGivesUp
  <2>1. reset' \in Resets
    BY <1>0, <1>4 DEF ThrottleGivesUp, Selects, Resets
  <2> QED
    BY <1>4, <2>1 DEF ThrottleGivesUp, Selects
<1>5. CASE ResetActive
    BY <1>0, <1>5 DEF ResetActive, Zeroed, Resets
<1>6. CASE ResetActiveFails
    BY <1>0, <1>6 DEF ResetActiveFails, Resets
<1>7. CASE ResetLimited
  <2> DEFINE limited == {u \in Users : status[u] = "LIMITED"}
  <2>1. reset' \in Resets
    <3>1. reset \in Resets /\ limited \in SUBSET Users
      BY <1>0, <1>7 DEF ResetLimited
    <3>2. reset' = [reset EXCEPT !.stage = "resuming", !.done = @ \cup limited]
      BY <1>7 DEF ResetLimited
    <3> HIDE DEF limited
    <3> QED
      BY <3>1, <3>2 DEF Resets
  <2>2. /\ used' = Zeroed(limited) /\ stuck' = stuck \ limited
        /\ status' = [u \in Users |-> IF u \in limited THEN "ACTIVE" ELSE status[u]]
    BY <1>7 DEF ResetLimited
  <2> HIDE DEF limited
  <2>3. used' \in [Units -> Nat] /\ status' \in [Users -> Statuses] /\ stuck' \subseteq Users
    BY <2>2 DEF Zeroed, Statuses
  <2> QED
    BY <1>7, <2>1, <2>3 DEF ResetLimited
<1>8. CASE ResetLimitedFails
    BY <1>0, <1>8 DEF ResetLimitedFails, Resets
<1>9. CASE ResetResumes
    BY <1>9 DEF ResetResumes
<1>10. CASE ResumeFails
    BY <1>10 DEF ResumeFails
<1>11. CASE ThrottleFails
    BY <1>0, <1>11 DEF ThrottleFails, Resets
<1>12. CASE ResetCutOff
  <2>1. reset.done \subseteq Users /\ [reset EXCEPT !.stage = "waiting", !.again = TRUE] \in Resets
    BY <1>0, <1>12 DEF ResetCutOff, Resets
  <2>2. CASE reset.again
    BY <1>12, <2>1, <2>2 DEF ResetCutOff
  <2>3. CASE ~reset.again
    BY <1>12, <2>1, <2>3 DEF ResetCutOff
  <2> QED
    BY <2>2, <2>3
<1> QED
    BY <1>1, <1>2, <1>3, <1>4, <1>5, <1>6, <1>7, <1>8, <1>9, <1>10, <1>11, <1>12 DEF ResetJob

(* What requests, watchdogs and the update of all users leave alone.       *)
userFrame == <<traffic, poll, recordVars, charges, charged, lostCharge, recharged,
               reset, paused, abandoned>>

LEMMA UserSteps ==
    ASSUME TypeOK, UserStep
    PROVE  /\ UNCHANGED userFrame
           /\ used' = used \/ \E u \in Users : used' = Zeroed({u})
<1> USE DEF userFrame
<1>1. CASE \/ FindExceededUsers
           \/ \E us \in SUBSET Users : FindExpiredUsers(us) \/ BulkSyncExpiredUsers(us)
    BY <1>1 DEF FindExceededUsers, FindExpiredUsers, BulkSyncExpiredUsers, nonUsers, chargeVars
<1>2. CASE BulkJob
    BY <1>2 DEF BulkJob, BulkUpdateAllUsers, UpdateRanges, BulkSyncLimitedUsers, BulkSyncFails,
                BulkCutOff, nonBulk, chargeVars
<1>3. CASE \E u \in Users : UserRequest(u)
    BY <1>3 DEF UserRequest, ResetUserTraffic, ExtendUserExpirationDate, SetUserStatus,
                UpdateUser, Asks, chargeVars
<1>4. CASE \E w \in writes : WriteUser(w) /\ w.user \in Users
    BY <1>4 DEF WriteUser
<1>5. \A w \in writes : w.user \in Users
    BY DEF TypeOK, Writes
<1> QED
    BY <1>1, <1>2, <1>3, <1>4, <1>5 DEF UserStep

LEMMA RequestTypes ==
    ASSUME TypeOK, NEW u \in Users, UserRequest(u)
    PROVE  TypeOK'
<1>1. PICK zeroes \in BOOLEAN, s \in Statuses \cup {Same}, l \in Limits \cup {Same} :
          Asks(u, zeroes, s, l)
  <2>1. CASE \/ ResetUserTraffic(u) \/ ExtendUserExpirationDate(u)
             \/ \E wanted \in {"ACTIVE", "DISABLED"} : SetUserStatus(u, wanted)
    BY <2>1 DEF ResetUserTraffic, ExtendUserExpirationDate, SetUserStatus, Statuses, TypeOK
  <2>2. ASSUME NEW change \in Changes, NEW prolongs \in BOOLEAN,
               UpdateUser(u, change.status, change.limit, prolongs)
        PROVE  \E s \in Statuses \cup {Same}, l \in Limits \cup {Same} : Asks(u, FALSE, s, l)
    <3>1. change.limit \in Limits \cup {Same}
      BY UserInputs
    <3>2. \E s \in {"ACTIVE", "DISABLED", Same} : Asks(u, FALSE, s, change.limit)
      BY <2>2 DEF UpdateUser
    <3> QED
      BY <3>1, <3>2 DEF Statuses
  <2> QED
    BY <2>1, <2>2 DEF UserRequest
<1>2. requests' \in 1 .. MaxRequests /\ requests' \in 0 .. MaxRequests
    BY <1>1, UsageBounds DEF Asks, Request, TypeOK
<1>3. [id |-> requests', user |-> u, zeroes |-> zeroes, status |-> s, limit |-> l,
       seen |-> status[u], seenLimit |-> limit[u]] \in Writes
    BY <1>2 DEF TypeOK, Writes
<1> QED
    BY <1>1, <1>2, <1>3 DEF Asks, TypeOK, traffic, recordVars, chargeVars

LEMMA BulkTypes ==
    ASSUME TypeOK, BulkJob
    PROVE  TypeOK'
<1>0. bulk # Idle => bulk \in Updates
    BY DEF TypeOK
<1> USE UsageBounds
    DEF TypeOK, nonBulk, traffic, recordVars, chargeVars, Updating, Fault, Request
<1>1. ASSUME NEW change \in Changes, BulkUpdateAllUsers(change.status, change.limit)
      PROVE  TypeOK'
  <2>1. bulk' \in Updates
    BY <1>1, UserInputs DEF BulkUpdateAllUsers, Updates
  <2> QED
    BY <1>1, <2>1 DEF BulkUpdateAllUsers
<1>2. ASSUME NEW us \in SUBSET Users, UpdateRanges(us)
      PROVE  TypeOK'
  <2>1. bulk \in Updates
    BY <1>0, <1>2 DEF UpdateRanges
  <2>2. bulk' \in Updates \cup {Idle}
    BY <1>2, <2>1 DEF UpdateRanges, Updates
  <2>3. status' \in [Users -> Statuses] /\ limit' \in [Users -> Limits] /\ stuck' \subseteq Users
    BY <1>2, <2>1 DEF UpdateRanges, Updates, Statuses
  <2>4. faults' \in 0 .. MaxFaults
    BY <1>2 DEF UpdateRanges
  <2> QED
    BY <1>2, <2>2, <2>3, <2>4 DEF UpdateRanges
<1>3. CASE BulkSyncLimitedUsers
    BY <1>3 DEF BulkSyncLimitedUsers, Statuses
<1>4. CASE BulkSyncFails
    BY <1>4 DEF BulkSyncFails, BelowLimit
<1>5. CASE BulkCutOff
  <2>1. bulk' \in Updates \cup {Idle}
    BY <1>0, <1>5 DEF BulkCutOff, Updates
  <2>2. stuck' \subseteq Users
    BY <1>5 DEF BulkCutOff, BelowLimit
  <2> QED
    BY <1>5, <2>1, <2>2 DEF BulkCutOff
<1> QED
    BY <1>1, <1>2, <1>3, <1>4, <1>5 DEF BulkJob

LEMMA UserTypes ==
    ASSUME TypeOK, UserStep
    PROVE  TypeOK'
<1>1. CASE FindExceededUsers
    BY <1>1 DEF FindExceededUsers, nonUsers, TypeOK, Statuses, traffic, recordVars, chargeVars
<1>2. ASSUME NEW us \in SUBSET Users, FindExpiredUsers(us) \/ BulkSyncExpiredUsers(us)
      PROVE  TypeOK'
    BY <1>2, UsageBounds DEF FindExpiredUsers, BulkSyncExpiredUsers, nonUsers, TypeOK, Statuses,
          Request, traffic, recordVars, chargeVars
<1>3. ASSUME NEW w \in writes, WriteUser(w)
      PROVE  TypeOK'
  <2>1. w \in Writes
    BY DEF TypeOK
  <2>2. /\ writes' \subseteq Writes /\ stuck' \subseteq Users
        /\ status' \in [Users -> Statuses] /\ limit' \in [Users -> Limits]
    BY <1>3, <2>1 DEF WriteUser, TypeOK, Writes
  <2>3. used' \in [Units -> Nat]
    BY <1>3 DEF WriteUser, Zeroed, TypeOK
  <2> QED
    BY <1>3, <2>2, <2>3 DEF WriteUser, TypeOK, traffic, recordVars
<1> QED
    BY <1>1, <1>2, <1>3, RequestTypes, BulkTypes DEF UserStep

LEMMA OtherTypes ==
    ASSUME TypeOK,
           \/ \E p \in Units : Consume(p)
           \/ \E n \in Nodes : XrayRestarts(n) \/ HealthCheck(n)
           \/ RecordUserUsageTask
    PROVE  TypeOK'
<1> USE UsageBounds DEF TypeOK, traffic, recordVars, chargeVars, resetVars, Fault, OnNode
<1>1. CASE \E p \in Units : Consume(p)
    BY <1>1 DEF Consume
<1>2. CASE \E n \in Nodes : XrayRestarts(n)
    BY <1>2 DEF XrayRestarts
<1>3. CASE \E n \in Nodes : HealthCheck(n)
    BY <1>3 DEF HealthCheck
<1>4. CASE RecordUserUsageTask
    BY <1>4 DEF RecordUserUsageTask, NewPoll, Polls
<1> QED
    BY <1>1, <1>2, <1>3, <1>4

LEMMA TypesStep == TypeOK /\ [Next]_vars => TypeOK'
<1> SUFFICES ASSUME TypeOK, [Next]_vars
             PROVE  TypeOK'
    OBVIOUS
<1>1. CASE UNCHANGED vars
    BY <1>1 DEF vars, traffic, recordVars, chargeVars, resetVars, TypeOK
<1>2. CASE Next
    BY <1>2, PollTypes, PushTypes, ChargeTypes, ResetTypes, UserTypes, OtherTypes DEF Next
<1> QED
    BY <1>1, <1>2

(* Every variable keeps to its values: the stages of the jobs are those of *)
(* the code's steps, and nothing counts below zero.                        *)
THEOREM UsageTypes == Spec => []TypeOK
<1>1. Init => TypeOK
  <2> HAVE Init
  <2>1. /\ recorded \in [Units -> Nat] /\ used \in [Units -> Nat]
        /\ charged \in [Units -> Nat]
    BY DEF Init
  <2>4. status \in [Users -> Statuses] /\ limit \in [Users -> Limits] /\ stuck \subseteq Users
    BY UserInputs DEF Init
  <2>2. /\ connected \in [Nodes -> BOOLEAN]
        /\ poll \in [Nodes -> Polls \cup {Idle}] /\ push \in [Nodes -> Pushes \cup {Idle}]
    BY DEF Init
  <2>3. requests \in 0 .. MaxRequests /\ faults \in 0 .. MaxFaults
    BY UsageBounds DEF Init
  <2> QED
    BY <2>1, <2>2, <2>3, <2>4 DEF Init, TypeOK
<1> QED
    BY <1>1, TypesStep, PTL DEF Spec

-----------------------------------------------------------------------------
(* The way to the history.                                                 *)
historyVars == <<spent, counters, poll, hash, processing, push, recorded, lostRecord>>

LEMMA UnitFacts ==
    ASSUME NEW p \in Units
    PROVE  p[1] \in Users /\ p[2] \in Nodes
    BY DEF Units

LEMMA HistoryFrame ==
    ASSUME HistoryInv, UNCHANGED historyVars
    PROVE  HistoryInv'
    BY DEF HistoryInv, historyVars, PollsOfNodes, HistoryPlaces, RecordedOnce,
           NothingLeavesHistory, Answered, Polling, Pushing, OnNode

(* The parts in the form the steps use: the units, one by one.             *)
LEMMA HistoryFacts ==
    ASSUME TypeOK, HistoryInv
    PROVE  /\ spent \subseteq Units /\ counters \subseteq spent /\ hash \subseteq spent
           /\ processing \subseteq spent
           /\ \A p \in Units : p[2] \in Nodes
           /\ \A n \in Nodes : poll[n] # Idle => \A p \in poll[n].units : p \in spent /\ p[2] = n
    BY UnitFacts DEF TypeOK, HistoryInv, HistoryPlaces, PollsOfNodes, OnNode

LEMMA PollHistory ==
    ASSUME TypeOK, HistoryInv, NEW n \in Nodes, PollNode(n)
    PROVE  HistoryInv'
<1>0. /\ spent \subseteq Units /\ counters \subseteq spent /\ hash \subseteq spent
      /\ processing \subseteq spent
      /\ \A p \in Units : p[2] \in Nodes
      /\ \A m \in Nodes : poll[m] # Idle => \A p \in poll[m].units : p \in spent /\ p[2] = m
    BY HistoryFacts
<1>t. /\ poll \in [Nodes -> Polls \cup {Idle}] /\ push \in [Nodes -> Pushes \cup {Idle}]
      /\ poll[n] # Idle => poll[n] \in Polls
    BY DEF TypeOK
<1>i. Idle \notin Polls
    BY IdleIsNoJob
<1> USE DEF HistoryInv, PollsOfNodes, HistoryPlaces, RecordedOnce, NothingLeavesHistory,
            Answered, Polling, Pushing, OnNode, traffic, recordVars
<1>1. CASE PollAnswers(n)
  <2>1. /\ UNCHANGED <<spent, hash, processing, push, recorded, lostRecord>>
        /\ counters' = {p \in counters : p[2] # n}
    BY <1>1 DEF PollAnswers
  <2>2. /\ \A m \in Nodes \ {n} : poll'[m] = poll[m]
        /\ {p \in counters : p[2] = n} = {} => poll'[n] = Idle
        /\ {p \in counters : p[2] = n} # {} =>
              poll'[n] # Idle /\ poll'[n].stage = "answered"
              /\ poll'[n].units = {p \in counters : p[2] = n}
    BY <1>0, <1>1, <1>t, <1>i DEF PollAnswers, PollEnds, Polls
  <2> QED
    BY <1>0, <1>1, <2>1, <2>2 DEF PollAnswers
<1>2. CASE PollUnanswered(n)
    BY <1>0, <1>2, <1>t DEF PollUnanswered, PollEnds
<1>3. CASE PollCounts(n)
  <2> DEFINE kept == Kept(poll[n].units)
  <2>1. /\ UNCHANGED <<spent, counters, processing, push, recorded>>
        /\ hash' = hash \cup kept /\ kept \subseteq poll[n].units
        /\ lostRecord' = lostRecord \cup (poll[n].units \ kept)
    BY <1>3 DEF PollCounts, Kept
  <2>2. /\ \A m \in Nodes \ {n} : poll'[m] = poll[m]
        /\ poll'[n].stage = "counted" /\ poll'[n].units = kept
    BY <1>0, <1>3, <1>t, <1>i DEF PollCounts, Polls
  <2>3. poll[n] # Idle /\ poll[n].stage = "answered"
    BY <1>3 DEF PollCounts
  <2> HIDE DEF kept
  <2> QED
    BY <1>0, <2>1, <2>2, <2>3
<1>4. CASE PollCharges(n) \/ PollPushes(n)
  <2>1. UNCHANGED <<spent, counters, hash, processing, recorded, lostRecord>>
    BY <1>4 DEF PollCharges, PollPushes
  <2>2. /\ \A m \in Nodes \ {n} : poll'[m] = poll[m]
        /\ poll[n] # Idle /\ poll[n].stage \in {"counted", "charged"}
        /\ poll'[n] # Idle => poll'[n].stage = "charged" /\ poll'[n].units = poll[n].units
    BY <1>4, <1>t, <1>i DEF PollCharges, PollPushes, PollTo, PollEnds, Polls
  <2>3. \A m \in Nodes : Pushing(m, "renamed")' <=> Pushing(m, "renamed")
    BY <1>4, <1>t DEF PollCharges, PollPushes
  <2> QED
    BY <1>0, <2>1, <2>2, <2>3
<1>5. CASE PollFails(n) \/ PollCutOff(n)
  <2>1. /\ UNCHANGED <<spent, counters, hash, processing, push, recorded>>
        /\ lostRecord' = IF Polling(n, "answered") THEN lostRecord \cup poll[n].units
                                                   ELSE lostRecord
    BY <1>5 DEF PollFails, PollCutOff, PollLoses
  <2>2. /\ \A m \in Nodes \ {n} : poll'[m] = poll[m]
        /\ poll[n] # Idle
        /\ poll'[n] # Idle => poll'[n].stage = "waiting" /\ poll'[n].units = {}
    BY <1>5, <1>t DEF PollFails, PollCutOff, PollEnds, NewPoll
  <2> QED
    BY <1>0, <2>1, <2>2
<1>6. CASE PollAnswerLost(n)
  <2>1. /\ UNCHANGED <<spent, hash, processing, push, recorded>>
        /\ counters' = {p \in counters : p[2] # n}
        /\ lostRecord' = lostRecord \cup {p \in counters : p[2] = n}
    BY <1>6 DEF PollAnswerLost
  <2>2. /\ \A m \in Nodes \ {n} : poll'[m] = poll[m]
        /\ poll'[n] = Idle /\ poll[n].stage = "waiting"
    BY <1>6, <1>t DEF PollAnswerLost, PollEnds
  <2> QED
    BY <1>0, <2>1, <2>2
<1> QED
    BY <1>1, <1>2, <1>3, <1>4, <1>5, <1>6 DEF PollNode

LEMMA PushHistory ==
    ASSUME TypeOK, HistoryInv, NEW n \in Nodes, PushNode(n)
    PROVE  HistoryInv'
<1>0. /\ spent \subseteq Units /\ counters \subseteq spent /\ hash \subseteq spent
      /\ processing \subseteq spent
      /\ \A p \in Units : p[2] \in Nodes
      /\ \A m \in Nodes : poll[m] # Idle => \A p \in poll[m].units : p \in spent /\ p[2] = m
    BY HistoryFacts
<1>t. /\ push \in [Nodes -> Pushes \cup {Idle}] /\ recorded \in [Units -> Nat]
      /\ push[n] # Idle => push[n] \in Pushes
    BY DEF TypeOK
<1>i. Idle \notin Pushes
    BY IdleIsNoJob
<1> USE DEF HistoryInv, PollsOfNodes, HistoryPlaces, RecordedOnce, NothingLeavesHistory,
            Answered, Polling, Pushing, OnNode, traffic
<1>1. CASE PushRenames(n)
  <2>1. /\ UNCHANGED <<spent, counters, poll, recorded, lostRecord>>
        /\ hash' = {p \in hash : p[2] # n}
        /\ processing' = {p \in processing : p[2] # n} \cup {p \in hash : p[2] = n}
    BY <1>1 DEF PushRenames
  <2>2. /\ \A m \in Nodes \ {n} : push'[m] = push[m]
        /\ push[n].stage = "delayed" /\ push'[n] # Idle /\ push'[n].stage = "renamed"
    BY <1>1, <1>t, <1>i DEF PushRenames, PushTo, Pushes
  <2> QED
    BY <1>0, <2>1, <2>2
<1>2. CASE PushFindsNothing(n)
  <2>1. UNCHANGED <<spent, counters, poll, hash, processing, recorded, lostRecord>>
    BY <1>2 DEF PushFindsNothing
  <2>2. /\ \A m \in Nodes \ {n} : push'[m] = push[m]
        /\ push[n].stage = "delayed" /\ push'[n].stage = "ending"
    BY <1>2, <1>t, <1>i DEF PushFindsNothing, PushTo, Pushes
  <2> QED
    BY <1>0, <2>1, <2>2
<1>3. CASE PushUpserts(n)
  <2>1. /\ UNCHANGED <<spent, counters, poll, hash, processing, lostRecord>>
        /\ \A p \in Units : recorded'[p] = IF p \in processing /\ p[2] = n
                                             THEN recorded[p] + 1 ELSE recorded[p]
    BY <1>3 DEF PushUpserts, Counts
  <2>2. /\ \A m \in Nodes \ {n} : push'[m] = push[m]
        /\ push[n] # Idle /\ push[n].stage = "renamed" /\ push'[n].stage = "ending"
    BY <1>3, <1>t, <1>i DEF PushUpserts, PushTo, Pushes
  <2>3. \A p \in Units : recorded[p] \in Nat
    BY <1>t
  <2> QED
    BY <1>0, <2>1, <2>2, <2>3
<1>4. CASE PushUpsertFails(n)
  <2>1. /\ UNCHANGED <<spent, counters, poll, hash, processing, recorded>>
        /\ lostRecord' = lostRecord \cup {p \in processing : p[2] = n}
    BY <1>4 DEF PushUpsertFails
  <2>2. /\ \A m \in Nodes \ {n} : push'[m] = push[m]
        /\ push[n].stage = "renamed" /\ push'[n].stage = "ending"
    BY <1>4, <1>t, <1>i DEF PushUpsertFails, PushTo, Pushes
  <2> QED
    BY <1>0, <2>1, <2>2
<1>5. CASE PushEnds(n)
  <2>1. /\ UNCHANGED <<spent, counters, poll, hash, recorded, lostRecord>>
        /\ processing' = {p \in processing : p[2] # n}
    BY <1>5 DEF PushEnds
  <2>2. /\ \A m \in Nodes \ {n} : push'[m] = push[m]
        /\ push[n].stage = "ending" /\ push'[n] = Idle
    BY <1>5, <1>t DEF PushEnds
  <2> QED
    BY <1>0, <2>1, <2>2
<1>6. CASE PushCutOff(n)
  <2>1. /\ UNCHANGED <<spent, counters, poll, hash, processing, recorded>>
        /\ lostRecord' = IF Pushing(n, "renamed")
                           THEN lostRecord \cup {p \in processing : p[2] = n} ELSE lostRecord
    BY <1>6 DEF PushCutOff
  <2>2. /\ \A m \in Nodes \ {n} : push'[m] = push[m]
        /\ push[n] # Idle
        /\ push'[n] # Idle => push'[n].stage = "delayed"
    BY <1>6, <1>t DEF PushCutOff
  <2> QED
    BY <1>0, <2>1, <2>2
<1>7. CASE HashExpires(n)
  <2>1. /\ UNCHANGED <<spent, counters, poll, push, recorded>>
        /\ hash' = {p \in hash : p[2] # n} /\ processing' = {p \in processing : p[2] # n}
        /\ lostRecord' = lostRecord \cup {p \in hash : p[2] = n}
        /\ ~Pushing(n, "renamed")
    BY <1>7 DEF HashExpires
  <2> QED
    BY <1>0, <2>1
<1> QED
    BY <1>1, <1>2, <1>3, <1>4, <1>5, <1>6, <1>7 DEF PushNode

LEMMA HistoryStep == TypeOK /\ HistoryInv /\ [Next]_vars => HistoryInv'
<1> SUFFICES ASSUME TypeOK, HistoryInv, [Next]_vars
             PROVE  HistoryInv'
    OBVIOUS
<1>0. /\ spent \subseteq Units /\ counters \subseteq spent /\ hash \subseteq spent
      /\ processing \subseteq spent
      /\ \A p \in Units : p[2] \in Nodes
      /\ \A m \in Nodes : poll[m] # Idle => \A p \in poll[m].units : p \in spent /\ p[2] = m
    BY HistoryFacts
<1>1. ASSUME NEW p \in Units, Consume(p)
      PROVE  HistoryInv'
  <2>1. /\ UNCHANGED <<poll, hash, processing, push, recorded, lostRecord>>
        /\ p \notin spent /\ spent' = spent \cup {p} /\ counters' = counters \cup {p}
    BY <1>1 DEF Consume, recordVars
  <2> QED
    BY <1>0, <2>1 DEF HistoryInv, PollsOfNodes, HistoryPlaces, RecordedOnce, OnNode,
                      NothingLeavesHistory, Answered, Polling, Pushing
<1>2. ASSUME NEW n \in Nodes, XrayRestarts(n)
      PROVE  HistoryInv'
  <2>1. /\ UNCHANGED <<spent, poll, hash, processing, push, recorded>>
        /\ counters' = {p \in counters : p[2] # n}
        /\ lostRecord' = lostRecord \cup {p \in counters : p[2] = n}
    BY <1>2 DEF XrayRestarts, OnNode
  <2> QED
    BY <1>0, <2>1 DEF HistoryInv, PollsOfNodes, HistoryPlaces, RecordedOnce, OnNode,
                      NothingLeavesHistory, Answered, Polling, Pushing
<1>3. CASE RecordUserUsageTask
  <2>1. UNCHANGED <<spent, counters, hash, processing, push, recorded, lostRecord>>
    BY <1>3 DEF RecordUserUsageTask, traffic, recordVars
  <2>2. \A n \in Nodes : \/ poll'[n] = poll[n]
                         \/ poll[n] = Idle /\ poll'[n].stage = "waiting" /\ poll'[n].units = {}
    BY <1>3 DEF RecordUserUsageTask, NewPoll
  <2> QED
    BY <1>0, <2>1, <2>2 DEF HistoryInv, PollsOfNodes, HistoryPlaces, RecordedOnce, OnNode,
                            NothingLeavesHistory, Answered, Polling, Pushing
<1>4. ASSUME NEW n \in Nodes, HealthCheck(n)
      PROVE  HistoryInv'
    BY <1>4, HistoryFrame DEF HealthCheck, historyVars, recordVars
<1>5. ASSUME NEW j \in charges, ChargeJob(j)
      PROVE  HistoryInv'
    BY <1>5, HistoryFrame DEF ChargeJob, ChargeBegins, ChargeCommits, ChargeEnds, ChargeFails,
                              ChargeCutOff, historyVars, traffic, recordVars
<1>6. CASE ResetJob
    BY <1>6, HistoryFrame DEF ResetJob, ResetTask, ResetPauses, ResetSelects, ThrottleGivesUp,
          Selects, ResetActive, ResetActiveFails, ResetLimited, ResetLimitedFails, ResetResumes,
          ResumeFails, ThrottleFails, ResetCutOff, nonReset, historyVars, traffic, recordVars
<1>7. CASE UserStep
    BY <1>7, UserSteps, HistoryFrame DEF userFrame, historyVars, traffic, recordVars
<1>8. CASE UNCHANGED vars
    BY <1>8, HistoryFrame DEF vars, historyVars, traffic, recordVars
<1> QED
    BY <1>1, <1>2, <1>3, <1>4, <1>5, <1>6, <1>7, <1>8, PollHistory, PushHistory DEF Next

LEMMA HistoryHolds == Spec => [](TypeOK /\ HistoryInv)
<1>1. Init => HistoryInv
    BY DEF Init, HistoryInv, PollsOfNodes, HistoryPlaces, RecordedOnce, NothingLeavesHistory
<1> QED
    BY <1>1, HistoryStep, UsageTypes, PTL DEF Spec

(* However pushes fail, are cut off, run again or meet what an older one   *)
(* left, the history has no unit twice.                                    *)
THEOREM HistoryRecordsOnce == Spec => []RecordedOnce
    BY HistoryHolds, PTL DEF HistoryInv

(* No unit falls between the counters, the poll, the two hashes and the    *)
(* history but by a fault.                                                 *)
THEOREM HistoryIsWhole == Spec => []NothingLeavesHistory
    BY HistoryHolds, PTL DEF HistoryInv

-----------------------------------------------------------------------------
(* The way to the accounts.                                                *)
chargingVars == <<spent, counters, poll, charges, charged, lostCharge, recharged>>

LEMMA ChargeFrame ==
    ASSUME ChargeInv, UNCHANGED chargingVars
    PROVE  ChargeInv'
    BY DEF ChargeInv, chargingVars, PollsOfNodes, ChargePlaces, ChargedOnce, ChargedBy, InJob,
           NothingLeavesCharges, Answered, Counted, Polling, OnNode

LEMMA ChargeFacts ==
    ASSUME TypeOK, ChargeInv
    PROVE  /\ spent \subseteq Units /\ counters \subseteq spent
           /\ \A p \in Units : p[2] \in Nodes
           /\ \A n \in Nodes : poll[n] # Idle => \A p \in poll[n].units : p \in spent /\ p[2] = n
           /\ \A j \in charges : j \in Charges /\ j.units \subseteq spent
           /\ \A p \in Units : charged[p] \in Nat
    BY UnitFacts DEF TypeOK, ChargeInv, ChargePlaces, PollsOfNodes, OnNode

LEMMA PollCharging ==
    ASSUME TypeOK, ChargeInv, NEW n \in Nodes, PollNode(n)
    PROVE  ChargeInv'
<1>0. /\ spent \subseteq Units /\ counters \subseteq spent
      /\ \A p \in Units : p[2] \in Nodes
      /\ \A m \in Nodes : poll[m] # Idle => \A p \in poll[m].units : p \in spent /\ p[2] = m
      /\ \A j \in charges : j.units \subseteq spent
    BY ChargeFacts
<1>t. /\ poll \in [Nodes -> Polls \cup {Idle}]
      /\ poll[n] # Idle => poll[n] \in Polls
    BY DEF TypeOK
<1>i. Idle \notin Polls
    BY IdleIsNoJob
<1> USE DEF ChargeInv, PollsOfNodes, ChargePlaces, ChargedOnce, InJob, ChargedBy,
            NothingLeavesCharges, Answered, Counted, Polling, OnNode, traffic, chargeVars
<1>1. CASE PollAnswers(n)
  <2>1. /\ UNCHANGED <<spent, charges, charged, lostCharge, recharged>>
        /\ counters' = {p \in counters : p[2] # n}
    BY <1>1 DEF PollAnswers
  <2>2. /\ \A m \in Nodes \ {n} : poll'[m] = poll[m]
        /\ {p \in counters : p[2] = n} = {} => poll'[n] = Idle
        /\ {p \in counters : p[2] = n} # {} =>
              poll'[n] # Idle /\ poll'[n].stage = "answered"
              /\ poll'[n].units = {p \in counters : p[2] = n}
        /\ poll[n].stage = "waiting"
    BY <1>0, <1>1, <1>t, <1>i DEF PollAnswers, PollEnds, Polls
  <2> QED
    BY <1>0, <2>1, <2>2
<1>2. CASE PollUnanswered(n)
    BY <1>0, <1>2, <1>t DEF PollUnanswered, PollEnds
<1>3. CASE PollCounts(n)
  <2> DEFINE kept == Kept(poll[n].units)
  <2>1. /\ UNCHANGED <<spent, counters, charges, charged, recharged>>
        /\ kept \subseteq poll[n].units
        /\ lostCharge' = lostCharge \cup (poll[n].units \ kept)
    BY <1>3 DEF PollCounts, Kept
  <2>2. poll'[n] = [poll[n] EXCEPT !.stage = "counted", !.units = kept]
    BY <1>3, <1>t DEF PollCounts
  <2>3. poll[n] # Idle /\ poll[n].stage = "answered" /\ poll[n].units \in SUBSET Units
    BY <1>3, <1>t DEF PollCounts, Polls
  <2>4. [poll[n] EXCEPT !.stage = "counted", !.units = kept] \in Polls
    BY <1>t, <2>1, <2>3 DEF Polls
  <2>5. poll'[n] # Idle /\ poll'[n].stage = "counted" /\ poll'[n].units = kept
    BY <1>t, <1>i, <2>2, <2>3, <2>4 DEF Polls
  <2>6. \A m \in Nodes \ {n} : poll'[m] = poll[m]
    BY <1>3, <1>t DEF PollCounts
  <2> HIDE DEF kept
  <2> QED
    <3>1. PollsOfNodes'
      BY <1>0, <2>1, <2>3, <2>5, <2>6
    <3>2. ChargePlaces' /\ ChargedOnce'
      BY <1>0, <2>1, <2>3, <2>5, <2>6
    <3>3. NothingLeavesCharges'
      BY <1>0, <2>1, <2>3, <2>5, <2>6
    <3> QED
      BY <3>1, <3>2, <3>3
<1>4. CASE PollCharges(n)
  <2> DEFINE job == [stage |-> "waiting", units |-> poll[n].units, again |-> FALSE]
  <2>1. /\ UNCHANGED <<spent, counters, charged, lostCharge, recharged>>
        /\ charges' = IF poll[n].units = {} THEN charges ELSE charges \cup {job}
        /\ poll[n] # Idle /\ poll[n].stage = "counted"
    BY <1>4 DEF PollCharges
  <2>2. /\ \A m \in Nodes \ {n} : poll'[m] = poll[m]
        /\ poll'[n] # Idle /\ poll'[n].stage = "charged" /\ poll'[n].units = poll[n].units
    BY <1>4, <1>t, <1>i DEF PollCharges, PollTo, Polls
  <2>3. job.stage = "waiting" /\ job.units = poll[n].units /\ job.again = FALSE
    OBVIOUS
  <2> HIDE DEF job
  <2>4. \A p \in poll[n].units : ~InJob(p) /\ charged[p] = 0
    BY <1>0, <2>1
  <2> QED
    BY <1>0, <2>1, <2>2, <2>3, <2>4
<1>5. CASE PollPushes(n)
    BY <1>0, <1>5, <1>t DEF PollPushes, PollEnds
<1>6. CASE PollFails(n) \/ PollCutOff(n)
  <2>1. /\ UNCHANGED <<spent, counters, charges, charged, recharged>>
        /\ lostCharge' = IF Polling(n, "answered") \/ Polling(n, "counted")
                           THEN lostCharge \cup poll[n].units ELSE lostCharge
    BY <1>6 DEF PollFails, PollCutOff, PollLoses
  <2>2. /\ \A m \in Nodes \ {n} : poll'[m] = poll[m]
        /\ poll'[n] # Idle => poll'[n].stage = "waiting" /\ poll'[n].units = {}
    BY <1>6, <1>t DEF PollFails, PollCutOff, PollEnds, NewPoll
  <2> QED
    BY <1>0, <2>1, <2>2
<1>7. CASE PollAnswerLost(n)
  <2>1. /\ UNCHANGED <<spent, charges, charged, recharged>>
        /\ counters' = {p \in counters : p[2] # n}
        /\ lostCharge' = lostCharge \cup {p \in counters : p[2] = n}
    BY <1>7 DEF PollAnswerLost
  <2>2. /\ \A m \in Nodes \ {n} : poll'[m] = poll[m]
        /\ poll'[n] = Idle /\ poll[n].stage = "waiting"
    BY <1>7, <1>t DEF PollAnswerLost, PollEnds
  <2> QED
    BY <1>0, <2>1, <2>2
<1> QED
    BY <1>1, <1>2, <1>3, <1>4, <1>5, <1>6, <1>7 DEF PollNode

LEMMA JobCharging ==
    ASSUME TypeOK, ChargeInv, NEW j \in charges, ChargeJob(j)
    PROVE  ChargeInv'
<1>0. /\ spent \subseteq Units /\ counters \subseteq spent
      /\ \A p \in Units : p[2] \in Nodes
      /\ \A m \in Nodes : poll[m] # Idle => \A p \in poll[m].units : p \in spent /\ p[2] = m
      /\ \A k \in charges : k.units \subseteq spent
      /\ \A p \in Units : charged[p] \in Nat
      /\ j \in Charges
    BY ChargeFacts
<1>c. charged \in [Units -> Nat]
    BY DEF TypeOK
<1>s. /\ \A p \in j.units : \A k \in charges : p \in k.units => k = j
      /\ \A p \in j.units : InJob(p) /\ charged[p] <= ChargedBy(j, p)
    BY DEF ChargeInv, ChargePlaces, InJob
<1> USE DEF ChargeInv, PollsOfNodes, ChargePlaces, ChargedOnce, InJob, ChargedBy,
            NothingLeavesCharges, Answered, Counted, Polling, OnNode, traffic
<1>1. CASE ChargeBegins(j)
  <2> DEFINE k == [j EXCEPT !.stage = "active"]
  <2>1. /\ UNCHANGED <<spent, counters, poll, charged, lostCharge, recharged>>
        /\ charges' = (charges \ {j}) \cup {k}
    BY <1>1 DEF ChargeBegins, Become
  <2>2. /\ j.stage = "waiting"
        /\ k.stage = "active" /\ k.units = j.units /\ k.again = j.again
    BY <1>0, <1>1 DEF ChargeBegins, Charges
  <2> HIDE DEF k
  <2> QED
    BY <1>0, <1>s, <2>1, <2>2
<1>2. CASE ChargeCommits(j)
  <2> DEFINE k == [j EXCEPT !.stage = "committed"]
  <2>1. /\ UNCHANGED <<spent, counters, poll, lostCharge, recharged>>
        /\ charges' = (charges \ {j}) \cup {k}
        /\ \A p \in Units : charged'[p] = IF p \in j.units THEN charged[p] + 1 ELSE charged[p]
    BY <1>2 DEF ChargeCommits, Become, Counts
  <2>2. /\ j.stage = "active"
        /\ k.stage = "committed" /\ k.units = j.units /\ k.again = j.again
    BY <1>0, <1>2 DEF ChargeCommits, Charges
  <2> HIDE DEF k
  <2>3. \A p \in j.units : charged'[p] <= ChargedBy(k, p)
    BY <1>0, <1>s, <2>1, <2>2
  <2> QED
    BY <1>0, <1>s, <2>1, <2>2, <2>3
<1>3. CASE ChargeEnds(j)
  <2>1. /\ UNCHANGED <<spent, counters, poll, charged, lostCharge, recharged>>
        /\ charges' = charges \ {j} /\ j.stage = "committed"
    BY <1>3 DEF ChargeEnds
  <2> QED
    BY <1>0, <1>s, <2>1
<1>4. CASE ChargeFails(j)
  <2>1. /\ UNCHANGED <<spent, counters, poll, charged, recharged>>
        /\ charges' = charges \ {j} /\ lostCharge' = lostCharge \cup j.units
    BY <1>4 DEF ChargeFails
  <2> QED
    BY <1>0, <1>s, <2>1
<1>5. CASE ChargeCutOff(j)
  <2> DEFINE k == [j EXCEPT !.stage = "waiting", !.again = TRUE]
  <2>1. /\ UNCHANGED <<spent, counters, poll, charged>>
        /\ charges' = (charges \ {j}) \cup (IF j.again THEN {} ELSE {k})
        /\ recharged' = IF j.stage = "committed" /\ ~j.again THEN recharged \cup j.units
                                                             ELSE recharged
        /\ lostCharge' = IF j.stage = "active" /\ j.again THEN lostCharge \cup j.units
                                                          ELSE lostCharge
    BY <1>5 DEF ChargeCutOff
  <2>2. /\ j.stage \in {"active", "committed"} /\ j.again \in BOOLEAN
        /\ k.stage = "waiting" /\ k.units = j.units /\ k.again = TRUE
    BY <1>0, <1>5 DEF ChargeCutOff, Charges
  <2> HIDE DEF k
  <2> QED
    BY <1>0, <1>s, <2>1, <2>2
<1> QED
    BY <1>1, <1>2, <1>3, <1>4, <1>5 DEF ChargeJob

LEMMA ChargeStep == TypeOK /\ ChargeInv /\ [Next]_vars => ChargeInv'
<1> SUFFICES ASSUME TypeOK, ChargeInv, [Next]_vars
             PROVE  ChargeInv'
    OBVIOUS
<1>0. /\ spent \subseteq Units /\ counters \subseteq spent
      /\ \A p \in Units : p[2] \in Nodes
      /\ \A m \in Nodes : poll[m] # Idle => \A p \in poll[m].units : p \in spent /\ p[2] = m
      /\ \A j \in charges : j.units \subseteq spent
    BY ChargeFacts
<1>1. ASSUME NEW p \in Units, Consume(p)
      PROVE  ChargeInv'
  <2>1. /\ UNCHANGED <<poll, charges, charged, lostCharge, recharged>>
        /\ p \notin spent /\ spent' = spent \cup {p} /\ counters' = counters \cup {p}
    BY <1>1 DEF Consume, chargeVars
  <2> QED
    BY <1>0, <2>1 DEF ChargeInv, PollsOfNodes, ChargePlaces, ChargedOnce, InJob, ChargedBy,
                      NothingLeavesCharges, Answered, Counted, Polling, OnNode
<1>2. ASSUME NEW n \in Nodes, XrayRestarts(n)
      PROVE  ChargeInv'
  <2>1. /\ UNCHANGED <<spent, poll, charges, charged, recharged>>
        /\ counters' = {p \in counters : p[2] # n}
        /\ lostCharge' = lostCharge \cup {p \in counters : p[2] = n}
    BY <1>2 DEF XrayRestarts, OnNode
  <2> QED
    BY <1>0, <2>1 DEF ChargeInv, PollsOfNodes, ChargePlaces, ChargedOnce, InJob, ChargedBy,
                      NothingLeavesCharges, Answered, Counted, Polling, OnNode
<1>3. CASE RecordUserUsageTask
  <2>1. UNCHANGED <<spent, counters, charges, charged, lostCharge, recharged>>
    BY <1>3 DEF RecordUserUsageTask, traffic, chargeVars
  <2>2. \A n \in Nodes : \/ poll'[n] = poll[n]
                         \/ poll[n] = Idle /\ poll'[n].stage = "waiting" /\ poll'[n].units = {}
    BY <1>3 DEF RecordUserUsageTask, NewPoll
  <2> QED
    BY <1>0, <2>1, <2>2 DEF ChargeInv, PollsOfNodes, ChargePlaces, ChargedOnce, InJob, ChargedBy,
                            NothingLeavesCharges, Answered, Counted, Polling, OnNode
<1>4. ASSUME NEW n \in Nodes, HealthCheck(n)
      PROVE  ChargeInv'
    BY <1>4, ChargeFrame DEF HealthCheck, chargingVars, chargeVars
<1>5. ASSUME NEW n \in Nodes, PushNode(n)
      PROVE  ChargeInv'
    BY <1>5, ChargeFrame DEF PushNode, PushRenames, PushFindsNothing, PushUpserts,
          PushUpsertFails, PushEnds, PushCutOff, HashExpires, chargingVars, traffic, chargeVars
<1>6. CASE ResetJob
    BY <1>6, ChargeFrame DEF ResetJob, ResetTask, ResetPauses, ResetSelects, ThrottleGivesUp,
          Selects, ResetActive, ResetActiveFails, ResetLimited, ResetLimitedFails, ResetResumes,
          ResumeFails, ThrottleFails, ResetCutOff, nonReset, chargingVars, traffic
<1>7. CASE UserStep
    BY <1>7, UserSteps, ChargeFrame DEF userFrame, chargingVars, traffic
<1>8. CASE UNCHANGED vars
    BY <1>8, ChargeFrame DEF vars, chargingVars, traffic, chargeVars
<1> QED
    BY <1>1, <1>2, <1>3, <1>4, <1>5, <1>6, <1>7, <1>8, PollCharging, JobCharging DEF Next

LEMMA ChargeHolds == Spec => [](TypeOK /\ ChargeInv)
<1>1. Init => ChargeInv
    BY DEF Init, ChargeInv, PollsOfNodes, ChargePlaces, ChargedOnce, NothingLeavesCharges,
           Answered, Counted, Polling, InJob
<1> QED
    BY <1>1, ChargeStep, UsageTypes, PTL DEF Spec

(* No unit is charged twice, but one whose job was cut off between its     *)
(* statement and its end; none is charged three times.                     *)
THEOREM UsersAreChargedOnce == Spec => []ChargedOnce
    BY ChargeHolds, PTL DEF ChargeInv

(* No unit falls between the counters, the poll, the jobs and the account  *)
(* but by a fault.                                                         *)
THEOREM ChargesAreWhole == Spec => []NothingLeavesCharges
    BY ChargeHolds, PTL DEF ChargeInv

-----------------------------------------------------------------------------
(* The reset of all users and the queues it pauses.                        *)
LEMMA ResetFrame ==
    ASSUME ResetInv, UNCHANGED <<reset, paused, abandoned, used, Running>>
    PROVE  ResetInv'
    BY DEF ResetInv, ResetHolds, PausedByReset

LEMMA JobResets ==
    ASSUME TypeOK, ResetInv, NEW j \in charges, ChargeJob(j)
    PROVE  ResetInv'
<1>0. j \in Charges
    BY DEF TypeOK
<1>1. UNCHANGED <<reset, paused, abandoned>>
    BY DEF ChargeJob, ChargeBegins, ChargeCommits, ChargeEnds, ChargeFails, ChargeCutOff,
           resetVars
<1>2. CASE ChargeBegins(j)
  <2>1. "charges" \notin paused /\ UNCHANGED used
    BY <1>2 DEF ChargeBegins
  <2> QED
    BY <1>1, <2>1 DEF ResetInv, ResetHolds, PausedByReset
<1>3. CASE ChargeCommits(j)
  <2>1. j \in Running
    BY <1>3 DEF ChargeCommits, Running
  <2> QED
    BY <1>1, <2>1 DEF ResetInv, ResetHolds, PausedByReset
<1>4. CASE ChargeEnds(j) \/ ChargeFails(j) \/ ChargeCutOff(j)
  <2>1. Running' \subseteq Running /\ UNCHANGED used
    BY <1>0, <1>4 DEF ChargeEnds, ChargeFails, ChargeCutOff, Running, Charges
  <2> QED
    BY <1>1, <2>1 DEF ResetInv, ResetHolds, PausedByReset
<1> QED
    BY <1>2, <1>3, <1>4 DEF ChargeJob

LEMMA ResetResets ==
    ASSUME TypeOK, ResetInv, ResetJob
    PROVE  ResetInv'
<1>0. /\ Idle \notin Resets
      /\ reset # Idle => reset \in Resets
      /\ used \in [Units -> Nat]
    BY IdleIsNoJob DEF TypeOK
<1>r. UNCHANGED Running
    BY DEF ResetJob, ResetTask, ResetPauses, ResetSelects, ThrottleGivesUp, Selects,
           ResetActive, ResetActiveFails, ResetLimited, ResetLimitedFails, ResetResumes,
           ResumeFails, ThrottleFails, ResetCutOff, nonReset, Running
<1>t. reset' \in Resets \cup {Idle}
    BY TypesStep DEF Next, TypeOK
<1> USE DEF ResetInv, ResetHolds, PausedByReset, Resetting
<1>1. CASE ResetTask
  <2>1. reset' = NewReset /\ UNCHANGED <<paused, used, abandoned>>
    BY <1>1 DEF ResetTask
  <2>2. NewReset.stage = "waiting" /\ NewReset.again = FALSE /\ NewReset.done = {}
    BY DEF NewReset
  <2>3. reset = Idle
    BY <1>1 DEF ResetTask
  <2>4. NewReset \in Resets
    BY DEF NewReset, Resets
  <2> QED
    BY <1>0, <1>r, <2>1, <2>2, <2>3, <2>4
<1>2. CASE ResetPauses
  <2>1. paused' = Queues /\ reset # Idle /\ reset.stage = "waiting" /\ UNCHANGED used
    BY <1>2 DEF ResetPauses
  <2>2. reset' = [reset EXCEPT !.stage = "pausing"]
    BY <1>2 DEF ResetPauses
  <2>3. /\ reset' # Idle /\ reset'.stage = "pausing" /\ reset'.done = reset.done
        /\ reset'.gaveUp = reset.gaveUp /\ reset'.again = reset.again
    BY <1>0, <1>t, <2>1, <2>2 DEF Resets
  <2> QED
    BY <1>0, <1>r, <2>1, <2>3 DEF Queues
<1>3. CASE ResetSelects
  <2>1. /\ reset # Idle /\ reset.stage = "pausing" /\ Running = {}
        /\ UNCHANGED <<used, paused, abandoned>>
    BY <1>3 DEF ResetSelects, Selects, QueuesQuiet
  <2>2. /\ reset' # Idle /\ reset'.stage = "selected" /\ reset'.done = reset.done
        /\ reset'.gaveUp = reset.gaveUp /\ reset'.again = reset.again
    BY ZenonT(60), <1>0, <1>3 DEF ResetSelects, Selects, Resets
  <2> QED
    BY <1>r, <2>1, <2>2
<1>4. CASE ThrottleGivesUp
  <2>1. /\ reset # Idle /\ reset.stage = "pausing" /\ UNCHANGED <<used, paused, abandoned>>
    BY <1>4 DEF ThrottleGivesUp, Selects
  <2>2. reset' # Idle /\ reset'.stage = "selected" /\ reset'.gaveUp = TRUE
    BY ZenonT(60), <1>0, <1>4 DEF ThrottleGivesUp, Selects, Resets
  <2> QED
    BY <1>r, <2>1, <2>2
<1>5. CASE ResetActive
  <2>1. /\ reset # Idle /\ reset.stage = "selected" /\ UNCHANGED <<paused, abandoned>>
        /\ \A p \in Units : used'[p] = IF p[1] \in reset.targets THEN 0 ELSE used[p]
    BY <1>5 DEF ResetActive, Zeroed
  <2>2. /\ reset' # Idle /\ reset'.stage = "swept" /\ reset'.done = reset.done \cup reset.targets
        /\ reset'.gaveUp = reset.gaveUp /\ reset'.again = reset.again
    BY <1>0, <1>5 DEF ResetActive, Resets
  <2> QED
    BY <1>r, <2>1, <2>2
<1>6. CASE ResetActiveFails \/ ResetLimitedFails
  <2>1. /\ reset # Idle /\ reset.stage \in {"selected", "swept"}
        /\ UNCHANGED <<used, paused, abandoned>>
    BY <1>6 DEF ResetActiveFails, ResetLimitedFails
  <2>2. /\ reset' # Idle /\ reset'.stage \in {"swept", "resuming"} /\ reset'.done = reset.done
        /\ reset'.gaveUp = reset.gaveUp /\ reset'.again = reset.again
    BY <1>0, <1>6 DEF ResetActiveFails, ResetLimitedFails, Resets
  <2> QED
    BY <1>r, <2>1, <2>2
<1>7. CASE ResetLimited
  <2> DEFINE limited == {u \in Users : status[u] = "LIMITED"}
  <2>1. /\ reset # Idle /\ reset.stage = "swept" /\ UNCHANGED <<paused, abandoned>>
        /\ \A p \in Units : used'[p] = IF p[1] \in limited THEN 0 ELSE used[p]
    BY <1>7 DEF ResetLimited, Zeroed
  <2>2. /\ reset' # Idle /\ reset'.stage = "resuming" /\ reset'.done = reset.done \cup limited
        /\ reset'.gaveUp = reset.gaveUp /\ reset'.again = reset.again
    BY <1>0, <1>7 DEF ResetLimited, Resets
  <2> HIDE DEF limited
  <2> QED
    BY <1>r, <2>1, <2>2
<1>8. CASE ResetResumes \/ ResumeFails \/ ThrottleFails
    BY <1>8 DEF ResetResumes, ResumeFails, ThrottleFails, ResetOver
<1>9. CASE ResetCutOff
  <2>1. CASE reset.again
    BY <1>9, <2>1 DEF ResetCutOff, ResetOver
  <2>2. CASE ~reset.again
    <3>1. /\ reset # Idle /\ reset.stage # "waiting" /\ UNCHANGED <<used, paused, abandoned>>
          /\ reset' = [reset EXCEPT !.stage = "waiting", !.again = TRUE]
      BY <1>9, <2>2 DEF ResetCutOff
    <3>2. /\ reset' # Idle /\ reset'.stage = "waiting" /\ reset'.done = reset.done
          /\ reset'.gaveUp = reset.gaveUp /\ reset'.again = TRUE
      BY <1>0, <1>t, <3>1 DEF Resets
    <3> QED
      BY <1>r, <3>1, <3>2
  <2> QED
    BY <2>1, <2>2
<1> QED
    BY <1>1, <1>2, <1>3, <1>4, <1>5, <1>6, <1>7, <1>8, <1>9 DEF ResetJob

LEMMA ResetStep == TypeOK /\ ResetInv /\ [Next]_vars => ResetInv'
<1> SUFFICES ASSUME TypeOK, ResetInv, [Next]_vars
             PROVE  ResetInv'
    OBVIOUS
<1>1. CASE RecordUserUsageTask \/ \E p \in Units : Consume(p)
    BY <1>1, ResetFrame DEF RecordUserUsageTask, Consume, resetVars, chargeVars, Running
<1>2. ASSUME NEW n \in Nodes, XrayRestarts(n) \/ HealthCheck(n) \/ PushNode(n)
      PROVE  ResetInv'
    BY <1>2, ResetFrame DEF XrayRestarts, HealthCheck, PushNode, PushRenames, PushFindsNothing,
          PushUpserts, PushUpsertFails, PushEnds, PushCutOff, HashExpires, resetVars, chargeVars,
          Running
<1>3. ASSUME NEW n \in Nodes, PollCharges(n)
      PROVE  ResetInv'
  <2>1. UNCHANGED <<reset, paused, abandoned, used, Running>>
    BY <1>3 DEF PollCharges, resetVars, Running
  <2> QED
    BY <2>1, ResetFrame
<1>4. ASSUME NEW n \in Nodes, PollNode(n), ~PollCharges(n)
      PROVE  ResetInv'
    BY <1>4, ResetFrame DEF PollNode, PollAnswers, PollUnanswered, PollCounts, PollPushes,
          PollFails, PollLoses, PollAnswerLost, PollCutOff, resetVars, chargeVars, Running
<1>5. CASE UserStep
  <2>1. /\ UNCHANGED <<reset, paused, abandoned, Running>>
        /\ \A p \in Units : used'[p] = 0 \/ used'[p] = used[p]
    BY <1>5, UserSteps DEF userFrame, Zeroed, Running
  <2> QED
    BY <2>1 DEF ResetInv, ResetHolds, PausedByReset
<1>6. CASE UNCHANGED vars
    BY <1>6, ResetFrame DEF vars, resetVars, chargeVars, Running
<1> QED
    BY <1>1, <1>2, <1>3, <1>4, <1>5, <1>6, JobResets, ResetResets DEF Next

LEMMA ResetInvHolds == Spec => [](TypeOK /\ ResetInv)
<1>1. Init => ResetInv
    BY DEF Init, ResetInv, ResetHolds, PausedByReset
<1> QED
    BY <1>1, ResetStep, UsageTypes, PTL DEF Spec

(* What a reset set to zero stays so while it works, also across a crash:  *)
(* it erases no charge of its own time.                                    *)
THEOREM ResetErasesNothing == Spec => []ResetHolds
    BY ResetInvHolds, PTL DEF ResetInv

(* Queues are left paused by nothing but a reset that ended badly.         *)
THEOREM OnlyResetsPause == Spec => []PausedByReset
    BY ResetInvHolds, PTL DEF ResetInv

-----------------------------------------------------------------------------
(* The hash and the job that takes it: what a poll read is of its Node.    *)
LEMMA HashFrame ==
    ASSUME HashIsPushed, UNCHANGED <<hash, push, poll, dropped>>
    PROVE  HashIsPushed'
    BY DEF HashIsPushed, Pushing, Polling, OnNode

LEMMA PollHash ==
    ASSUME TypeOK, PollsOfNodes, HashIsPushed, NEW n \in Nodes, PollNode(n)
    PROVE  HashIsPushed'
<1>0. /\ poll \in [Nodes -> Polls \cup {Idle}] /\ push \in [Nodes -> Pushes \cup {Idle}]
      /\ hash \subseteq Units
    BY DEF TypeOK
<1>i. Idle \notin Polls /\ Idle \notin Pushes
    BY IdleIsNoJob
<1> USE DEF HashIsPushed, Polling, Pushing, OnNode
<1>1. CASE PollAnswers(n) \/ PollUnanswered(n) \/ PollAnswerLost(n)
  <2>1. UNCHANGED <<hash, push, dropped>> /\ poll[n].stage = "waiting"
    BY <1>1 DEF PollAnswers, PollUnanswered, PollAnswerLost, recordVars
  <2>2. \A m \in Nodes \ {n} : poll'[m] = poll[m]
    BY <1>0, <1>1 DEF PollAnswers, PollUnanswered, PollAnswerLost, PollEnds
  <2> QED
    BY <2>1, <2>2
<1>2. CASE PollCounts(n)
  <2>1. /\ UNCHANGED <<push, dropped>>
        /\ \A p \in hash' : p \in hash \/ p \in poll[n].units
    BY <1>2 DEF PollCounts, Kept
  <2>2. /\ \A m \in Nodes \ {n} : poll'[m] = poll[m]
        /\ poll[n] \in Polls
    BY <1>0, <1>2 DEF PollCounts
  <2>3. poll'[n] # Idle /\ poll'[n].stage = "counted"
    <3>1. Kept(poll[n].units) \in SUBSET Units
      BY <2>2 DEF Kept, Polls
    <3>2. [poll[n] EXCEPT !.stage = "counted", !.units = Kept(poll[n].units)] \in Polls
      BY <2>2, <3>1 DEF Polls
    <3>3. poll'[n] = [poll[n] EXCEPT !.stage = "counted", !.units = Kept(poll[n].units)]
      BY <1>0, <1>2 DEF PollCounts
    <3> QED
      BY <1>i, <2>2, <3>2, <3>3 DEF Polls
  <2>4. \A m \in Nodes \ {n} : OnNode(hash', m) = OnNode(hash, m)
    BY <1>2, <2>1 DEF PollCounts, PollsOfNodes
  <2> QED
    BY <2>1, <2>2, <2>3, <2>4
<1>3. CASE PollCharges(n)
  <2>1. UNCHANGED <<hash, push, dropped>>
    BY <1>3 DEF PollCharges, recordVars
  <2>2. /\ \A m \in Nodes \ {n} : poll'[m] = poll[m]
        /\ poll'[n] # Idle /\ poll'[n].stage = "charged"
    BY <1>0, <1>i, <1>3 DEF PollCharges, PollTo, Polls
  <2> QED
    BY <2>1, <2>2
<1>4. CASE PollPushes(n)
  <2>1. UNCHANGED hash /\ (dropped' = dropped \ {n} \/ dropped' = dropped \cup {n})
    BY <1>4 DEF PollPushes
  <2>3. \A m \in Nodes \ {n} : poll'[m] = poll[m] /\ push'[m] = push[m]
    BY <1>0, <1>4 DEF PollPushes, PollEnds
  <2>2. Pushing(n, "delayed")' \/ n \in dropped' \/ OnNode(hash, n) = {}
    <3>1. CASE push[n] = Idle
      <4>1. push'[n] = [stage |-> "delayed", again |-> FALSE]
        BY <1>0, <1>4, <3>1 DEF PollPushes
      <4>2. [stage |-> "delayed", again |-> FALSE] \in Pushes
        BY DEF Pushes
      <4>3. push'[n] # Idle
        BY <1>i, <4>1, <4>2
      <4>4. push'[n].stage = "delayed"
        BY <4>1
      <4> QED
        BY <4>3, <4>4
    <3>2. CASE push[n] # Idle
      BY <1>4, <3>2 DEF PollPushes
    <3> QED
      BY <3>1, <3>2
  <2> QED
    BY <2>1, <2>2, <2>3
<1>5. CASE PollFails(n) \/ PollCutOff(n)
  <2>1. /\ UNCHANGED <<hash, push>>
        /\ \A m \in Nodes \ {n} : m \in dropped' <=> m \in dropped
    BY <1>5 DEF PollFails, PollCutOff, PollLoses
  <2>3. \A m \in Nodes \ {n} : poll'[m] = poll[m]
    BY <1>0, <1>5 DEF PollFails, PollCutOff, PollEnds
  <2>2. Pushing(n, "delayed") \/ n \in dropped' \/ OnNode(hash, n) = {}
    BY <1>5 DEF PollFails, PollCutOff, PollLoses
  <2> QED
    BY <2>1, <2>2, <2>3
<1> QED
    BY <1>1, <1>2, <1>3, <1>4, <1>5 DEF PollNode

LEMMA PushHash ==
    ASSUME TypeOK, HashIsPushed, NEW n \in Nodes, PushNode(n)
    PROVE  HashIsPushed'
<1>0. push \in [Nodes -> Pushes \cup {Idle}]
    BY DEF TypeOK
<1>i. Idle \notin Pushes
    BY IdleIsNoJob
<1>1. /\ UNCHANGED poll
      /\ \A m \in Nodes \ {n} : push'[m] = push[m] /\ (m \in dropped' <=> m \in dropped)
      /\ \A p \in hash' : p \in hash
    BY <1>0 DEF PushNode, PushRenames, PushFindsNothing, PushUpserts, PushUpsertFails, PushEnds,
                PushCutOff, HashExpires, PushTo, OnNode
<1>2. CASE PushRenames(n) \/ PushFindsNothing(n) \/ HashExpires(n)
  <2>1. OnNode(hash', n) = {}
    BY <1>2 DEF PushRenames, PushFindsNothing, HashExpires, OnNode
  <2> QED
    BY <1>1, <2>1 DEF HashIsPushed, Pushing, Polling, OnNode
<1>3. CASE PushUpserts(n) \/ PushUpsertFails(n) \/ PushEnds(n)
  <2>1. ~Pushing(n, "delayed") /\ UNCHANGED hash
    BY <1>3 DEF PushUpserts, PushUpsertFails, PushEnds, Pushing
  <2>2. n \in dropped => n \in dropped' \/ OnNode(hash, n) = {}
    BY <1>3 DEF PushUpserts, PushUpsertFails, PushEnds
  <2> QED
    BY <1>1, <2>1, <2>2 DEF HashIsPushed, Pushing, Polling, OnNode
<1>4. CASE PushCutOff(n)
  <2>1. Pushing(n, "delayed")' \/ n \in dropped'
    <3>1. [stage |-> "delayed", again |-> TRUE] \in Pushes
      BY DEF Pushes
    <3>2. CASE push[n].again
      <4>1. dropped' = dropped \cup {n}
        BY <1>4, <3>2 DEF PushCutOff
      <4> QED
        BY <4>1
    <3>3. CASE ~push[n].again
      <4>1. push'[n] = [stage |-> "delayed", again |-> TRUE]
        BY <1>0, <1>4, <3>3 DEF PushCutOff
      <4>2. push'[n] # Idle
        BY <1>i, <3>1, <4>1
      <4>3. push'[n].stage = "delayed"
        BY <4>1
      <4> QED
        BY <4>2, <4>3 DEF Pushing
    <3> QED
      BY <3>2, <3>3
  <2> QED
    BY <1>1, <2>1 DEF HashIsPushed, Pushing, Polling, OnNode
<1> QED
    BY <1>2, <1>3, <1>4 DEF PushNode

LEMMA HashStep == TypeOK /\ HistoryInv /\ HashIsPushed /\ [Next]_vars => HashIsPushed'
<1> SUFFICES ASSUME TypeOK, HistoryInv, HashIsPushed, [Next]_vars
             PROVE  HashIsPushed'
    OBVIOUS
<1>1. CASE RecordUserUsageTask
  <2>1. UNCHANGED <<hash, push, dropped>>
    BY <1>1 DEF RecordUserUsageTask, recordVars
  <2>2. \A n \in Nodes : poll'[n] = poll[n] \/ poll[n] = Idle
    BY <1>1 DEF RecordUserUsageTask
  <2> QED
    BY <2>1, <2>2 DEF HashIsPushed, Pushing, Polling, OnNode
<1>2. CASE \/ \E p \in Units : Consume(p)
           \/ \E n \in Nodes : XrayRestarts(n) \/ HealthCheck(n)
    BY <1>2, HashFrame DEF Consume, XrayRestarts, HealthCheck, recordVars
<1>3. ASSUME NEW j \in charges, ChargeJob(j)
      PROVE  HashIsPushed'
    BY <1>3, HashFrame DEF ChargeJob, ChargeBegins, ChargeCommits, ChargeEnds, ChargeFails,
                           ChargeCutOff, recordVars
<1>4. CASE ResetJob
    BY <1>4, HashFrame DEF ResetJob, ResetTask, ResetPauses, ResetSelects, ThrottleGivesUp,
          Selects, ResetActive, ResetActiveFails, ResetLimited, ResetLimitedFails, ResetResumes,
          ResumeFails, ThrottleFails, ResetCutOff, nonReset, recordVars
<1>5. CASE UserStep
    BY <1>5, UserSteps, HashFrame DEF userFrame, recordVars
<1>6. CASE UNCHANGED vars
    BY <1>6, HashFrame DEF vars, recordVars
<1> QED
    BY <1>1, <1>2, <1>3, <1>4, <1>5, <1>6, PollHash, PushHash DEF Next, HistoryInv

(* What a hash holds has a job to come that takes it, or its asking was    *)
(* refused, failed or cut off.                                             *)
THEOREM HashesArePushed == Spec => []HashIsPushed
<1>1. Init => HashIsPushed
    BY DEF Init, HashIsPushed, OnNode
<1> QED
    BY <1>1, HashStep, HistoryHolds, PTL DEF Spec


-----------------------------------------------------------------------------
(* The limit.  What a user has used is the number of the units charged to  *)
(* him, each as often as it was: more charges, no smaller number.          *)
LEMMA UnitsAreFinite == IsFiniteSet(Units)
<1> DEFINE S == (Users \X Nodes) \X (1 .. MaxUnits)
           f == [x \in S |-> <<x[1][1], x[1][2], x[2]>>]
<1>1. IsFiniteSet(1 .. MaxUnits)
    BY UsageBounds, FS_Interval
<1>2. IsFiniteSet(S)
    BY <1>1, FiniteInstance, FS_Product
<1>3. f \in Surjection(S, Units)
  <2>1. f \in [S -> Units]
    BY DEF Units
  <2>2. ASSUME NEW p \in Units
        PROVE  \E x \in S : f[x] = p
    <3>1. <<<<p[1], p[2]>>, p[3]>> \in S /\ p = <<p[1], p[2], p[3]>>
      BY DEF Units
    <3> QED
      BY <3>1
  <2> QED
    BY <2>1, <2>2 DEF Surjection
<1> QED
    BY <1>2, <1>3, FS_Surjection

LEMMA ChargesAreFinite ==
    ASSUME NEW column \in [Units -> Nat], NEW u
    PROVE  IsFiniteSet(UNION {{p} \X (1 .. column[p]) : p \in OfUser(Units, u)})
<1> DEFINE S == OfUser(Units, u)
           T == {{p} \X (1 .. column[p]) : p \in S}
           f == [p \in S |-> {p} \X (1 .. column[p])]
<1>1. IsFiniteSet(S)
  <2>1. S \in SUBSET Units
    BY DEF OfUser
  <2> QED
    BY <2>1, UnitsAreFinite, FS_Subset
<1>2. f \in Surjection(S, T)
    BY DEF Surjection
<1>3. IsFiniteSet(T)
    BY <1>1, <1>2, FS_Surjection
<1>4. ASSUME NEW t \in T
      PROVE  IsFiniteSet(t)
  <2>1. PICK p \in S : t = {p} \X (1 .. column[p])
    OBVIOUS
  <2>2. 0 \in Int /\ 1 \in Int /\ column[p] \in Int
    BY DEF OfUser
  <2>3. IsFiniteSet({p}) /\ IsFiniteSet(1 .. column[p])
    BY <2>2, FS_Singleton, FS_Interval
  <2> QED
    BY <2>1, <2>3, FS_Product
<1> HIDE DEF T
<1>5. IsFiniteSet(UNION T)
    BY <1>3, <1>4, FS_UNION
<1> QED
    BY <1>5 DEF T

LEMMA UsedType ==
    ASSUME TypeOK, NEW u
    PROVE  Used(u) \in Nat
<1>1. used \in [Units -> Nat]
    BY DEF TypeOK
<1> QED
    BY <1>1, ChargesAreFinite, FS_CardinalityType DEF Used

LEMMA UsedGrows ==
    ASSUME TypeOK, TypeOK', NEW u, \A p \in OfUser(Units, u) : used[p] <= used'[p]
    PROVE  Used(u) \in Nat /\ Used(u)' \in Nat /\ Used(u) <= Used(u)'
<1> DEFINE before == UNION {{p} \X (1 .. used[p]) : p \in OfUser(Units, u)}
           after == UNION {{p} \X (1 .. used'[p]) : p \in OfUser(Units, u)}
<1>1. /\ used \in [Units -> Nat] /\ used' \in [Units -> Nat]
      /\ \A p \in OfUser(Units, u) : used[p] \in Nat /\ used'[p] \in Nat
    BY DEF TypeOK, OfUser
<1>2. before \subseteq after
  <2>1. ASSUME NEW p \in OfUser(Units, u)
        PROVE  1 .. used[p] \subseteq 1 .. used'[p]
    BY <1>1
  <2> QED
    BY <2>1
<1>3. IsFiniteSet(after)
    BY <1>1, ChargesAreFinite
<1>4. Used(u) = Cardinality(before) /\ Used(u)' = Cardinality(after)
    BY DEF Used
<1> HIDE DEF before, after
<1> QED
    BY <1>2, <1>3, <1>4, FS_Subset, FS_CardinalityType

LEMMA UsedStays ==
    ASSUME NEW u, \A p \in OfUser(Units, u) : used'[p] = used[p]
    PROVE  Used(u)' = Used(u)
    BY DEF Used

(* A reset that is about to resume the queues has dealt with every user:   *)
(* its second statement made them active, or left behind those it names.   *)
Overtaken(u) ==
    \/ u \in stuck
    \/ reset # Idle /\ reset.stage # "resuming" /\ u \in reset.done
    \/ bulk # Idle /\ u \in bulk.done

(* A request that saw a limited user makes him active when it resets his   *)
(* traffic or raises his limit, and one that saw another limits none.  An  *)
(* update that leaves the limits alone has changed none.                   *)
DecidedWell(w) ==
    /\ w.seen # "LIMITED" => w.status # "LIMITED"
    /\ w.seen = "LIMITED" /\ w.status \in {Same, "LIMITED"} =>
          /\ ~w.zeroes
          /\ w.limit # Same => w.limit # 0 /\ w.limit <= w.seenLimit

UsersAreSeen ==
    /\ \A w \in writes : DecidedWell(w)
    /\ bulk # Idle => (bulk.limit = Same => bulk.done = {})

LimitedInv ==
    /\ UsersAreSeen
    /\ \A u \in BelowLimit : Overtaken(u)

(* Who is below the limit after a step was before, if the step limited no  *)
(* one, lowered no sum and raised no limit.                                *)
LEMMA StaysBelow ==
    ASSUME TypeOK, TypeOK', NEW u \in Users, u \in BelowLimit',
           status[u] = "LIMITED", Used(u) <= Used(u)',
           limit'[u] = limit[u] \/ (limit'[u] # 0 /\ limit'[u] <= limit[u])
    PROVE  u \in BelowLimit
<1>1. /\ Used(u) \in Nat /\ Used(u)' \in Nat
      /\ limit[u] \in Nat /\ limit'[u] \in Nat
  <2>1. used \in [Units -> Nat] /\ used' \in [Units -> Nat]
    BY DEF TypeOK
  <2>2. limit \in [Users -> Limits] /\ limit' \in [Users -> Limits] /\ Limits \subseteq Nat
    BY UsageBounds DEF TypeOK
  <2>3. Used(u) \in Nat /\ Used(u)' \in Nat
    BY <2>1, ChargesAreFinite, FS_CardinalityType DEF Used
  <2> QED
    BY <2>2, <2>3
<1>2. limit'[u] = 0 \/ Used(u)' < limit'[u]
    BY <1>1 DEF BelowLimit, Over
<1> QED
    BY <1>1, <1>2 DEF BelowLimit, Over

(* Steps that limit no user, lower no sum and leave the rest alone.        *)
LEMMA LimitedFrame ==
    ASSUME TypeOK, TypeOK', LimitedInv,
           UNCHANGED <<stuck, reset, status, limit, writes, bulk>>,
           \A p \in Units : used[p] <= used'[p]
    PROVE  LimitedInv'
<1>1. \A u \in Users : Used(u) <= Used(u)'
    BY UsedGrows DEF OfUser
<1>2. \A u \in BelowLimit' : u \in BelowLimit
    BY <1>1, StaysBelow DEF BelowLimit
<1> QED
    BY <1>2 DEF LimitedInv, UsersAreSeen, Overtaken

LEMMA ChargeLimited ==
    ASSUME TypeOK, TypeOK', LimitedInv, NEW j \in charges, ChargeJob(j)
    PROVE  LimitedInv'
<1>1. used \in [Units -> Nat]
    BY DEF TypeOK
<1>2. UNCHANGED <<stuck, reset, status, limit, writes, bulk>>
    BY DEF ChargeJob, ChargeBegins, ChargeCommits, ChargeEnds, ChargeFails, ChargeCutOff,
           resetVars
<1>3. \A p \in Units : used[p] <= used'[p]
    BY <1>1 DEF ChargeJob, ChargeBegins, ChargeCommits, ChargeEnds, ChargeFails, ChargeCutOff,
                Counts
<1> QED
    BY <1>2, <1>3, LimitedFrame

(* Steps that only change the status of users: they limit who is over the  *)
(* limit, and nobody else.                                                 *)
LEMMA StatusLimited ==
    ASSUME TypeOK, LimitedInv, UNCHANGED <<used, limit, writes, reset, bulk>>,
           \A u \in Users : status'[u] = "LIMITED" => status[u] = "LIMITED" \/ Over(u),
           \A u \in stuck \ stuck' : u \in Users => status'[u] # "LIMITED"
    PROVE  LimitedInv'
<1>1. \A u \in Users : Over(u)' <=> Over(u)
    BY UsedStays DEF Over
<1>2. ASSUME NEW u \in BelowLimit'
      PROVE  Overtaken(u)'
  <2>1. u \in Users /\ u \in BelowLimit
    BY <1>1 DEF BelowLimit
  <2> QED
    BY <2>1 DEF LimitedInv, Overtaken, BelowLimit
<1> QED
    BY <1>2 DEF LimitedInv, UsersAreSeen

LEMMA WatchdogLimited ==
    ASSUME TypeOK, LimitedInv,
           \/ FindExceededUsers
           \/ \E us \in SUBSET Users : FindExpiredUsers(us) \/ BulkSyncExpiredUsers(us)
    PROVE  LimitedInv'
<1>1. UNCHANGED <<used, limit, writes, reset, bulk>>
    BY DEF FindExceededUsers, FindExpiredUsers, BulkSyncExpiredUsers, nonUsers, chargeVars
<1>2. \A u \in Users : status'[u] = "LIMITED" => status[u] = "LIMITED" \/ Over(u)
    BY DEF FindExceededUsers, FindExpiredUsers, BulkSyncExpiredUsers
<1>3. \A u \in stuck \ stuck' : u \in Users => status'[u] # "LIMITED"
    BY DEF FindExceededUsers, FindExpiredUsers, BulkSyncExpiredUsers
<1> QED
    BY <1>1, <1>2, <1>3, StatusLimited

(* What requests decide to write.                                          *)
LEMMA RequestLimited ==
    ASSUME TypeOK, LimitedInv, NEW u \in Users, UserRequest(u)
    PROVE  LimitedInv'
<1> DEFINE asked(zeroes, s, l) ==
        [id |-> requests', user |-> u, zeroes |-> zeroes, status |-> s, limit |-> l,
         seen |-> status[u], seenLimit |-> limit[u]]
<1>0. status[u] \in Statuses /\ limit[u] \in Nat /\ Same \notin Statuses
    BY UsageBounds, SameIsNoValue DEF TypeOK
<1>1. \E w : writes' = writes \cup {w} /\ DecidedWell(w)
  <2>1. CASE ResetUserTraffic(u)
    <3> DEFINE s == IF status[u] = "LIMITED" THEN "ACTIVE" ELSE Same
    <3>1. writes' = writes \cup {asked(TRUE, s, Same)}
      BY <2>1 DEF ResetUserTraffic, Asks
    <3>2. DecidedWell(asked(TRUE, s, Same))
      BY <1>0, SameIsNoValue DEF DecidedWell, Statuses
    <3> QED
      BY <3>1, <3>2
  <2>2. CASE ExtendUserExpirationDate(u)
    <3> DEFINE s == IF status[u] = "EXPIRED" THEN "ACTIVE" ELSE status[u]
    <3>1. writes' = writes \cup {asked(FALSE, s, Same)}
      BY <2>2 DEF ExtendUserExpirationDate, Asks
    <3>2. DecidedWell(asked(FALSE, s, Same))
      BY <1>0 DEF DecidedWell
    <3> QED
      BY <3>1, <3>2
  <2>3. ASSUME NEW wanted \in {"ACTIVE", "DISABLED"}, SetUserStatus(u, wanted)
        PROVE  \E w : writes' = writes \cup {w} /\ DecidedWell(w)
    <3>1. writes' = writes \cup {asked(FALSE, wanted, Same)}
      BY <2>3 DEF SetUserStatus, Asks
    <3>2. DecidedWell(asked(FALSE, wanted, Same))
      BY <1>0, <2>3, SameIsNoValue DEF DecidedWell, Statuses
    <3> QED
      BY <3>1, <3>2
  <2>4. ASSUME NEW change \in Changes, NEW prolongs \in BOOLEAN,
               UpdateUser(u, change.status, change.limit, prolongs)
        PROVE  \E w : writes' = writes \cup {w} /\ DecidedWell(w)
    <3> DEFINE raised == change.limit # Same /\ (change.limit = 0 \/ change.limit > limit[u])
    <3>1. PICK s \in {"ACTIVE", "DISABLED", Same} :
              /\ Asks(u, FALSE, s, change.limit)
              /\ status[u] = "LIMITED" /\ raised => s = "ACTIVE"
      BY <2>4 DEF UpdateUser
    <3>2. change.limit # Same => change.limit \in Nat
      BY UserInputs, UsageBounds
    <3>3. writes' = writes \cup {asked(FALSE, s, change.limit)}
      BY <3>1 DEF Asks
    <3>4. s # "LIMITED" /\ (s = Same => s # "ACTIVE")
      BY SameIsNoValue DEF Statuses
    <3>5. DecidedWell(asked(FALSE, s, change.limit))
      BY <1>0, <3>1, <3>2, <3>4 DEF DecidedWell
    <3> QED
      BY <3>3, <3>5
  <2> QED
    BY <2>1, <2>2, <2>3, <2>4 DEF UserRequest
<1>2. UNCHANGED <<used, status, limit, bulk, reset, stuck>>
    BY DEF UserRequest, ResetUserTraffic, ExtendUserExpirationDate, SetUserStatus, UpdateUser,
           Asks, chargeVars
<1>3. \A v \in Users : Over(v)' <=> Over(v)
    BY <1>2, UsedStays DEF Over
<1> QED
    BY <1>1, <1>2, <1>3 DEF LimitedInv, UsersAreSeen, BelowLimit, Overtaken

LEMMA WriteLimited ==
    ASSUME TypeOK, TypeOK', LimitedInv, NEW w \in writes, WriteUser(w)
    PROVE  LimitedInv'
<1> DEFINE v == w.user
<1>0. /\ w \in Writes /\ v \in Users /\ DecidedWell(w)
      /\ status \in [Users -> Statuses] /\ limit \in [Users -> Limits]
      /\ used \in [Units -> Nat]
    BY DEF TypeOK, Writes, LimitedInv, UsersAreSeen
<1>1. /\ writes' \subseteq writes /\ UNCHANGED <<bulk, reset>>
      /\ used' = IF w.zeroes THEN Zeroed({v}) ELSE used
      /\ status' = IF w.status = Same THEN status ELSE [status EXCEPT ![v] = w.status]
      /\ limit' = IF w.limit = Same THEN limit ELSE [limit EXCEPT ![v] = w.limit]
    BY DEF WriteUser
<1>2. ASSUME NEW u \in Users, u # v
      PROVE  /\ u \in BelowLimit' <=> u \in BelowLimit
             /\ u \in stuck' <=> u \in stuck
  <2>1. \A p \in OfUser(Units, u) : used'[p] = used[p]
    BY <1>1, <1>2 DEF Zeroed, OfUser
  <2>2. Used(u)' = Used(u) /\ status'[u] = status[u] /\ limit'[u] = limit[u]
    BY <1>0, <1>1, <1>2, <2>1, UsedStays
  <2>3. u \in stuck' <=> u \in stuck
    BY <1>2 DEF WriteUser
  <2> QED
    BY <2>2, <2>3 DEF BelowLimit, Over
<1>3. ASSUME v \in BelowLimit', ~Stale(w), v \notin stuck
      PROVE  Overtaken(v)'
  <2>1. status[v] = w.seen /\ limit[v] = w.seenLimit
    BY <1>3 DEF Stale
  <2>2. status'[v] = "LIMITED"
    BY <1>3 DEF BelowLimit
  <2>3. status'[v] = IF w.status = Same THEN status[v] ELSE w.status
    BY <1>0, <1>1
  <2>4. w.seen = "LIMITED" /\ w.status \in {Same, "LIMITED"}
    BY <1>0, <2>1, <2>2, <2>3 DEF DecidedWell
  <2>5. /\ ~w.zeroes
        /\ w.limit # Same => w.limit # 0 /\ w.limit <= w.seenLimit
    BY <1>0, <2>4 DEF DecidedWell
  <2>6. limit'[v] = IF w.limit = Same THEN limit[v] ELSE w.limit
    BY <1>0, <1>1
  <2>7. Used(v) <= Used(v)'
    <3>1. used' = used
      BY <1>1, <2>5
    <3>2. Used(v)' = Used(v) /\ Used(v) \in Nat
      BY <3>1, UsedStays, UsedType
    <3> QED
      BY <3>2
  <2>8. v \in BelowLimit
    BY <1>0, <1>3, <2>1, <2>4, <2>5, <2>6, <2>7, StaysBelow
  <2> QED
    BY <1>1, <1>3, <2>8 DEF LimitedInv, Overtaken
<1>4. v \in BelowLimit' => Overtaken(v)'
    BY <1>3 DEF WriteUser, Overtaken
<1>5. \A u \in BelowLimit' : u \in Users
    BY DEF BelowLimit
<1>6. \A u \in BelowLimit' : Overtaken(u)'
    BY <1>1, <1>2, <1>4, <1>5 DEF LimitedInv, Overtaken
<1> QED
    BY <1>1, <1>6 DEF LimitedInv, UsersAreSeen

LEMMA BulkLimited ==
    ASSUME TypeOK, TypeOK', LimitedInv, BulkJob
    PROVE  LimitedInv'
<1>0. /\ Idle \notin Updates
      /\ bulk # Idle => bulk \in Updates /\ (bulk.limit = Same => bulk.done = {})
      /\ bulk' # Idle => bulk' \in Updates
      /\ status \in [Users -> Statuses] /\ limit \in [Users -> Limits]
    BY IdleIsNoJob DEF TypeOK, LimitedInv, UsersAreSeen
<1>u. UNCHANGED <<used, writes, reset>>
    BY DEF BulkJob, BulkUpdateAllUsers, UpdateRanges, BulkSyncLimitedUsers, BulkSyncFails,
           BulkCutOff, nonBulk, chargeVars
<1>w. \A w \in writes' : DecidedWell(w)
    BY <1>u DEF LimitedInv, UsersAreSeen
<1>s. \A u \in Users : Used(u)' = Used(u)
    BY <1>u, UsedStays
<1>1. ASSUME NEW change \in Changes, BulkUpdateAllUsers(change.status, change.limit)
      PROVE  LimitedInv'
  <2>1. /\ bulk = Idle /\ bulk'.done = {} /\ UNCHANGED <<status, limit, stuck>>
    BY <1>1 DEF BulkUpdateAllUsers
  <2> QED
    BY <1>u, <1>w, <1>s, <2>1 DEF LimitedInv, UsersAreSeen, Overtaken, BelowLimit, Over
<1>2. ASSUME NEW us \in SUBSET Users, UpdateRanges(us)
      PROVE  LimitedInv'
  <2>1. /\ bulk # Idle
        /\ bulk' = IF bulk.limit = Same THEN Idle
                     ELSE [bulk EXCEPT !.stage = "written", !.done = @ \cup us]
        /\ status' = [u \in Users |-> IF u \in us /\ bulk.status # Same THEN bulk.status
                                                                         ELSE status[u]]
        /\ limit' = [u \in Users |-> IF u \in us /\ bulk.limit # Same THEN bulk.limit
                                                                       ELSE limit[u]]
        /\ stuck' = IF bulk.status = Same THEN stuck ELSE stuck \ us
    BY <1>2 DEF UpdateRanges, Updating
  <2>2. /\ bulk \in Updates /\ bulk.status \in {"ACTIVE", "DISABLED", Same}
        /\ bulk.limit = Same => bulk.done = {}
    BY <1>0, <2>1 DEF Updates
  <2>3. bulk.limit # Same =>
            bulk' # Idle /\ bulk'.done = bulk.done \cup us /\ bulk'.limit = bulk.limit
    <3> SUFFICES ASSUME bulk.limit # Same
                 PROVE  /\ bulk' # Idle /\ bulk'.done = bulk.done \cup us
                        /\ bulk'.limit = bulk.limit
      OBVIOUS
    <3>1. bulk' = [bulk EXCEPT !.stage = "written", !.done = @ \cup us]
      BY <2>1
    <3>2. bulk' \in Updates /\ bulk'.done = bulk.done \cup us /\ bulk'.limit = bulk.limit
      BY <2>2, <3>1 DEF Updates
    <3> QED
      BY <1>0, <3>2
  <2>4. ASSUME NEW u \in BelowLimit'
        PROVE  Overtaken(u)'
    <3>1. u \in Users /\ status'[u] = "LIMITED"
      BY DEF BelowLimit
    <3>2. status[u] = "LIMITED" /\ (u \in us => bulk.status = Same)
      BY <2>1, <2>2, <3>1
    <3>3. CASE bulk.limit # Same /\ u \in us
      BY <2>3, <3>3 DEF Overtaken
    <3>4. CASE bulk.limit = Same \/ u \notin us
      <4>1. limit'[u] = limit[u] /\ Used(u)' = Used(u)
        BY <1>s, <2>1, <3>1, <3>4
      <4>2. u \in BelowLimit
        BY <3>1, <3>2, <4>1 DEF BelowLimit, Over
      <4>3. Overtaken(u) /\ (u \in stuck => u \in stuck')
        BY <2>1, <3>2, <4>2 DEF LimitedInv
      <4> QED
        BY <1>u, <2>2, <2>3, <4>3 DEF Overtaken
    <3> QED
      BY <3>3, <3>4
  <2>5. bulk' # Idle => (bulk'.limit = Same => bulk'.done = {})
    BY <2>1, <2>3
  <2> QED
    BY <1>w, <2>4, <2>5 DEF LimitedInv, UsersAreSeen
<1>3. CASE BulkSyncLimitedUsers
  <2>1. BelowLimit' = {} /\ bulk' = Idle
    BY <1>3, <1>s DEF BulkSyncLimitedUsers, BelowLimit, Over
  <2> QED
    BY <1>w, <2>1 DEF LimitedInv, UsersAreSeen
<1>4. CASE BulkSyncFails \/ (BulkCutOff /\ bulk.again)
  <2>1. /\ bulk # Idle /\ bulk' = Idle /\ UNCHANGED <<status, limit>>
        /\ stuck' = stuck \cup (bulk.done \cap BelowLimit)
    BY <1>4 DEF BulkSyncFails, BulkCutOff, Updating
  <2>2. BelowLimit' = BelowLimit
    BY <1>s, <2>1 DEF BelowLimit, Over
  <2> QED
    BY <1>u, <1>w, <2>1, <2>2 DEF LimitedInv, UsersAreSeen, Overtaken
<1>5. CASE BulkCutOff /\ ~bulk.again
  <2>1. /\ bulk # Idle /\ UNCHANGED <<status, limit, stuck>>
        /\ bulk' = [bulk EXCEPT !.stage = "waiting", !.again = TRUE]
    BY <1>5 DEF BulkCutOff
  <2>2. bulk' # Idle /\ bulk'.done = bulk.done /\ bulk'.limit = bulk.limit
    <3>1. bulk \in Updates
      BY <1>0, <2>1
    <3>2. bulk' \in Updates
      BY <2>1, <3>1 DEF Updates
    <3> QED
      BY <1>0, <2>1, <3>1, <3>2 DEF Updates
  <2>3. BelowLimit' = BelowLimit
    BY <1>s, <2>1 DEF BelowLimit, Over
  <2> QED
    BY <1>0, <1>u, <1>w, <2>1, <2>2, <2>3 DEF LimitedInv, UsersAreSeen, Overtaken
<1> QED
    BY <1>1, <1>2, <1>3, <1>4, <1>5 DEF BulkJob

LEMMA ResetLimitedUsers ==
    ASSUME TypeOK, LimitedInv, ResetJob
    PROVE  LimitedInv'
<1>0. /\ Idle \notin Resets
      /\ reset # Idle => reset \in Resets
    BY IdleIsNoJob DEF TypeOK
<1>t. reset' \in Resets \cup {Idle}
    BY TypesStep DEF Next, TypeOK
<1>b. UNCHANGED <<limit, writes, bulk>>
    BY DEF ResetJob, ResetTask, ResetPauses, ResetSelects, ThrottleGivesUp, Selects,
           ResetActive, ResetActiveFails, ResetLimited, ResetLimitedFails, ResetResumes,
           ResumeFails, ThrottleFails, ResetCutOff, nonReset
(* What a step without a statement that succeeds has to do: keep whom the  *)
(* reset overtook, or name him.                                            *)
<1>f. ASSUME UNCHANGED <<used, status>>,
             \A u \in BelowLimit : Overtaken(u) => Overtaken(u)'
      PROVE  LimitedInv'
  <2>1. BelowLimit' = BelowLimit
    BY <1>b, <1>f, UsedStays DEF BelowLimit, Over
  <2> QED
    BY <1>b, <1>f, <2>1 DEF LimitedInv, UsersAreSeen
<1>1. CASE ResetTask
  <2>1. reset = Idle /\ UNCHANGED <<used, status, stuck>>
    BY <1>1 DEF ResetTask
  <2> QED
    BY <1>b, <1>f, <2>1 DEF Overtaken
<1>2. CASE ResetPauses
  <2>1. /\ reset # Idle /\ UNCHANGED <<used, status, stuck>>
        /\ reset' = [reset EXCEPT !.stage = "pausing"]
    BY <1>2 DEF ResetPauses, Resetting
  <2>2. reset' # Idle /\ reset'.stage # "resuming" /\ reset'.done = reset.done
    BY <1>0, <1>t, <2>1 DEF Resets
  <2> QED
    BY <1>b, <1>f, <2>1, <2>2 DEF Overtaken
<1>s. ASSUME NEW gaveUp \in BOOLEAN, Selects(gaveUp)
      PROVE  LimitedInv'
  <2>1. reset # Idle /\ UNCHANGED <<used, status, stuck>>
    BY <1>s DEF Selects, Resetting
  <2>2. reset' # Idle /\ reset'.stage # "resuming" /\ reset'.done = reset.done
    <3> DEFINE T == {u \in Users : status[u] # "LIMITED"}
    <3>1. reset \in Resets /\ T \in SUBSET Users
      BY <1>0, <2>1
    <3>2. CASE reset.gaveUp \/ gaveUp
      <4>1. reset' = [reset EXCEPT !.stage = "selected", !.gaveUp = TRUE, !.targets = T]
        BY <1>s, <3>2 DEF Selects
      <4> HIDE DEF T
      <4> QED
        BY <1>0, <3>1, <4>1 DEF Resets
    <3>3. CASE ~(reset.gaveUp \/ gaveUp)
      <4>1. reset' = [reset EXCEPT !.stage = "selected", !.gaveUp = FALSE, !.targets = T]
        BY <1>s, <3>3 DEF Selects
      <4> HIDE DEF T
      <4> QED
        BY <1>0, <3>1, <4>1 DEF Resets
    <3> QED
      BY <3>2, <3>3
  <2> QED
    BY <1>b, <1>f, <2>1, <2>2 DEF Overtaken
<1>3. CASE ResetActive
  <2>1. /\ reset # Idle /\ reset.stage = "selected" /\ UNCHANGED <<status, stuck>>
        /\ used' = Zeroed(reset.targets)
    BY <1>3 DEF ResetActive, Resetting
  <2>2. reset' # Idle /\ reset'.stage = "swept" /\ reset'.done = reset.done \cup reset.targets
    BY <1>0, <1>3 DEF ResetActive, Resetting, Resets
  <2>3. ASSUME NEW u \in Users, u \notin reset.targets
        PROVE  u \in BelowLimit' <=> u \in BelowLimit
    <3>1. \A p \in OfUser(Units, u) : used'[p] = used[p]
      BY <2>1, <2>3 DEF Zeroed, OfUser
    <3> QED
      BY <1>b, <2>1, <3>1, UsedStays DEF BelowLimit, Over
  <2>4. \A u \in Users : u \in reset.targets => Overtaken(u)'
    BY <2>2 DEF Overtaken
  <2>5. \A u \in Users : Overtaken(u) => Overtaken(u)'
    BY <1>b, <2>1, <2>2 DEF Overtaken
  <2>6. \A u \in BelowLimit' : u \in Users
    BY DEF BelowLimit
  <2> QED
    BY <1>b, <2>3, <2>4, <2>5, <2>6 DEF LimitedInv, UsersAreSeen
<1>4. CASE ResetActiveFails
  <2>1. reset # Idle /\ UNCHANGED <<used, status, stuck>>
    BY <1>4 DEF ResetActiveFails, Resetting
  <2>2. reset' # Idle /\ reset'.stage = "swept" /\ reset'.done = reset.done
    BY <1>0, <1>4 DEF ResetActiveFails, Resetting, Resets
  <2> QED
    BY <1>b, <1>f, <2>1, <2>2 DEF Overtaken
<1>5. CASE ResetLimited
  <2>1. BelowLimit' = {}
    BY <1>5 DEF ResetLimited, BelowLimit
  <2> QED
    BY <1>b, <2>1 DEF LimitedInv, UsersAreSeen
<1>6. CASE ResetLimitedFails \/ ThrottleFails \/ (ResetCutOff /\ reset.again)
  <2>1. UNCHANGED <<used, status>> /\ Strands
    BY <1>6 DEF ResetLimitedFails, ThrottleFails, ResetCutOff
  <2> QED
    BY <1>b, <1>f, <2>1 DEF Overtaken, Strands
<1>7. CASE ResetResumes \/ ResumeFails
  <2>1. reset.stage = "resuming" /\ UNCHANGED <<used, status, stuck>>
    BY <1>7 DEF ResetResumes, ResumeFails, Resetting
  <2> QED
    BY <1>b, <1>f, <2>1 DEF Overtaken
<1>8. CASE ResetCutOff /\ ~reset.again
  <2>1. /\ reset # Idle /\ UNCHANGED <<used, status, stuck>>
        /\ reset' = [reset EXCEPT !.stage = "waiting", !.again = TRUE]
    BY <1>8 DEF ResetCutOff
  <2>2. reset' # Idle /\ reset'.stage = "waiting" /\ reset'.done = reset.done
    BY <1>0, <1>t, <2>1 DEF Resets
  <2> QED
    BY <1>b, <1>f, <2>1, <2>2 DEF Overtaken
<1> QED
    BY <1>1, <1>2, <1>s, <1>3, <1>4, <1>5, <1>6, <1>7, <1>8
    DEF ResetJob, ResetSelects, ThrottleGivesUp

LEMMA LimitedStep == TypeOK /\ LimitedInv /\ [Next]_vars => LimitedInv'
<1> SUFFICES ASSUME TypeOK, LimitedInv, [Next]_vars
             PROVE  LimitedInv'
    OBVIOUS
<1>t. TypeOK'
    BY TypesStep
<1>f. ASSUME UNCHANGED <<used, stuck, reset, status, limit, writes, bulk>>
      PROVE  LimitedInv'
  <2>1. \A p \in Units : used[p] <= used'[p]
    BY <1>f DEF TypeOK
  <2> QED
    BY <1>t, <1>f, <2>1, LimitedFrame
<1>1. CASE RecordUserUsageTask \/ \E p \in Units : Consume(p)
    BY <1>f, <1>1 DEF RecordUserUsageTask, Consume, resetVars, chargeVars
<1>2. ASSUME NEW n \in Nodes, XrayRestarts(n) \/ HealthCheck(n) \/ PushNode(n)
      PROVE  LimitedInv'
    BY <1>f, <1>2 DEF XrayRestarts, HealthCheck, PushNode, PushRenames, PushFindsNothing,
          PushUpserts, PushUpsertFails, PushEnds, PushCutOff, HashExpires, resetVars, chargeVars
<1>3. ASSUME NEW n \in Nodes, PollNode(n)
      PROVE  LimitedInv'
    BY <1>f, <1>3 DEF PollNode, PollAnswers, PollUnanswered, PollCounts, PollCharges, PollPushes,
          PollFails, PollLoses, PollAnswerLost, PollCutOff, resetVars, chargeVars
<1>4. CASE UNCHANGED vars
    BY <1>f, <1>4 DEF vars, chargeVars, resetVars
<1>5. CASE UserStep
    BY <1>t, <1>5, WatchdogLimited, RequestLimited, WriteLimited, BulkLimited DEF UserStep
<1> QED
    BY <1>t, <1>1, <1>2, <1>3, <1>4, <1>5, ChargeLimited, ResetLimitedUsers DEF Next

(* A limited user has used up the limit: below it he is only where a named *)
(* step of the code overtook him or left him behind, for any number of     *)
(* requests, resets and updates of all users at the same time.             *)
THEOREM LimitedUsersAreOver == Spec => []LimitedIsOver
<1>1. Init => LimitedInv
    BY DEF Init, LimitedInv, UsersAreSeen, BelowLimit, Overtaken
<1>2. LimitedInv => LimitedIsOver
    BY DEF LimitedInv, Overtaken, LimitedIsOver
<1> QED
    BY <1>1, <1>2, LimitedStep, UsageTypes, PTL DEF Spec

=============================================================================
