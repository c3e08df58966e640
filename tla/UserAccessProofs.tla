-------------------------- MODULE UserAccessProofs --------------------------
(***************************************************************************)
(* What UserAccess guarantees for any users, squads, Nodes, requests and   *)
(* jobs at the same time, and faults.                                      *)
(***************************************************************************)
EXTENDS UserAccess, TLAPS

-----------------------------------------------------------------------------
(* The variables have their types.                                         *)
UserType == user \in [Users -> Rows] /\ grants \in [Squads -> SUBSET Nodes]
BusType == bus \subseteq [event : {"add", "remove"}, user : Users]
EventsType == events \subseteq [event : {"EXPIRED", "LIMITED", "ENABLED"}, user : Users]
OpType == op \in [Admins -> Requests \cup {Idle}]
JobsType == jobs \in [Nodes -> [JobKinds -> Nat]]
WorkerType == worker \in [Workers -> Starts \cup {Idle}]
NodesType ==
    /\ connected \in [Nodes -> BOOLEAN] /\ command \in [Nodes -> Commands \cup {Idle}]
    /\ served \in [Nodes -> Credentials]
    /\ failed \subseteq Nodes /\ late \subseteq Nodes
CountsType == requests \in 0 .. MaxRequests /\ faults \in 0 .. MaxFaults
MissedType == missed \subseteq Nodes

LEMMA TypeParts ==
    TypeOK <=> /\ UserType /\ BusType /\ EventsType /\ OpType /\ JobsType /\ WorkerType
               /\ NodesType /\ CountsType /\ MissedType
    BY DEF TypeOK, UserType, BusType, EventsType, OpType, JobsType, WorkerType, NodesType,
           CountsType, MissedType

(* What a request that waits has read and asks for.                        *)
LEMMA RequestFacts ==
    ASSUME OpType, NEW a \in Admins, op[a] # Idle
    PROVE  /\ op[a] \in Requests
           /\ op[a].kind \in PlainKinds \cup {"update", "squads"}
                 => op[a].user \in Users /\ op[a].seen \in Rows
           /\ op[a].kind = "update" => op[a].ask \in Updates
           /\ op[a].kind = "squads" => op[a].ask \in SUBSET Squads
           /\ op[a].kind = "grants" => /\ op[a].squad \in Squads
                                       /\ op[a].seen \in SUBSET Nodes
                                       /\ op[a].ask \in SUBSET Nodes
<1>1. op[a] \in Requests
    BY DEF OpType
<1>2. CASE op[a] \in [kind : PlainKinds, user : Users, seen : Rows, ask : {"kept"}]
    BY <1>1, <1>2 DEF PlainKinds
<1>3. CASE op[a] \in [kind : {"update"}, user : Users, seen : Rows, ask : Updates]
    BY <1>1, <1>3 DEF PlainKinds
<1>4. CASE op[a] \in [kind : {"squads"}, user : Users, seen : Rows, ask : SUBSET Squads]
    BY <1>1, <1>4 DEF PlainKinds
<1>5. CASE op[a] \in [kind : {"grants"}, squad : Squads, seen : SUBSET Nodes, ask : SUBSET Nodes]
    BY <1>1, <1>5 DEF PlainKinds
<1> QED
    BY <1>1, <1>2, <1>3, <1>4, <1>5 DEF Requests

LEMMA RowFacts ==
    ASSUME UserType, NEW u \in Users
    PROVE  /\ user[u] \in Rows
           /\ user[u].status \in Statuses /\ user[u].over \in BOOLEAN /\ user[u].past \in BOOLEAN
           /\ user[u].key \in Nat /\ user[u].squads \in SUBSET Squads
    BY DEF UserType, Rows

LEMMA NewRow ==
    ASSUME NEW r \in Rows, NEW status \in Statuses, NEW over \in BOOLEAN, NEW past \in BOOLEAN,
           NEW key \in Nat, NEW squads \in SUBSET Squads
    PROVE  /\ [r EXCEPT !.status = status] \in Rows
           /\ [r EXCEPT !.over = over] \in Rows /\ [r EXCEPT !.past = past] \in Rows
           /\ [r EXCEPT !.key = key] \in Rows /\ [r EXCEPT !.squads = squads] \in Rows
    BY DEF Rows

LEMMA RequestCounts ==
    ASSUME CountsType, Request, UNCHANGED faults
    PROVE  CountsType'
    BY UserAccessBounds DEF CountsType, Request

LEMMA FaultCounts ==
    ASSUME CountsType, Fault, UNCHANGED requests
    PROVE  CountsType'
    BY UserAccessBounds DEF CountsType, Fault

(* The jobs a step queues.                                                 *)
LEMMA QueuedJobs ==
    ASSUME JobsType, NEW ns, NEW k \in JobKinds, Queued(ns, k)
    PROVE  /\ JobsType'
           /\ \A n \in Nodes, j \in JobKinds : jobs[n][j] <= jobs'[n][j]
           /\ \A n \in Nodes : n \in ns => jobs'[n][k] > 0
<1>1. \A n \in Nodes : jobs[n] \in [JobKinds -> Nat]
    BY DEF JobsType
<1>2. ASSUME NEW n \in Nodes
      PROVE  /\ jobs'[n] \in [JobKinds -> Nat]
             /\ \A j \in JobKinds : jobs[n][j] <= jobs'[n][j]
             /\ n \in ns => jobs'[n][k] > 0
  <2>1. CASE n \in ns
    <3>1. jobs'[n] = [jobs[n] EXCEPT ![k] = jobs[n][k] + 1]
      BY <2>1 DEF Queued
    <3> QED
      BY <1>1, <3>1
  <2>2. CASE n \notin ns
    <3>1. jobs'[n] = jobs[n]
      BY <2>2 DEF Queued
    <3> QED
      BY <1>1, <2>2, <3>1
  <2> QED
    BY <2>1, <2>2
<1> QED
    BY <1>2 DEF JobsType, Queued

LEMMA QueuedOnceJobs ==
    ASSUME JobsType, NEW ns, NEW k \in JobKinds, QueuedOnce(ns, k)
    PROVE  /\ JobsType'
           /\ \A n \in Nodes, j \in JobKinds : jobs[n][j] <= jobs'[n][j]
           /\ \A n \in Nodes : n \in ns => jobs'[n][k] > 0 \/ Runs(n, k)
<1> DEFINE S == {n \in ns : jobs[n][k] = 0 /\ ~Runs(n, k)}
<1>1. Queued(S, k)
    BY DEF QueuedOnce
<1>2. /\ JobsType'
      /\ \A n \in Nodes, j \in JobKinds : jobs[n][j] <= jobs'[n][j]
      /\ \A n \in Nodes : n \in S => jobs'[n][k] > 0
    BY <1>1, QueuedJobs
<1>3. ASSUME NEW n \in Nodes, n \in ns, n \notin S
      PROVE  jobs'[n][k] > 0 \/ Runs(n, k)
  <2>1. jobs[n][k] \in Nat /\ jobs'[n][k] \in Nat /\ jobs[n][k] <= jobs'[n][k]
    BY <1>2 DEF JobsType
  <2>2. jobs[n][k] # 0 \/ Runs(n, k)
    BY <1>3
  <2> QED
    BY <2>1, <2>2
<1> QED
    BY <1>2, <1>3

(* A request that reads leaves a well-formed one behind.                   *)
LEMMA PlainWaits ==
    ASSUME OpType, UserType, CountsType, NEW a \in Admins, NEW u \in Users,
           NEW kind \in PlainKinds, Waits(a, kind, u, "kept")
    PROVE  OpType' /\ CountsType'
<1>1. [kind |-> kind, user |-> u, seen |-> user[u], ask |-> "kept"] \in Requests
    BY RowFacts DEF Requests
<1> QED
    BY <1>1, RequestCounts DEF Waits, OpType

LEMMA UpdateWaits ==
    ASSUME OpType, UserType, CountsType, NEW a \in Admins, NEW u \in Users,
           NEW ask \in Updates, Waits(a, "update", u, ask)
    PROVE  OpType' /\ CountsType'
<1>1. [kind |-> "update", user |-> u, seen |-> user[u], ask |-> ask] \in Requests
    BY RowFacts DEF Requests
<1> QED
    BY <1>1, RequestCounts DEF Waits, OpType

LEMMA SquadsWaits ==
    ASSUME OpType, UserType, CountsType, NEW a \in Admins, NEW u \in Users,
           NEW squads \in SUBSET Squads, Waits(a, "squads", u, squads)
    PROVE  OpType' /\ CountsType'
<1>1. [kind |-> "squads", user |-> u, seen |-> user[u], ask |-> squads] \in Requests
    BY RowFacts DEF Requests
<1> QED
    BY <1>1, RequestCounts DEF Waits, OpType

LEMMA AskTypes ==
    ASSUME TypeOK, NEW a \in Admins, AskUser(a) \/ AskReset(a) \/ AskGrants(a)
    PROVE  /\ TypeOK' /\ bus \subseteq bus'
           /\ UNCHANGED <<rows, events, nodeVars, missed>>
<1>0. /\ UserType /\ BusType /\ EventsType /\ OpType /\ JobsType /\ WorkerType
      /\ NodesType /\ CountsType /\ MissedType
    BY TypeParts
<1>1. ASSUME UNCHANGED <<rows, events, nodeVars, missed>>, BusType', OpType', CountsType'
      PROVE  TypeOK'
  <2>1. /\ UserType' /\ EventsType' /\ JobsType' /\ WorkerType' /\ NodesType' /\ MissedType'
    BY <1>0, <1>1 DEF rows, nodeVars, UserType, EventsType, JobsType, WorkerType, NodesType,
                      MissedType
  <2> QED
    BY <1>1, <2>1, TypeParts DEF TypeOK, UserType, BusType, EventsType, OpType, JobsType,
       WorkerType, NodesType, CountsType, MissedType
<1>2. CASE AskUser(a)
  <2>1. OpType' /\ CountsType'
    BY <1>0, <1>2, PlainWaits, UpdateWaits, SquadsWaits DEF AskUser, PlainKinds
  <2>2. UNCHANGED <<rows, events, nodeVars, missed, bus>>
    BY <1>2 DEF AskUser, Waits
  <2> QED
    BY <1>0, <1>1, <2>1, <2>2 DEF BusType
<1>3. CASE AskReset(a)
  <2>1. PICK u \in Users : /\ Waits(a, "reset", u, "kept")
                           /\ bus' = bus \/ bus' = bus \cup {[event |-> "add", user |-> u]}
    BY <1>3 DEF AskReset
  <2>2. OpType' /\ CountsType'
    BY <1>0, <2>1, PlainWaits DEF PlainKinds
  <2>3. BusType' /\ bus \subseteq bus'
    BY <1>0, <2>1 DEF BusType
  <2>4. UNCHANGED <<rows, events, nodeVars, missed>>
    BY <2>1 DEF Waits
  <2> QED
    BY <1>1, <2>2, <2>3, <2>4
<1>4. CASE AskGrants(a)
  <2>1. PICK s \in Squads, ns \in SUBSET Nodes :
          op' = [op EXCEPT ![a] = [kind |-> "grants", squad |-> s, seen |-> grants[s],
                                   ask |-> ns]]
    BY <1>4 DEF AskGrants
  <2>2. [kind |-> "grants", squad |-> s, seen |-> grants[s], ask |-> ns] \in Requests
    BY <1>0 DEF UserType, Requests
  <2>3. OpType'
    BY <1>0, <2>1, <2>2 DEF OpType
  <2>4. Request /\ UNCHANGED <<rows, bus, events, nodeVars, faults, missed>>
    BY <1>4 DEF AskGrants
  <2>5. CountsType' /\ BusType'
    BY <1>0, <2>4, RequestCounts DEF BusType
  <2> QED
    BY <1>1, <2>3, <2>4, <2>5
<1> QED
    BY <1>2, <1>3, <1>4

(* A step that leaves the Nodes, the jobs at work and the commands alone.  *)
LEMMA FrontTypes ==
    ASSUME TypeOK, UserType', BusType', EventsType', OpType', JobsType', CountsType', MissedType',
           UNCHANGED <<worker, connected, command, served, failed, late>>
    PROVE  TypeOK'
<1>1. WorkerType' /\ NodesType'
    BY TypeParts DEF WorkerType, NodesType
<1> QED
    BY <1>1 DEF TypeOK, UserType, BusType, EventsType, OpType, JobsType, WorkerType, NodesType,
                CountsType, MissedType

-----------------------------------------------------------------------------
(* What keeps a Node and a user together: whether the Node shall accept    *)
(* the user, whether a set of credentials says so, and whether an event    *)
(* about it is on its way.                                                 *)
ServesRow(n, row) == row.status = "ACTIVE" /\ n \in NodesOf(row.squads)
Serves(n, u) == ServesRow(n, user[u])
Agrees(conf, n, u) == \A k \in Nat : <<u, k>> \in conf <=> Serves(n, u) /\ user[u].key = k
Has(conf, u) == \E k \in Nat : <<u, k>> \in conf

Event(e, u) == [event |-> e, user |-> u]
Announced(n, u) ==
    IF Serves(n, u) THEN Event("add", u) \in bus \/ Event("ENABLED", u) \in events
                    ELSE \/ Event("remove", u) \in bus
                         \/ Event("EXPIRED", u) \in events \/ Event("LIMITED", u) \in events
Pending(n) == \E k \in JobKinds : jobs[n][k] > 0

LEMMA ConfigFacts ==
    ASSUME UserType, NEW n \in Nodes
    PROVE  /\ ConfigUsers(n) \in Credentials
           /\ \A u \in Users, k \in Nat :
                 <<u, k>> \in ConfigUsers(n) <=> Serves(n, u) /\ user[u].key = k
<1>1. \A u \in Users : user[u].key \in Nat
    BY RowFacts
<1>2. ConfigUsers(n) \in Credentials
    BY <1>1 DEF ConfigUsers, Credentials
<1>3. ASSUME NEW u \in Users, NEW k \in Nat
      PROVE  <<u, k>> \in ConfigUsers(n) <=> Serves(n, u) /\ user[u].key = k
  <2>1. <<u, k>> \in ConfigUsers(n)
           <=> \E v \in Users : /\ <<u, k>> = <<v, user[v].key>>
                                /\ Active(v) /\ n \in Granted(v)
    BY DEF ConfigUsers
  <2> QED
    BY <2>1 DEF Serves, ServesRow, Active, Granted
<1> QED
    BY <1>2, <1>3

(* Two sets of credentials that agree on every user are the same.          *)
LEMMA AgreeingIsEqual ==
    ASSUME UserType, NEW n \in Nodes, NEW conf \in Credentials
    PROVE  conf = ConfigUsers(n) <=> \A u \in Users : Agrees(conf, n, u)
<1>1. /\ ConfigUsers(n) \in SUBSET (Users \X Nat) /\ conf \in SUBSET (Users \X Nat)
      /\ \A u \in Users, k \in Nat :
            <<u, k>> \in ConfigUsers(n) <=> Serves(n, u) /\ user[u].key = k
    BY ConfigFacts DEF Credentials
<1>2. ASSUME \A u \in Users : Agrees(conf, n, u)
      PROVE  conf = ConfigUsers(n)
  <2>1. \A u \in Users, k \in Nat : <<u, k>> \in conf <=> <<u, k>> \in ConfigUsers(n)
    BY ZenonT(60), <1>1, <1>2 DEF Agrees
  <2>2. \A c \in Users \X Nat : \E u \in Users, k \in Nat : c = <<u, k>>
    OBVIOUS
  <2>3. \A c \in Users \X Nat : c \in conf <=> c \in ConfigUsers(n)
    BY <2>1, <2>2
  <2> QED
    BY <1>1, <2>3
<1>3. ASSUME conf = ConfigUsers(n)
      PROVE  \A u \in Users : Agrees(conf, n, u)
    BY ZenonT(60), <1>1, <1>3 DEF Agrees
<1> QED
    BY <1>2, <1>3

(* A step of the rows: what it changes for a Node it tells it, or records. *)
Same(n, u) ==
    (Serves(n, u)' <=> Serves(n, u)) /\ (Serves(n, u) => user'[u].key = user[u].key)

Tells(n, u) ==
    \/ Same(n, u) \/ n \in missed' \/ Announced(n, u)' \/ jobs'[n]["closed"] > 0
    \/ Serves(n, u)' /\ Pending(n)'

FrontStep ==
    /\ UNCHANGED <<worker, connected, command, served, failed, late>>
    /\ \A n \in Nodes, k \in JobKinds : jobs[n][k] <= jobs'[n][k]
    /\ bus \subseteq bus' /\ events \subseteq events' /\ missed \subseteq missed'
    /\ \A n \in Nodes, u \in Users : Tells(n, u)

LEMMA UnchangedIsSame ==
    ASSUME UserType, NEW n \in Nodes, n \notin Changed, NEW u \in Users
    PROVE  Same(n, u)
<1>1. ConfigUsers(n)' = ConfigUsers(n)
    BY DEF Changed
<1>2. Serves(n, u) <=> <<u, user[u].key>> \in ConfigUsers(n)
  <2>1. \A k : <<u, k>> \in ConfigUsers(n)
                  <=> \E v \in Users : /\ <<u, k>> = <<v, user[v].key>>
                                       /\ Active(v) /\ n \in Granted(v)
    BY DEF ConfigUsers
  <2> QED
    BY <2>1 DEF Serves, ServesRow, Active, Granted
<1>3. \A k : <<u, k>> \in ConfigUsers(n)' <=> Serves(n, u)' /\ user'[u].key = k
  <2>1. \A k : <<u, k>> \in ConfigUsers(n)'
                  <=> \E v \in Users : /\ <<u, k>> = <<v, user'[v].key>>
                                       /\ Active(v)' /\ n \in Granted(v)'
    BY DEF ConfigUsers
  <2> QED
    BY <2>1 DEF Serves, ServesRow, Active, Granted
<1>4. \A k : <<u, k>> \in ConfigUsers(n) <=> Serves(n, u) /\ user[u].key = k
  <2>1. \A k : <<u, k>> \in ConfigUsers(n)
                  <=> \E v \in Users : /\ <<u, k>> = <<v, user[v].key>>
                                       /\ Active(v) /\ n \in Granted(v)
    BY DEF ConfigUsers
  <2> QED
    BY <2>1 DEF Serves, ServesRow, Active, Granted
<1> QED
    BY <1>1, <1>2, <1>3, <1>4 DEF Same

(* The row of one user is written, or those of all.                        *)
LEMMA RowWritten ==
    ASSUME UserType, NEW v \in Users, NEW row, UNCHANGED grants,
           user' = [user EXCEPT ![v] = row]
    PROVE  \A n \in Nodes :
              /\ Serves(n, v)' <=> ServesRow(n, row)
              /\ \A u \in Users \ {v} : Same(n, u)
<1>1. user'[v] = row /\ \A u \in Users \ {v} : user'[u] = user[u]
    BY DEF UserType
<1> QED
    BY <1>1 DEF Serves, ServesRow, NodesOf, Same

LEMMA RowKept ==
    ASSUME NEW n, NEW u, UNCHANGED grants,
           \/ /\ user'[u].squads = user[u].squads
              /\ user'[u].status = user[u].status /\ user'[u].key = user[u].key
           \/ user'[u].status # "ACTIVE" /\ user[u].status # "ACTIVE"
    PROVE  Same(n, u)
    BY DEF Same, Serves, ServesRow, NodesOf

LEMMA NotGrantedIsSame ==
    ASSUME NEW n, NEW v \in Users, NEW row, UNCHANGED grants, user'[v] = row,
           row.squads = user[v].squads, row.status = "ACTIVE", ~ServesRow(n, row)
    PROVE  Same(n, v)
    BY DEF Same, Serves, ServesRow, NodesOf

LEMMA NothingWritten ==
    ASSUME UNCHANGED rows, NEW n, NEW u
    PROVE  Same(n, u)
    BY DEF rows, Same, Serves, ServesRow, NodesOf

(* The write of a request: the row it leaves is announced to the Nodes for *)
(* which it makes a difference, or they are recorded.                      *)
WriteTells(v, row, published) ==
    \A n \in Nodes :
        \/ Same(n, v) \/ n \in missed'
        \/ ServesRow(n, row) /\ ("add" \in published \/ Event("add", v) \in bus)
        \/ ~ServesRow(n, row) /\ "remove" \in published

LEMMA WriteStep ==
    ASSUME TypeOK, NEW a \in Admins, NEW kind \in PlainKinds \cup {"update", "squads"},
           NEW row \in Rows, NEW published \in SUBSET {"add", "remove"},
           Writes(a, kind, row, published), missed \subseteq missed', MissedType',
           NEW v \in Users, v = op[a].user,
           Exists(v) /\ user' = [user EXCEPT ![v] = row] => WriteTells(v, row, published)
    PROVE  TypeOK' /\ FrontStep
<1>0. UserType /\ BusType /\ EventsType /\ OpType /\ JobsType /\ CountsType
    BY TypeParts
<1>1. /\ op[a] # Idle /\ op[a].kind = kind /\ op' = [op EXCEPT ![a] = Idle]
      /\ UNCHANGED <<grants, events, nodeVars, counters>>
    BY DEF Writes
<1>3. OpType' /\ EventsType' /\ JobsType' /\ CountsType'
    BY <1>0, <1>1 DEF OpType, EventsType, JobsType, CountsType, nodeVars, counters
<1>4. /\ UNCHANGED <<worker, connected, command, served, failed, late, events>>
      /\ \A n \in Nodes, k \in JobKinds : jobs[n][k] <= jobs'[n][k]
    BY <1>0, <1>1 DEF nodeVars, JobsType
<1>5. CASE Exists(v)
  <2>1. user' = [user EXCEPT ![v] = row] /\ bus' = bus \cup {Event(e, v) : e \in published}
    BY <1>5 DEF Writes, Event
  <2>2. UserType'
    BY <1>0, <1>1, <2>1 DEF UserType
  <2>3. BusType'
    <3>1. \A e \in published : Event(e, v) \in [event : {"add", "remove"}, user : Users]
      BY DEF Event
    <3> QED
      BY <1>0, <2>1, <3>1 DEF BusType
  <2>4. ASSUME NEW n \in Nodes, NEW u \in Users
        PROVE  Tells(n, u)
    <3>1. /\ Serves(n, v)' <=> ServesRow(n, row)
          /\ \A w \in Users \ {v} : Same(n, w)
      BY <1>0, <1>1, <2>1, RowWritten
    <3>2. CASE u # v
      BY <3>1, <3>2 DEF Tells
    <3>3. CASE u = v
      <4>1. \/ Same(n, v) \/ n \in missed'
            \/ ServesRow(n, row) /\ ("add" \in published \/ Event("add", v) \in bus)
            \/ ~ServesRow(n, row) /\ "remove" \in published
        BY <1>5, <2>1 DEF WriteTells
      <4>2. ASSUME ServesRow(n, row), "add" \in published \/ Event("add", v) \in bus
            PROVE  Announced(n, v)'
        BY <2>1, <3>1, <4>2 DEF Announced
      <4>3. ASSUME ~ServesRow(n, row), "remove" \in published
            PROVE  Announced(n, v)'
        BY <2>1, <3>1, <4>3 DEF Announced
      <4> QED
        BY <3>3, <4>1, <4>2, <4>3 DEF Tells
    <3> QED
      BY <3>2, <3>3
  <2>5. FrontStep
    BY <1>4, <2>1, <2>4 DEF FrontStep
  <2> QED
    BY <1>3, <1>4, <2>2, <2>3, <2>5, FrontTypes
<1>6. CASE ~Exists(v)
  <2>1. UNCHANGED <<rows, bus>>
    BY <1>1, <1>6 DEF Writes, rows
  <2>2. UserType' /\ BusType'
    BY <1>0, <2>1 DEF rows, UserType, BusType
  <2>3. \A n \in Nodes, u \in Users : Tells(n, u)
    BY <2>1, NothingWritten DEF Tells
  <2>4. FrontStep
    BY <1>4, <2>1, <2>3 DEF FrontStep
  <2> QED
    BY <1>3, <1>4, <2>2, <2>4, FrontTypes
<1> QED
    BY <1>5, <1>6

-----------------------------------------------------------------------------
(* The requests.                                                           *)
LEMMA AskStep ==
    ASSUME TypeOK, NEW a \in Admins, AskUser(a) \/ AskReset(a) \/ AskGrants(a)
    PROVE  TypeOK' /\ FrontStep
<1>1. TypeOK' /\ bus \subseteq bus' /\ UNCHANGED <<rows, events, nodeVars, missed>>
    BY AskTypes
<1>2. \A n \in Nodes, u \in Users : Tells(n, u)
    BY <1>1, NothingWritten DEF Tells
<1>3. \A n \in Nodes, k \in JobKinds : jobs[n][k] <= jobs'[n][k]
    BY <1>1 DEF TypeOK, nodeVars
<1> QED
    BY <1>1, <1>2, <1>3 DEF FrontStep, nodeVars

(* A request that writes is about a user with a row.                       *)
LEMMA WriterFacts ==
    ASSUME TypeOK, NEW a \in Admins, op[a] # Idle,
           op[a].kind \in PlainKinds \cup {"update", "squads"}
    PROVE  /\ op[a].user \in Users /\ Seen(a) \in Statuses
           /\ Row(a) = user[op[a].user] /\ Row(a) \in Rows
           /\ Row(a).status \in Statuses /\ Row(a).over \in BOOLEAN /\ Row(a).past \in BOOLEAN
           /\ Row(a).key \in Nat /\ Row(a).squads \in SUBSET Squads
           /\ op[a].kind = "update" => op[a].ask \in Updates
           /\ op[a].kind = "squads" => op[a].ask \in SUBSET Squads
<1>1. OpType /\ UserType
    BY TypeParts
<1>2. op[a].user \in Users /\ op[a].seen \in Rows
    BY <1>1, RequestFacts
<1> QED
    BY <1>1, <1>2, RequestFacts, RowFacts DEF Seen, Row, Rows

LEMMA DisableStep ==
    ASSUME TypeOK, NEW a \in Admins, DisableUser(a) \/ DeleteUser(a)
    PROVE  TypeOK' /\ FrontStep
<1>1. op[a] # Idle /\ op[a].kind \in {"disable", "delete"}
    BY DEF DisableUser, DeleteUser, Writes
<1>2. PICK v \in Users : v = op[a].user
    BY <1>1, WriterFacts DEF PlainKinds
<1>3. PICK row \in Rows : Writes(a, op[a].kind, row, {"remove"}) /\ row.status # "ACTIVE"
  <2>1. CASE DisableUser(a)
    <3>1. [Row(a) EXCEPT !.status = "DISABLED"] \in Rows
      BY <1>1, WriterFacts DEF PlainKinds, Rows, Statuses
    <3>2. [Row(a) EXCEPT !.status = "DISABLED"].status = "DISABLED"
      BY <1>1, WriterFacts DEF PlainKinds, Rows
    <3> QED
      BY <2>1, <3>1, <3>2 DEF DisableUser, Writes
  <2>2. CASE DeleteUser(a)
    <3>1. [Row(a) EXCEPT !.status = "DELETED", !.squads = {}] \in Rows
      BY <1>1, WriterFacts DEF PlainKinds, Rows, Statuses
    <3>2. [Row(a) EXCEPT !.status = "DELETED", !.squads = {}].status = "DELETED"
      BY <1>1, WriterFacts DEF PlainKinds, Rows
    <3> QED
      BY <2>2, <3>1, <3>2 DEF DeleteUser, Writes
  <2> QED
    BY <2>1, <2>2
<1>4. WriteTells(v, row, {"remove"})
    BY <1>3 DEF WriteTells, ServesRow
<1>5. missed' = missed /\ MissedType'
    BY TypeParts DEF DisableUser, DeleteUser, MissesNothing, MissedType
<1> QED
    BY <1>1, <1>2, <1>3, <1>4, <1>5, WriteStep DEF PlainKinds

LEMMA EnableStep ==
    ASSUME TypeOK, NEW a \in Admins, EnableUser(a)
    PROVE  TypeOK' /\ FrontStep
<1>1. op[a] # Idle /\ op[a].kind = "enable" /\ UNCHANGED grants
    BY DEF EnableUser, Writes
<1>2. PICK v \in Users : v = op[a].user
    BY <1>1, WriterFacts DEF PlainKinds
<1>3. PICK row : row = [user[v] EXCEPT !.status = "ACTIVE"]
    OBVIOUS
<1>4. /\ row \in Rows /\ row.status = "ACTIVE" /\ row.squads = user[v].squads
      /\ Writes(a, "enable", row, {"add"}) /\ missed' = missed
    BY <1>1, <1>2, <1>3, WriterFacts
    DEF PlainKinds, Rows, Statuses, EnableUser, MissesNothing, Row
<1>5. ASSUME user' = [user EXCEPT ![v] = row]
      PROVE  WriteTells(v, row, {"add"})
  <2>1. user'[v] = row
    BY <1>5, TypeParts DEF UserType
  <2>2. ASSUME NEW n \in Nodes, ~ServesRow(n, row)
        PROVE  Same(n, v)
    BY <1>1, <1>4, <2>1, <2>2, NotGrantedIsSame
  <2> QED
    BY <2>2 DEF WriteTells
<1>6. MissedType'
    BY <1>4, TypeParts DEF MissedType
<1> QED
    BY <1>2, <1>4, <1>5, <1>6, WriteStep DEF PlainKinds

LEMMA RevokeStep ==
    ASSUME TypeOK, NEW a \in Admins, RevokeUserSubscription(a)
    PROVE  TypeOK' /\ FrontStep
<1>1. op[a] # Idle /\ op[a].kind = "revoke" /\ UNCHANGED grants
    BY DEF RevokeUserSubscription, Writes
<1>2. PICK v \in Users : v = op[a].user
    BY <1>1, WriterFacts DEF PlainKinds
<1>3. PICK row : row = [user[v] EXCEPT !.key = user[v].key + 1]
    OBVIOUS
<1>4. PICK published : published = IF user[v].status = "ACTIVE" THEN {"add"} ELSE {}
    OBVIOUS
<1>5. /\ row \in Rows /\ row.status = user[v].status /\ row.squads = user[v].squads
      /\ Writes(a, "revoke", row, published) /\ missed' = missed
      /\ published \in SUBSET {"add", "remove"}
    BY SMTT(40), <1>1, <1>2, <1>3, <1>4, WriterFacts
    DEF PlainKinds, Rows, RevokeUserSubscription, MissesNothing, Row
<1>6. ASSUME user' = [user EXCEPT ![v] = row]
      PROVE  WriteTells(v, row, published)
  <2>1. user'[v] = row
    BY <1>6, TypeParts DEF UserType
  <2>2. CASE user[v].status = "ACTIVE"
    BY <1>1, <1>4, <1>5, <2>1, <2>2, NotGrantedIsSame DEF WriteTells
  <2>3. CASE user[v].status # "ACTIVE"
    BY <1>1, <1>5, <2>1, <2>3, RowKept DEF WriteTells
  <2> QED
    BY <2>2, <2>3
<1>7. MissedType'
    BY <1>5, TypeParts DEF MissedType
<1> QED
    BY <1>2, <1>5, <1>6, <1>7, WriteStep DEF PlainKinds

(* What is recorded is a set of Nodes.                                     *)
LEMMA MissesType ==
    ASSUME MissedType, NEW ns \in SUBSET Nodes, Misses(ns)
    PROVE  MissedType' /\ missed \subseteq missed' /\ ns \subseteq missed'
    BY DEF MissedType, Misses

LEMMA ExtendStep ==
    ASSUME TypeOK, NEW a \in Admins, ExtendUserExpirationDate(a)
    PROVE  TypeOK' /\ FrontStep
<1>1. op[a] # Idle /\ op[a].kind = "extend" /\ UNCHANGED grants
    BY DEF ExtendUserExpirationDate, Writes
<1>2. PICK v \in Users : v = op[a].user
    BY <1>1, WriterFacts DEF PlainKinds
<1>3. PICK status : status = IF Seen(a) = "EXPIRED" THEN "ACTIVE" ELSE Seen(a)
    OBVIOUS
<1>4. PICK row : row = [user[v] EXCEPT !.past = FALSE, !.status = status]
    OBVIOUS
<1>5. PICK published : published = IF Seen(a) = "EXPIRED" THEN {"add"} ELSE {}
    OBVIOUS
<1>6. Writes(a, "extend", row, published)
    BY <1>2, <1>3, <1>4, <1>5 DEF ExtendUserExpirationDate, Row
<1>7. status \in Statuses
    BY <1>1, <1>3, WriterFacts DEF PlainKinds, Statuses
<1>8. row \in Rows /\ row.status = status /\ row.squads = user[v].squads
    BY <1>1, <1>2, <1>4, <1>7, WriterFacts DEF PlainKinds, Rows
<1>9. MissedType' /\ missed \subseteq missed' /\ (Seen(a) # "EXPIRED" => Changed \subseteq missed')
  <2>1. Changed \in SUBSET Nodes
    BY DEF Changed
  <2> QED
    BY <2>1, MissesType, TypeParts DEF ExtendUserExpirationDate, Misses, MissedType
<1>10. ASSUME user' = [user EXCEPT ![v] = row]
       PROVE  WriteTells(v, row, published)
  <2>1. user'[v] = row /\ UserType
    BY <1>10, TypeParts DEF UserType
  <2>2. CASE Seen(a) = "EXPIRED"
    BY <1>1, <1>3, <1>5, <1>8, <2>1, <2>2, NotGrantedIsSame DEF WriteTells
  <2>3. CASE Seen(a) # "EXPIRED"
    BY <1>9, <2>1, <2>3, UnchangedIsSame DEF WriteTells
  <2> QED
    BY <2>2, <2>3
<1>11. published \in SUBSET {"add", "remove"}
    BY <1>5
<1> QED
    BY <1>2, <1>6, <1>8, <1>9, <1>10, <1>11, WriteStep DEF PlainKinds

LEMMA ResetStep ==
    ASSUME TypeOK, NEW a \in Admins, ResetUserTraffic(a)
    PROVE  TypeOK' /\ FrontStep
<1>1. op[a] # Idle /\ op[a].kind = "reset" /\ UNCHANGED grants
    BY DEF ResetUserTraffic, Writes
<1>2. PICK v \in Users : v = op[a].user
    BY <1>1, WriterFacts DEF PlainKinds
<1>3. PICK status : status = IF Seen(a) = "LIMITED" THEN "ACTIVE" ELSE user[v].status
    OBVIOUS
<1>4. PICK row : row = [user[v] EXCEPT !.over = FALSE, !.status = status]
    OBVIOUS
<1>7. status \in Statuses
    BY <1>1, <1>2, <1>3, WriterFacts DEF PlainKinds, Statuses
<1>8. /\ row \in Rows /\ row.status = status /\ row.squads = user[v].squads
      /\ row.key = user[v].key
    BY <1>1, <1>2, <1>4, <1>7, WriterFacts DEF PlainKinds, Rows
<1>6. Writes(a, "reset", row, {})
  <2>1. user[v] \in Rows
    BY <1>1, <1>2, WriterFacts DEF PlainKinds
  <2>2. row = [user[v] EXCEPT !.over = FALSE,
                  !.status = IF Seen(a) = "LIMITED" THEN "ACTIVE" ELSE @]
    BY <1>3, <1>4, <2>1 DEF Rows
  <2> QED
    BY <1>2, <2>2 DEF ResetUserTraffic, Row
<1>9. /\ MissedType' /\ missed \subseteq missed'
      /\ Event("add", v) \notin bus => Changed \subseteq missed'
  <2>1. Changed \in SUBSET Nodes
    BY DEF Changed
  <2> QED
    BY <1>2, <2>1, TypeParts DEF ResetUserTraffic, Misses, MissedType, Event
<1>10. ASSUME user' = [user EXCEPT ![v] = row]
       PROVE  WriteTells(v, row, {})
  <2>1. user'[v] = row /\ UserType
    BY <1>10, TypeParts DEF UserType
  <2>2. CASE Event("add", v) \in bus /\ Seen(a) = "LIMITED"
    BY <1>1, <1>3, <1>8, <2>1, <2>2, NotGrantedIsSame DEF WriteTells
  <2>3. CASE Event("add", v) \in bus /\ Seen(a) # "LIMITED"
    BY <1>1, <1>3, <1>8, <2>1, <2>3, RowKept DEF WriteTells
  <2>4. CASE Event("add", v) \notin bus
    BY <1>9, <2>1, <2>4, UnchangedIsSame DEF WriteTells
  <2> QED
    BY <2>2, <2>3, <2>4
<1> QED
    BY <1>2, <1>6, <1>8, <1>9, <1>10, WriteStep DEF PlainKinds

LEMMA UpdateStep ==
    ASSUME TypeOK, NEW a \in Admins, UpdateUser(a)
    PROVE  TypeOK' /\ FrontStep
<1>1. op[a] # Idle /\ op[a].kind = "update"
    BY DEF UpdateUser
<1>2. PICK v \in Users : v = op[a].user
    BY <1>1, WriterFacts DEF PlainKinds
<1>3. PICK ask : ask = op[a].ask
    OBVIOUS
<1>4. PICK status : status = IF NewStatus(a) = "kept" THEN user[v].status ELSE NewStatus(a)
    OBVIOUS
<1>5. PICK squads : squads = IF NewSquads(a) THEN ask.squads ELSE user[v].squads
    OBVIOUS
<1>6. PICK added \in BOOLEAN :
          added <=> AddToNode(a) /\ status = "ACTIVE" /\ ~RemoveFromNode(a)
  <2>1. (AddToNode(a) /\ status = "ACTIVE" /\ ~RemoveFromNode(a)) \in BOOLEAN
    OBVIOUS
  <2> QED
    BY <2>1
<1>7. PICK published : published = IF RemoveFromNode(a) THEN {"remove"}
                                     ELSE IF added THEN {"add"} ELSE {}
    OBVIOUS
<1>8. PICK over \in (IF ask.raised THEN {user[v].over, FALSE} ELSE {user[v].over}) :
          Writes(a, "update", [user[v] EXCEPT !.status = status, !.squads = squads,
                                  !.over = over, !.past = @ /\ ~ask.extended], published)
    BY ZenonT(60), <1>2, <1>3, <1>4, <1>5, <1>6, <1>7 DEF UpdateUser, Row
<1>9. PICK row : row = [user[v] EXCEPT !.status = status, !.squads = squads,
                                  !.over = over, !.past = @ /\ ~ask.extended]
    OBVIOUS
<1>10. /\ status \in Statuses /\ squads \in SUBSET Squads /\ over \in BOOLEAN
       /\ ask \in Updates /\ user[v] \in Rows
  <2>1. /\ op[a].ask \in Updates /\ Row(a) = user[v] /\ user[v] \in Rows
        /\ user[v].status \in Statuses /\ user[v].over \in BOOLEAN
        /\ user[v].squads \in SUBSET Squads
    BY <1>1, <1>2, WriterFacts DEF PlainKinds
  <2>2. status \in Statuses
    BY <1>4, <2>1 DEF NewStatus, Statuses
  <2>3. squads \in SUBSET Squads
    BY <1>3, <1>5, <2>1 DEF NewSquads, Updates
  <2> QED
    BY <1>3, <1>8, <2>1, <2>2, <2>3
<1>11. row \in Rows /\ row.status = status /\ row.squads = squads
  <2>1. PICK past \in BOOLEAN : past <=> user[v].past /\ ~ask.extended
    <3>1. (user[v].past /\ ~ask.extended) \in BOOLEAN
      OBVIOUS
    <3> QED
      BY <3>1
  <2>2. CASE user[v].past /\ ~ask.extended
    <3>1. row = [user[v] EXCEPT !.status = status, !.squads = squads,
                                !.over = over, !.past = TRUE]
      BY <1>9, <1>10, <2>2 DEF Rows
    <3> QED
      BY <1>10, <3>1 DEF Rows
  <2>3. CASE ~(user[v].past /\ ~ask.extended)
    <3>1. row = [user[v] EXCEPT !.status = status, !.squads = squads,
                                !.over = over, !.past = FALSE]
      BY <1>9, <1>10, <2>3 DEF Rows
    <3> QED
      BY <1>10, <3>1 DEF Rows
  <2> QED
    BY <2>2, <2>3
<1>12. PICK ns : ns = IF RemoveFromNode(a) THEN {}
                        ELSE Changed \ (IF added THEN NodesOf(squads) ELSE {})
    OBVIOUS
<1>13. Misses(ns) /\ ns \in SUBSET Nodes
  <2>1. Changed \in SUBSET Nodes
    BY DEF Changed
  <2>2. ns \in SUBSET Nodes
    BY <1>12, <2>1
  <2> QED
    BY ZenonT(60), <1>2, <1>3, <1>4, <1>5, <1>6, <1>12, <2>2 DEF UpdateUser, Row
<1>14. MissedType' /\ missed \subseteq missed' /\ ns \subseteq missed'
    BY <1>13, MissesType, TypeParts
<1>15. ASSUME user' = [user EXCEPT ![v] = row], NEW n \in Nodes
       PROVE  \/ Same(n, v) \/ n \in missed'
              \/ ServesRow(n, row) /\ ("add" \in published \/ Event("add", v) \in bus)
              \/ ~ServesRow(n, row) /\ "remove" \in published
  <2>1. CASE RemoveFromNode(a)
    <3>1. squads = {} \/ status = "DISABLED"
      BY <1>3, <1>4, <1>5, <2>1 DEF RemoveFromNode
    <3>2. ~ServesRow(n, row)
      BY <1>11, <3>1 DEF ServesRow, NodesOf
    <3> QED
      BY <1>7, <2>1, <3>2
  <2>2. CASE ~RemoveFromNode(a) /\ added /\ n \in NodesOf(squads)
    <3>1. ServesRow(n, row)
      BY <1>6, <1>11, <2>2 DEF ServesRow
    <3> QED
      BY <1>7, <2>2, <3>1
  <2>3. CASE ~RemoveFromNode(a) /\ ~(added /\ n \in NodesOf(squads))
    <3>1. n \in Changed => n \in missed'
      BY <1>12, <1>14, <2>3
    <3> QED
      BY <3>1, UnchangedIsSame, TypeParts
  <2> QED
    BY <2>1, <2>2, <2>3
<1>16. published \in SUBSET {"add", "remove"}
    BY <1>7
<1>17. user' = [user EXCEPT ![v] = row] => WriteTells(v, row, published)
    BY <1>15 DEF WriteTells
<1> QED
    BY <1>2, <1>8, <1>9, <1>11, <1>14, <1>16, <1>17, WriteStep

LEMMA SquadsStep ==
    ASSUME TypeOK, NEW a \in Admins, UpdateUsersInternalSquads(a)
    PROVE  TypeOK' /\ FrontStep
<1>1. op[a] # Idle /\ op[a].kind = "squads" /\ UNCHANGED grants
    BY DEF UpdateUsersInternalSquads, Writes
<1>2. PICK v \in Users : v = op[a].user
    BY <1>1, WriterFacts DEF PlainKinds
<1>3. PICK ask \in {op[a].ask, {}} :
          /\ Writes(a, "squads", [Row(a) EXCEPT !.squads = ask], IF ask = {} THEN {} ELSE {"add"})
          /\ Misses(Changed \ NodesOf(ask))
    BY DEF UpdateUsersInternalSquads
<1>4. PICK row : row = [user[v] EXCEPT !.squads = ask]
    OBVIOUS
<1>5. PICK published : published = IF ask = {} THEN {} ELSE {"add"}
    OBVIOUS
<1>6. Writes(a, "squads", row, published)
    BY <1>2, <1>3, <1>4, <1>5 DEF Row
<1>7. /\ row \in Rows /\ row.status = user[v].status /\ row.squads = ask
    BY <1>1, <1>2, <1>3, <1>4, WriterFacts DEF PlainKinds, Rows
<1>8. /\ MissedType' /\ missed \subseteq missed'
      /\ \A n \in Changed : n \in NodesOf(ask) \/ n \in missed'
  <2>1. Changed \in SUBSET Nodes
    BY DEF Changed
  <2> QED
    BY <1>3, <2>1, TypeParts DEF Misses, MissedType
<1>9. ASSUME user' = [user EXCEPT ![v] = row], NEW n \in Nodes
      PROVE  \/ Same(n, v) \/ n \in missed'
             \/ ServesRow(n, row) /\ ("add" \in published \/ Event("add", v) \in bus)
             \/ ~ServesRow(n, row) /\ "remove" \in published
  <2>1. user'[v] = row /\ UserType
    BY <1>9, TypeParts DEF UserType
  <2>2. CASE n \notin Changed
    BY <2>1, <2>2, UnchangedIsSame
  <2>3. CASE n \in Changed /\ n \in NodesOf(ask) /\ user[v].status = "ACTIVE"
    <3>1. ask # {}
      BY <2>3 DEF NodesOf
    <3> QED
      BY <1>5, <1>7, <2>3, <3>1 DEF ServesRow
  <2>4. CASE user[v].status # "ACTIVE"
    BY <1>1, <1>7, <2>1, <2>4, RowKept
  <2> QED
    BY <1>8, <2>2, <2>3, <2>4
<1>10. user' = [user EXCEPT ![v] = row] => WriteTells(v, row, published)
    BY <1>9 DEF WriteTells
<1>11. published \in SUBSET {"add", "remove"}
    BY <1>5
<1> QED
    BY <1>2, <1>6, <1>7, <1>8, <1>10, <1>11, WriteStep

-----------------------------------------------------------------------------
(* Steps that write rows without having waited.                            *)
LEMMA RowsStep ==
    ASSUME TypeOK, UNCHANGED <<op, jobs, worker, connected, command, served, failed, late>>,
           UserType', BusType', EventsType', CountsType', MissedType',
           bus \subseteq bus', events \subseteq events', missed \subseteq missed',
           \A n \in Nodes, u \in Users : Tells(n, u)
    PROVE  TypeOK' /\ FrontStep
<1>1. OpType' /\ JobsType'
    BY TypeParts DEF OpType, JobsType
<1>2. \A n \in Nodes, k \in JobKinds : jobs[n][k] <= jobs'[n][k]
    BY TypeParts DEF JobsType
<1> QED
    BY <1>1, <1>2, FrontTypes DEF FrontStep

LEMMA CreateStep ==
    ASSUME TypeOK, NEW v \in Users, CreateUser(v)
    PROVE  TypeOK' /\ FrontStep
<1>1. /\ ~Exists(v) /\ Request
      /\ UNCHANGED <<grants, op, events, jobs, worker, connected, command, served, failed,
                     late, faults, missed>>
    BY DEF CreateUser, nodeVars
<1>2. PICK squads \in SUBSET Squads, status \in {"ACTIVE", "DISABLED"} :
          /\ user' = [user EXCEPT ![v] = [status |-> status, over |-> FALSE, past |-> FALSE,
                                          key |-> user[v].key + 1, squads |-> squads]]
          /\ bus' = IF status = "ACTIVE" THEN bus \cup {[event |-> "add", user |-> v]} ELSE bus
    BY DEF CreateUser
<1>3. UserType /\ BusType /\ EventsType /\ CountsType /\ MissedType
    BY TypeParts
<1>4. PICK row : row = [status |-> status, over |-> FALSE, past |-> FALSE,
                        key |-> user[v].key + 1, squads |-> squads]
    OBVIOUS
<1>5. row \in Rows /\ row.status = status
    BY <1>3, <1>4, RowFacts DEF Rows, Statuses
<1>6. UserType' /\ user' = [user EXCEPT ![v] = row] /\ user'[v] = row
    BY <1>1, <1>2, <1>3, <1>4, <1>5 DEF UserType
<1>7. BusType' /\ bus \subseteq bus'
    BY <1>2, <1>3 DEF BusType
<1>8. EventsType' /\ CountsType' /\ MissedType'
    BY <1>1, <1>3, RequestCounts DEF EventsType, MissedType
<1>9. ASSUME NEW n \in Nodes, NEW u \in Users
      PROVE  Tells(n, u)
  <2>1. CASE u # v
    BY <1>1, <1>3, <1>6, <2>1, RowWritten DEF Tells
  <2>2. CASE u = v /\ status = "ACTIVE" /\ Serves(n, v)'
    BY <1>2, <2>2 DEF Tells, Announced, Event
  <2>3. CASE u = v /\ status = "ACTIVE" /\ ~Serves(n, v)'
    BY <1>1, <2>3 DEF Tells, Same, Serves, ServesRow, Exists
  <2>4. CASE u = v /\ status # "ACTIVE"
    BY <1>1, <1>5, <1>6, <2>4 DEF Tells, Same, Serves, ServesRow, Exists
  <2> QED
    BY <2>1, <2>2, <2>3, <2>4
<1> QED
    BY <1>1, <1>6, <1>7, <1>8, <1>9, RowsStep

LEMMA BulkExtendStep ==
    ASSUME TypeOK, NEW us \in SUBSET Users, BulkExtendExpirationDate(us)
    PROVE  TypeOK' /\ FrontStep
<1>1. /\ Request
      /\ UNCHANGED <<grants, op, events, jobs, worker, connected, command, served, failed,
                     late, faults, missed>>
    BY ZenonT(60) DEF BulkExtendExpirationDate, nodeVars
<1>2. PICK ahead \in SUBSET {u \in us : Exists(u)}, synced \in SUBSET Users :
          /\ synced = {u \in ahead : user[u].status = "EXPIRED"}
          /\ user' = [u \in Users |->
                        [user[u] EXCEPT !.past = @ /\ u \notin ahead,
                                        !.status = IF u \in synced THEN "ACTIVE" ELSE @]]
          /\ bus' = bus \cup [event : {"add"}, user : synced]
    BY ZenonT(60) DEF BulkExtendExpirationDate
<1>3. UserType /\ BusType /\ EventsType /\ CountsType /\ MissedType /\ synced \subseteq Users
    BY ZenonT(60), <1>2, TypeParts
<1>4. ASSUME NEW u \in Users
      PROVE  /\ user'[u] \in Rows /\ user'[u].key = user[u].key
             /\ user'[u].squads = user[u].squads
             /\ user'[u].status = IF u \in synced THEN "ACTIVE" ELSE user[u].status
  <2>1. user[u] \in Rows /\ user[u].status \in Statuses
    BY <1>3, RowFacts
  <2>2. PICK status : status = IF u \in synced THEN "ACTIVE" ELSE user[u].status
    OBVIOUS
  <2>3. status \in Statuses
    BY <2>1, <2>2 DEF Statuses
  <2>4. CASE user[u].past /\ u \notin ahead
    <3>1. user'[u] = [user[u] EXCEPT !.past = TRUE, !.status = status]
      BY ZenonT(60), <1>2, <2>1, <2>2, <2>4 DEF Rows
    <3> QED
      BY <2>1, <2>2, <2>3, <3>1 DEF Rows
  <2>5. CASE ~(user[u].past /\ u \notin ahead)
    <3>1. user'[u] = [user[u] EXCEPT !.past = FALSE, !.status = status]
      BY ZenonT(60), <1>2, <2>1, <2>2, <2>5 DEF Rows
    <3> QED
      BY <2>1, <2>2, <2>3, <3>1 DEF Rows
  <2> QED
    BY <2>4, <2>5
<1>5. UserType'
    BY ZenonT(60), <1>1, <1>2, <1>3, <1>4 DEF UserType
<1>6. BusType' /\ bus \subseteq bus'
    BY ZenonT(60), <1>2, <1>3 DEF BusType
<1>7. EventsType' /\ CountsType' /\ MissedType'
    BY <1>1, <1>3, RequestCounts DEF EventsType, MissedType
<1>8. ASSUME NEW n \in Nodes, NEW u \in Users
      PROVE  Tells(n, u)
  <2>1. CASE u \notin synced
    BY <1>1, <1>4, <2>1, RowKept DEF Tells
  <2>2. CASE u \in synced
    <3>1. Event("add", u) \in bus'
      BY ZenonT(60), <1>2, <2>2 DEF Event
    <3>2. CASE ServesRow(n, user'[u])
      <4>1. Serves(n, u)'
        BY <1>1, <3>2 DEF Serves, ServesRow, NodesOf
      <4> QED
        BY <3>1, <4>1 DEF Tells, Announced
    <3>3. CASE ~ServesRow(n, user'[u])
      BY <1>1, <1>4, <2>2, <3>3, NotGrantedIsSame DEF Tells
    <3> QED
      BY <3>2, <3>3
  <2> QED
    BY <2>1, <2>2
<1> QED
    BY <1>1, <1>5, <1>6, <1>7, <1>8, RowsStep

LEMMA FlagStep ==
    ASSUME TypeOK, NEW v \in Users, Consume(v) \/ DatePasses(v)
    PROVE  TypeOK' /\ FrontStep
<1>1. /\ Request
      /\ UNCHANGED <<grants, op, bus, events, jobs, worker, connected, command, served, failed,
                     late, faults, missed>>
      /\ \/ user' = [user EXCEPT ![v].over = TRUE]
         \/ user' = [user EXCEPT ![v].past = TRUE]
    BY DEF Consume, DatePasses, nodeVars
<1>2. UserType /\ BusType /\ EventsType /\ CountsType /\ MissedType
    BY TypeParts
<1>3. ASSUME NEW u \in Users
      PROVE  /\ user'[u] \in Rows /\ user'[u].key = user[u].key
             /\ user'[u].squads = user[u].squads /\ user'[u].status = user[u].status
  <2>1. user[u] \in Rows /\ user[v] \in Rows
    BY <1>2, RowFacts
  <2>2. CASE user' = [user EXCEPT ![v].over = TRUE]
    BY <1>2, <2>1, <2>2 DEF UserType, Rows
  <2>3. CASE user' = [user EXCEPT ![v].past = TRUE]
    BY <1>2, <2>1, <2>3 DEF UserType, Rows
  <2> QED
    BY <1>1, <2>2, <2>3
<1>4. UserType' /\ BusType' /\ EventsType' /\ CountsType' /\ MissedType'
    BY <1>1, <1>2, <1>3, RequestCounts DEF UserType, BusType, EventsType, MissedType
<1>5. \A n \in Nodes, u \in Users : Tells(n, u)
    BY <1>1, <1>3, RowKept DEF Tells
<1> QED
    BY <1>1, <1>4, <1>5, RowsStep

LEMMA SweptStep ==
    ASSUME TypeOK, NEW us \in SUBSET Users, NEW e \in {"LIMITED", "EXPIRED"}, Swept(us, e, e)
    PROVE  TypeOK' /\ FrontStep
<1>1. /\ UNCHANGED <<grants, op, bus, jobs, worker, connected, command, served, failed,
                     late, requests, faults, missed>>
      /\ user' = [u \in Users |-> IF u \in us THEN [user[u] EXCEPT !.status = e]
                                              ELSE user[u]]
      /\ events' = events \cup [event : {e}, user : us]
    BY DEF Swept, nodeVars, counters
<1>2. UserType /\ BusType /\ EventsType /\ CountsType /\ MissedType
    BY TypeParts
<1>3. ASSUME NEW u \in Users
      PROVE  /\ user'[u] \in Rows
             /\ u \in us => user'[u].status = e
             /\ u \notin us => user'[u] = user[u]
    BY <1>1, <1>2 DEF UserType, Rows, Statuses
<1>4. UserType' /\ BusType' /\ CountsType' /\ MissedType'
    BY <1>1, <1>2, <1>3 DEF UserType, BusType, CountsType, MissedType
<1>5. EventsType' /\ events \subseteq events'
    BY <1>1, <1>2 DEF EventsType
<1>6. ASSUME NEW n \in Nodes, NEW u \in Users
      PROVE  Tells(n, u)
  <2>1. CASE u \notin us
    BY <1>1, <1>3, <2>1, RowKept DEF Tells
  <2>2. CASE u \in us
    <3>1. Event(e, u) \in events' /\ ~Serves(n, u)'
      BY <1>1, <1>3, <2>2 DEF Event, Serves, ServesRow
    <3> QED
      BY <3>1 DEF Tells, Announced
  <2> QED
    BY <2>1, <2>2
<1> QED
    BY <1>1, <1>4, <1>5, <1>6, RowsStep

LEMMA ResetPeriodStep ==
    ASSUME TypeOK, ResetPeriod
    PROVE  TypeOK' /\ FrontStep
<1>1. /\ Request
      /\ UNCHANGED <<grants, op, bus, jobs, worker, connected, command, served, failed,
                     late, faults, missed>>
    BY ZenonT(60) DEF ResetPeriod, nodeVars
<1>2. PICK limited \in SUBSET Users :
          /\ user' = [u \in Users |-> [user[u] EXCEPT !.over = FALSE,
                         !.status = IF u \in limited THEN "ACTIVE" ELSE @]]
          /\ events' = events \cup [event : {"ENABLED"}, user : limited]
    BY ZenonT(60) DEF ResetPeriod
<1>3. UserType /\ BusType /\ EventsType /\ CountsType /\ MissedType
    BY TypeParts
<1>4. ASSUME NEW u \in Users
      PROVE  /\ user'[u] \in Rows /\ user'[u].key = user[u].key
             /\ user'[u].squads = user[u].squads
             /\ user'[u].status = IF u \in limited THEN "ACTIVE" ELSE user[u].status
    BY ZenonT(60), <1>2, <1>3 DEF UserType, Rows, Statuses
<1>5. UserType' /\ BusType' /\ CountsType' /\ MissedType'
    BY ZenonT(60), <1>1, <1>2, <1>3, <1>4, RequestCounts DEF UserType, BusType, MissedType
<1>6. EventsType' /\ events \subseteq events'
    BY ZenonT(60), <1>2, <1>3 DEF EventsType
<1>8. ASSUME NEW n \in Nodes, NEW u \in Users
      PROVE  Tells(n, u)
  <2>1. CASE u \notin limited
    BY <1>1, <1>4, <2>1, RowKept DEF Tells
  <2>2. CASE u \in limited
    <3>1. Event("ENABLED", u) \in events'
      BY ZenonT(60), <1>2, <2>2 DEF Event
    <3>2. CASE ServesRow(n, user'[u])
      <4>1. Serves(n, u)'
        BY <1>1, <3>2 DEF Serves, ServesRow, NodesOf
      <4> QED
        BY <3>1, <4>1 DEF Tells, Announced
    <3>3. CASE ~ServesRow(n, user'[u])
      BY <1>1, <1>4, <2>2, <3>3, NotGrantedIsSame DEF Tells
    <3> QED
      BY <3>2, <3>3
  <2> QED
    BY <2>1, <2>2
<1> QED
    BY <1>1, <1>5, <1>6, <1>8, RowsStep

(* The requests about all users tell nobody.                               *)
LEMMA AllUsersStep ==
    ASSUME TypeOK, NEW changed \in [Users -> Rows], AllUsers(changed)
    PROVE  TypeOK' /\ FrontStep
<1>1. /\ Request /\ user' = [u \in Users |-> IF Exists(u) THEN changed[u] ELSE user[u]]
      /\ UNCHANGED <<grants, op, bus, events, jobs, worker, connected, command, served, failed,
                     late, faults>>
      /\ Misses(Changed)
    BY DEF AllUsers, nodeVars
<1>2. UserType /\ BusType /\ EventsType /\ CountsType /\ MissedType
    BY TypeParts
<1>3. UserType' /\ BusType' /\ EventsType' /\ CountsType'
    BY <1>1, <1>2, RequestCounts DEF UserType, BusType, EventsType
<1>4. MissedType' /\ missed \subseteq missed' /\ Changed \subseteq missed'
  <2>1. Changed \in SUBSET Nodes
    BY DEF Changed
  <2> QED
    BY <1>1, <1>2, <2>1 DEF Misses, MissedType
<1>5. \A n \in Nodes, u \in Users : Tells(n, u)
    BY <1>2, <1>4, UnchangedIsSame DEF Tells
<1> QED
    BY <1>1, <1>3, <1>4, <1>5, RowsStep

LEMMA BulkStep ==
    ASSUME TypeOK, BulkUpdateAllUsers \/ BulkAllExtendExpirationDate \/ DeleteByStatus
    PROVE  TypeOK' /\ FrontStep
<1>1. \A u \in Users : user[u] \in Rows /\ user[u].status \in Statuses
    BY TypeParts, RowFacts
<1>2. ASSUME NEW status \in {"ACTIVE", "DISABLED"}
      PROVE  [u \in Users |-> [user[u] EXCEPT !.status = status]] \in [Users -> Rows]
    BY <1>1 DEF Rows, Statuses
<1>3. [u \in Users |-> [user[u] EXCEPT !.over = FALSE,
          !.status = IF @ = "LIMITED" THEN "ACTIVE" ELSE @]] \in [Users -> Rows]
    BY ZenonT(60), <1>1 DEF Rows, Statuses
<1>4. [u \in Users |-> [user[u] EXCEPT !.past = FALSE,
          !.status = IF @ = "EXPIRED" THEN "ACTIVE" ELSE @]] \in [Users -> Rows]
    BY ZenonT(60), <1>1 DEF Rows, Statuses
<1>5. ASSUME NEW status
      PROVE  [u \in Users |-> IF user[u].status = status
                THEN [user[u] EXCEPT !.status = "DELETED", !.squads = {}]
                ELSE user[u]] \in [Users -> Rows]
    BY ZenonT(60), <1>1 DEF Rows, Statuses
<1> QED
    BY ZenonT(60), <1>2, <1>3, <1>4, <1>5, AllUsersStep
    DEF BulkUpdateAllUsers, BulkAllExtendExpirationDate, DeleteByStatus

-----------------------------------------------------------------------------
(* The squads.                                                             *)
LEMMA GrantsStep ==
    ASSUME TypeOK, NEW a \in Admins, UpdateInternalSquad(a)
    PROVE  TypeOK' /\ FrontStep
<1>0. /\ UserType /\ BusType /\ EventsType /\ OpType /\ JobsType /\ CountsType /\ MissedType
    BY TypeParts
<1>1. op[a] # Idle /\ op[a].kind = "grants"
    BY DEF UpdateInternalSquad
<1>2. PICK s \in Squads, seen \in SUBSET Nodes, ask \in SUBSET Nodes :
          s = op[a].squad /\ seen = op[a].seen /\ ask = op[a].ask
    BY <1>0, <1>1, RequestFacts
<1>3. /\ grants' = [grants EXCEPT ![s] = ask]
      /\ Queued(seen \cup ask, "closed") /\ Misses(grants[s] \ (seen \cup ask))
      /\ op' = [op EXCEPT ![a] = Idle]
      /\ UNCHANGED <<user, bus, events, worker, connected, command, served, failed, late,
                     counters>>
    BY <1>2 DEF UpdateInternalSquad
<1>4. grants[s] \in SUBSET Nodes /\ UserType'
    BY <1>0, <1>2, <1>3 DEF UserType
<1>5. MissedType' /\ missed \subseteq missed' /\ grants[s] \ (seen \cup ask) \subseteq missed'
    BY <1>0, <1>3, <1>4, MissesType
<1>6. /\ JobsType'
      /\ \A n \in Nodes, k \in JobKinds : jobs[n][k] <= jobs'[n][k]
      /\ \A n \in Nodes : n \in seen \cup ask => jobs'[n]["closed"] > 0
    BY <1>0, <1>3, QueuedJobs DEF JobKinds
<1>7. BusType' /\ EventsType' /\ OpType' /\ CountsType'
    BY <1>0, <1>3 DEF BusType, EventsType, OpType, CountsType, counters
<1>8. ASSUME NEW n \in Nodes, NEW u \in Users
      PROVE  Tells(n, u)
  <2>1. CASE n \in seen \cup ask
    BY <1>6, <2>1 DEF Tells
  <2>2. CASE n \in grants[s] \ (seen \cup ask)
    BY <1>5, <2>2 DEF Tells
  <2>3. CASE n \notin grants[s] /\ n \notin seen \cup ask
    <3>1. \A q \in Squads : n \in grants'[q] <=> n \in grants[q]
      BY <1>0, <1>3, <2>3 DEF UserType
    <3>2. user[u].squads \in SUBSET Squads
      BY <1>0, RowFacts
    <3> QED
      BY <1>3, <3>1, <3>2 DEF Tells, Same, Serves, ServesRow, NodesOf
  <2> QED
    BY <2>1, <2>2, <2>3
<1>9. FrontStep
    BY <1>3, <1>5, <1>6, <1>8 DEF FrontStep
<1> QED
    BY <1>3, <1>4, <1>5, <1>6, <1>7, <1>9, FrontTypes

LEMMA JoinedRows ==
    ASSUME UserType, NEW us, NEW s \in Squads, NEW joins \in BOOLEAN, Joined(us, s, joins),
           UNCHANGED grants
    PROVE  /\ UserType'
           /\ \A n \in Nodes, u \in Users :
                 \/ Same(n, u)
                 \/ n \in grants[s] /\ (joins => Serves(n, u)')
<1>1. ASSUME NEW u \in Users
      PROVE  /\ user'[u] \in Rows /\ user'[u].status = user[u].status
             /\ user'[u].key = user[u].key
             /\ \/ user'[u].squads = user[u].squads
                \/ joins /\ user'[u].squads = user[u].squads \cup {s}
                \/ ~joins /\ user'[u].squads = user[u].squads \ {s}
  <2>1. user[u] \in Rows /\ user[u].squads \in SUBSET Squads
    BY RowFacts
  <2>2. CASE u \in us /\ Exists(u) /\ joins
    <3>1. user'[u] = [user[u] EXCEPT !.squads = user[u].squads \cup {s}]
      BY <2>1, <2>2 DEF Joined, Rows
    <3> QED
      BY <2>1, <2>2, <3>1 DEF Rows
  <2>3. CASE u \in us /\ Exists(u) /\ ~joins
    <3>1. user'[u] = [user[u] EXCEPT !.squads = user[u].squads \ {s}]
      BY <2>1, <2>3 DEF Joined, Rows
    <3> QED
      BY <2>1, <2>3, <3>1 DEF Rows
  <2>4. CASE ~(u \in us /\ Exists(u))
    <3>1. user'[u] = user[u]
      BY <2>4 DEF Joined
    <3> QED
      BY <2>1, <3>1
  <2> QED
    BY <2>2, <2>3, <2>4
<1>2. UserType'
    BY <1>1 DEF UserType, Joined
<1>3. ASSUME NEW n \in Nodes, NEW u \in Users, ~Same(n, u)
      PROVE  n \in grants[s] /\ (joins => Serves(n, u)')
  <2>1. n \in grants[s]
    BY <1>1, <1>3 DEF Same, Serves, ServesRow, NodesOf
  <2>2. ASSUME joins
        PROVE  Serves(n, u)'
    <3>1. Serves(n, u) => Serves(n, u)'
      BY <1>1, <2>2 DEF Serves, ServesRow, NodesOf
    <3> QED
      BY <1>1, <1>3, <3>1 DEF Same
  <2> QED
    BY <2>1, <2>2
<1> QED
    BY <1>2, <1>3

LEMMA MemberStep ==
    ASSUME TypeOK, NEW v \in Users, NEW s \in Squads, NEW joins \in BOOLEAN,
           MoveMember(v, s, joins)
    PROVE  TypeOK' /\ FrontStep
<1>0. /\ UserType /\ BusType /\ EventsType /\ OpType /\ JobsType /\ CountsType /\ MissedType
    BY TypeParts
<1>1. /\ Request /\ Joined({v}, s, joins) /\ Queued(grants[s], "closed")
      /\ UNCHANGED <<grants, op, bus, events, worker, connected, command, served,
                     failed, late, faults, missed>>
    BY DEF MoveMember
<1>2. /\ JobsType'
      /\ \A n \in Nodes, k \in JobKinds : jobs[n][k] <= jobs'[n][k]
      /\ \A n \in Nodes : n \in grants[s] => jobs'[n]["closed"] > 0
    BY <1>0, <1>1, QueuedJobs DEF JobKinds
<1>3. UserType' /\ \A n \in Nodes, u \in Users : Same(n, u) \/ n \in grants[s]
    BY <1>0, <1>1, JoinedRows
<1>4. BusType' /\ EventsType' /\ OpType' /\ CountsType' /\ MissedType'
    BY <1>0, <1>1, RequestCounts DEF BusType, EventsType, OpType, MissedType
<1>5. \A n \in Nodes, u \in Users : Tells(n, u)
    BY <1>2, <1>3 DEF Tells
<1>6. FrontStep
    BY <1>1, <1>2, <1>5 DEF FrontStep
<1> QED
    BY <1>1, <1>2, <1>3, <1>4, <1>6, FrontTypes

LEMMA AllMembersStep ==
    ASSUME TypeOK, NEW s \in Squads, NEW joins \in BOOLEAN, SquadOfAll(s, joins)
    PROVE  TypeOK' /\ FrontStep
<1>0. /\ UserType /\ BusType /\ EventsType /\ OpType /\ JobsType /\ CountsType /\ MissedType
    BY TypeParts
<1>1. PICK ns \in SUBSET Nodes : ns = {n \in Changed : Runs(n, "plain") \/ ~joins}
    BY DEF Changed
<1>2. /\ Request /\ Joined(Users, s, joins) /\ QueuedOnce(grants[s], "plain")
      /\ UNCHANGED <<grants, op, bus, events, worker, connected, command, served,
                     failed, late, faults>>
      /\ Misses(ns)
    BY <1>1 DEF SquadOfAll
<1>3. /\ JobsType'
      /\ \A n \in Nodes, k \in JobKinds : jobs[n][k] <= jobs'[n][k]
      /\ \A n \in Nodes : n \in grants[s] => jobs'[n]["plain"] > 0 \/ Runs(n, "plain")
    BY <1>0, <1>2, QueuedOnceJobs DEF JobKinds
<1>4. /\ UserType'
      /\ \A n \in Nodes, u \in Users :
            Same(n, u) \/ (n \in grants[s] /\ (joins => Serves(n, u)'))
    BY <1>0, <1>2, JoinedRows
<1>5. MissedType' /\ missed \subseteq missed' /\ ns \subseteq missed'
    BY <1>0, <1>2, MissesType
<1>6. BusType' /\ EventsType' /\ OpType' /\ CountsType'
    BY <1>0, <1>2, RequestCounts DEF BusType, EventsType, OpType
<1>7. ASSUME NEW n \in Nodes, NEW u \in Users
      PROVE  Tells(n, u)
  <2>1. CASE n \notin Changed
    BY <1>0, <2>1, UnchangedIsSame DEF Tells
  <2>2. CASE n \in ns
    BY <1>5, <2>2 DEF Tells
  <2>3. CASE joins /\ ~Runs(n, "plain")
    BY <1>3, <1>4, <2>3 DEF Tells, Pending, JobKinds
  <2> QED
    BY <1>1, <2>1, <2>2, <2>3
<1>8. FrontStep
    BY <1>2, <1>3, <1>5, <1>7 DEF FrontStep
<1> QED
    BY <1>2, <1>3, <1>4, <1>5, <1>6, <1>8, FrontTypes

(* All of these together.                                                  *)
FrontActions ==
    \/ \E a \in Admins :
          \/ AskUser(a) \/ AskReset(a) \/ AskGrants(a)
          \/ DisableUser(a) \/ EnableUser(a) \/ DeleteUser(a)
          \/ RevokeUserSubscription(a) \/ ExtendUserExpirationDate(a)
          \/ ResetUserTraffic(a) \/ UpdateUser(a) \/ UpdateUsersInternalSquads(a)
          \/ UpdateInternalSquad(a)
    \/ \E u \in Users, s \in Squads, joins \in BOOLEAN : MoveMember(u, s, joins)
    \/ \E s \in Squads, joins \in BOOLEAN : SquadOfAll(s, joins)
    \/ \E u \in Users : CreateUser(u) \/ Consume(u) \/ DatePasses(u)
    \/ \E us \in SUBSET Users : BulkExtendExpirationDate(us)
    \/ FindExceededUsers \/ FindExpiredUsers \/ ResetPeriod
    \/ BulkUpdateAllUsers \/ BulkAllExtendExpirationDate \/ DeleteByStatus

LEMMA WatchdogStep ==
    ASSUME TypeOK, FindExceededUsers \/ FindExpiredUsers
    PROVE  TypeOK' /\ FrontStep
<1>1. CASE FindExceededUsers
  <2>1. PICK us \in SUBSET Users : Swept(us, "LIMITED", "LIMITED")
    BY <1>1 DEF FindExceededUsers
  <2> QED
    BY <2>1, SweptStep
<1>2. CASE FindExpiredUsers
  <2>1. PICK us \in SUBSET Users : Swept(us, "EXPIRED", "EXPIRED")
    BY <1>2 DEF FindExpiredUsers
  <2> QED
    BY <2>1, SweptStep
<1> QED
    BY <1>1, <1>2

LEMMA FrontActionStep ==
    ASSUME TypeOK, FrontActions
    PROVE  TypeOK' /\ FrontStep
<1>1. ASSUME NEW a \in Admins,
             \/ AskUser(a) \/ AskReset(a) \/ AskGrants(a)
             \/ DisableUser(a) \/ EnableUser(a) \/ DeleteUser(a)
             \/ RevokeUserSubscription(a) \/ ExtendUserExpirationDate(a)
             \/ ResetUserTraffic(a) \/ UpdateUser(a) \/ UpdateUsersInternalSquads(a)
             \/ UpdateInternalSquad(a)
      PROVE  TypeOK' /\ FrontStep
    BY <1>1, AskStep, DisableStep, EnableStep, RevokeStep, ExtendStep, ResetStep, UpdateStep,
       SquadsStep, GrantsStep
<1>2. CASE \/ \E u \in Users, s \in Squads, joins \in BOOLEAN : MoveMember(u, s, joins)
           \/ \E s \in Squads, joins \in BOOLEAN : SquadOfAll(s, joins)
    BY <1>2, MemberStep, AllMembersStep
<1>3. CASE \/ \E u \in Users : CreateUser(u) \/ Consume(u) \/ DatePasses(u)
           \/ \E us \in SUBSET Users : BulkExtendExpirationDate(us)
    BY <1>3, CreateStep, FlagStep, BulkExtendStep
<1>4. CASE \/ FindExceededUsers \/ FindExpiredUsers \/ ResetPeriod
           \/ BulkUpdateAllUsers \/ BulkAllExtendExpirationDate \/ DeleteByStatus
    BY <1>4, WatchdogStep, ResetPeriodStep, BulkStep
<1> QED
    BY <1>1, <1>2, <1>3, <1>4 DEF FrontActions

-----------------------------------------------------------------------------
(* The invariant.  What a user of a Node has become either reaches the     *)
(* Node, because an event or a job that has not read the users is on its   *)
(* way, or a job that runs has read it, or the newest command says it and  *)
(* no job that runs and has read anything else can take its place unseen.  *)
Running(n) == {w \in Workers : worker[w] # Idle /\ worker[w].node = n}
Newest(n) == IF command[n] = Idle THEN served[n] ELSE command[n].conf

Reaches(n, u) ==
    \/ Announced(n, u) \/ Pending(n)
    \/ \E w \in Running(n) : Agrees(worker[w].conf, n, u)
    \/ /\ Agrees(Newest(n), n, u)
       /\ \A w \in Running(n) : Agrees(worker[w].conf, n, u) \/ worker[w].overtaken

ReachInv == \A n \in Nodes \ (missed \cup late \cup failed), u \in Users : Reaches(n, u)

(* And whoever shall not be served is withheld by something that fails     *)
(* closed, or the Node is not given the user any more.                     *)
Withheld(n, u) ==
    \/ Serves(n, u) \/ Announced(n, u) \/ jobs[n]["closed"] > 0
    \/ \E w \in Running(n) : worker[w].kind = "closed" /\ ~Has(worker[w].conf, u)
    \/ /\ \A w \in Running(n) : ~Has(worker[w].conf, u) \/ worker[w].overtaken
       /\ ~Has(Newest(n), u)
       /\ ~Has(served[n], u) \/ (command[n] # Idle /\ command[n].closed)

ExcessInv ==
    /\ \A n \in Nodes \ (missed \cup failed), u \in Users : Withheld(n, u)
    /\ \A n \in failed : served[n] = {}

ServingInv == ReachInv /\ ExcessInv

(* A step that only adds what tells the Nodes keeps it.                    *)
LEMMA SameReaches ==
    ASSUME FrontStep, JobsType, JobsType', NEW n \in Nodes, NEW u \in Users, Same(n, u)
    PROVE  /\ Reaches(n, u) => Reaches(n, u)'
           /\ Withheld(n, u) => Withheld(n, u)'
<1>1. UNCHANGED <<worker, command, served>>
    BY DEF FrontStep
<1>2. Pending(n) => Pending(n)'
  <2>1. \A k \in JobKinds : jobs[n][k] \in Nat /\ jobs'[n][k] \in Nat /\ jobs[n][k] <= jobs'[n][k]
    BY DEF FrontStep, JobsType
  <2> QED
    BY <2>1 DEF Pending
<1>3. jobs[n]["closed"] > 0 => jobs'[n]["closed"] > 0
    BY DEF FrontStep, JobsType, JobKinds
<1>4. Announced(n, u) => Announced(n, u)'
    BY DEF FrontStep, Announced, Same
<1>5. Serves(n, u)' <=> Serves(n, u)
    BY DEF Same
<1>6. \A conf : Agrees(conf, n, u) <=> \A k \in Nat :
                    <<u, k>> \in conf <=> Serves(n, u)' /\ user'[u].key = k
    BY DEF Agrees, Same
<1>7. Running(n)' = Running(n) /\ Newest(n)' = Newest(n)
    BY <1>1 DEF Running, Newest
<1>8. Agrees(Newest(n), n, u)' <=> Agrees(Newest(n), n, u)
    BY <1>6, <1>7 DEF Agrees
<1>9. \A w \in Workers : Agrees(worker[w].conf, n, u)' <=> Agrees(worker[w].conf, n, u)
    BY <1>1, <1>6 DEF Agrees
<1>10. ASSUME Reaches(n, u)
       PROVE  Reaches(n, u)'
    BY <1>1, <1>2, <1>4, <1>7, <1>8, <1>9, <1>10 DEF Reaches, Running
<1>11. Has(Newest(n), u)' <=> Has(Newest(n), u)
    BY <1>7 DEF Has
<1>12. ASSUME Withheld(n, u)
       PROVE  Withheld(n, u)'
    BY <1>1, <1>3, <1>4, <1>5, <1>7, <1>11, <1>12 DEF Withheld, Running, Has
<1> QED
    BY <1>10, <1>12

LEMMA FrontServing ==
    ASSUME FrontStep, JobsType, JobsType', ServingInv
    PROVE  ServingInv'
<1>1. /\ missed \subseteq missed' /\ UNCHANGED <<failed, late, served>>
      /\ \A n \in Nodes, u \in Users : Tells(n, u)
    BY DEF FrontStep
<1>2. ASSUME NEW n \in Nodes \ (missed \cup late \cup failed)', NEW u \in Users
      PROVE  Reaches(n, u)'
  <2>1. Reaches(n, u) /\ n \notin missed' /\ Tells(n, u)
    BY <1>1, <1>2 DEF ServingInv, ReachInv
  <2>2. jobs'[n]["closed"] > 0 => Pending(n)'
    BY DEF Pending, JobKinds
  <2> QED
    BY <2>1, <2>2, SameReaches DEF Tells, Reaches
<1>3. ASSUME NEW n \in Nodes \ (missed \cup failed)', NEW u \in Users
      PROVE  Withheld(n, u)'
  <2>1. Withheld(n, u) /\ n \notin missed' /\ Tells(n, u)
    BY <1>1, <1>3 DEF ServingInv, ExcessInv
  <2> QED
    BY <2>1, SameReaches DEF Tells, Withheld
<1>4. \A n \in failed' : served'[n] = {}
    BY <1>1 DEF ServingInv, ExcessInv
<1> QED
    BY <1>2, <1>3, <1>4 DEF ServingInv, ReachInv, ExcessInv

(***************************************************************************)
(* The other steps change no row: who shall be served stays.               *)
(***************************************************************************)
LEMMA RowsNow ==
    ASSUME UNCHANGED rows, NEW n \in Nodes, NEW u \in Users
    PROVE  /\ Serves(n, u)' <=> Serves(n, u)
           /\ \A conf : Agrees(conf, n, u)' <=> Agrees(conf, n, u)
           /\ Announced(n, u)' <=>
                IF Serves(n, u) THEN Event("add", u) \in bus' \/ Event("ENABLED", u) \in events'
                   ELSE \/ Event("remove", u) \in bus'
                        \/ Event("EXPIRED", u) \in events' \/ Event("LIMITED", u) \in events'
<1>1. Serves(n, u)' <=> Serves(n, u)
    BY DEF rows, Serves, ServesRow, NodesOf
<1>2. user' = user
    BY DEF rows
<1> QED
    BY <1>1, <1>2 DEF Agrees, Announced, Event

LEMMA ReachesNow ==
    ASSUME UNCHANGED rows, NEW n \in Nodes, NEW u \in Users,
           \/ Announced(n, u)' \/ Pending(n)'
           \/ \E w \in Running(n)' : Agrees(worker'[w].conf, n, u)
           \/ /\ Agrees(Newest(n)', n, u)
              /\ \A w \in Running(n)' : Agrees(worker'[w].conf, n, u) \/ worker'[w].overtaken
    PROVE  Reaches(n, u)'
<1>1. \A conf : (\A k \in Nat : <<u, k>> \in conf <=> Serves(n, u)' /\ user'[u].key = k)
                    <=> Agrees(conf, n, u)
    BY RowsNow DEF rows, Agrees
<1>2. Agrees(Newest(n), n, u)' <=> Agrees(Newest(n)', n, u)
    BY <1>1 DEF Agrees
<1>3. \A w : Agrees(worker[w].conf, n, u)' <=> Agrees(worker'[w].conf, n, u)
    BY <1>1 DEF Agrees
<1> QED
    BY <1>2, <1>3 DEF Reaches

LEMMA WithheldNow ==
    ASSUME UNCHANGED rows, NEW n \in Nodes, NEW u \in Users,
           \/ Serves(n, u) \/ Announced(n, u)' \/ jobs'[n]["closed"] > 0
           \/ \E w \in Running(n)' : worker'[w].kind = "closed" /\ ~Has(worker'[w].conf, u)
           \/ /\ \A w \in Running(n)' : ~Has(worker'[w].conf, u) \/ worker'[w].overtaken
              /\ ~Has(Newest(n)', u)
              /\ ~Has(served'[n], u) \/ (command'[n] # Idle /\ command'[n].closed)
    PROVE  Withheld(n, u)'
<1>1. Serves(n, u)' <=> Serves(n, u)
    BY RowsNow
<1> QED
    BY <1>1 DEF Withheld, Has

(* A Node a step leaves as it is.                                          *)
Kept(n) ==
    /\ \A w \in Workers : w \in Running(n)' => w \in Running(n) /\ worker'[w] = worker[w]
    /\ \A w \in Running(n) : w \in Running(n)'
    /\ command'[n] = command[n] /\ served'[n] = served[n]
    /\ Pending(n) => Pending(n)'
    /\ jobs[n]["closed"] > 0 => jobs'[n]["closed"] > 0

LEMMA KeptNode ==
    ASSUME UNCHANGED rows, NEW n \in Nodes, NEW u \in Users, Kept(n),
           Announced(n, u) => Announced(n, u)'
    PROVE  /\ Reaches(n, u) => Reaches(n, u)'
           /\ Withheld(n, u) => Withheld(n, u)'
<1>1. Running(n)' = Running(n) /\ Running(n) \subseteq Workers
    BY DEF Kept, Running
<1>2. Newest(n)' = Newest(n)
    BY DEF Kept, Newest
<1>3. \A w \in Running(n) : worker'[w] = worker[w]
    BY <1>1 DEF Kept
<1>4. Reaches(n, u) => Reaches(n, u)'
    BY <1>1, <1>2, <1>3, ReachesNow DEF Reaches, Kept
<1>5. Withheld(n, u) => Withheld(n, u)'
    BY <1>1, <1>2, <1>3, WithheldNow DEF Withheld, Kept
<1> QED
    BY <1>4, <1>5

LEMMA QuietKept ==
    ASSUME UNCHANGED <<worker, command, served>>, NEW n \in Nodes,
           JobsType, JobsType', \A k \in JobKinds : jobs[n][k] <= jobs'[n][k]
    PROVE  Kept(n)
<1>1. \A k \in JobKinds : jobs[n][k] \in Nat /\ jobs'[n][k] \in Nat
    BY DEF JobsType
<1>2. (Pending(n) => Pending(n)') /\ (jobs[n]["closed"] > 0 => jobs'[n]["closed"] > 0)
    BY <1>1 DEF Pending, JobKinds
<1> QED
    BY <1>2 DEF Kept, Running

(* A Node that holds nothing of a user who shall not be served.            *)
LEMMA HoldsNothing ==
    ASSUME UNCHANGED <<rows, worker, command, served>>, NEW n \in Nodes, NEW u \in Users,
           ~Holds(n, u), ~Serves(n, u)
    PROVE  Reaches(n, u)' /\ Withheld(n, u)'
<1>1. /\ ~Has(served[n], u) /\ ~Has(Newest(n), u)
      /\ \A w \in Running(n) : ~Has(worker[w].conf, u)
  <2>1. \A conf : (\A c \in conf : c[1] # u) => ~Has(conf, u)
    BY DEF Has
  <2>2. \A c \in served[n] : c[1] # u
    BY DEF Holds
  <2>3. \A c \in Newest(n) : c[1] # u
    BY <2>2 DEF Holds, Newest
  <2>4. ASSUME NEW w \in Running(n)
        PROVE  \A c \in worker[w].conf : c[1] # u
    BY DEF Holds, Running
  <2> QED
    BY <2>1, <2>2, <2>3, <2>4
<1>2. \A conf : ~Has(conf, u) => Agrees(conf, n, u)
    BY DEF Has, Agrees
<1>3. Running(n)' = Running(n) /\ Newest(n)' = Newest(n)
    BY DEF Running, Newest
<1>4. Reaches(n, u)'
    BY <1>1, <1>2, <1>3, ReachesNow
<1>5. Withheld(n, u)'
    BY <1>1, <1>3, WithheldNow
<1> QED
    BY <1>4, <1>5

-----------------------------------------------------------------------------
(* Events.                                                                 *)
LEMMA EventStep ==
    ASSUME TypeOK, ServingInv, UNCHANGED <<rows, worker, command, served, failed, late>>,
           JobsType', \A n \in Nodes, k \in JobKinds : jobs[n][k] <= jobs'[n][k],
           missed \subseteq missed',
           \A n \in Nodes, u \in Users :
              \/ n \in missed' \/ (Announced(n, u) => Announced(n, u)')
              \/ jobs'[n]["closed"] > 0 \/ (Serves(n, u) /\ Pending(n)')
              \/ ~Serves(n, u) /\ ~Holds(n, u)
    PROVE  ServingInv'
<1>1. ASSUME NEW n \in Nodes, NEW u \in Users
      PROVE  /\ n \notin missed' /\ Reaches(n, u) => Reaches(n, u)'
             /\ n \notin missed' /\ Withheld(n, u) => Withheld(n, u)'
  <2>1. CASE Announced(n, u) => Announced(n, u)'
    BY <2>1, TypeParts, QuietKept, KeptNode
  <2>2. CASE jobs'[n]["closed"] > 0
    BY <2>2, ReachesNow, WithheldNow DEF Pending, JobKinds
  <2>3. CASE Serves(n, u) /\ Pending(n)'
    BY <2>3, ReachesNow, WithheldNow
  <2>4. CASE ~Serves(n, u) /\ ~Holds(n, u)
    BY <2>4, HoldsNothing
  <2> QED
    BY <2>1, <2>2, <2>3, <2>4
<1>2. ReachInv'
    BY <1>1 DEF ServingInv, ReachInv
<1>3. ExcessInv'
    BY <1>1 DEF ServingInv, ExcessInv
<1> QED
    BY <1>2, <1>3 DEF ServingInv

LEMMA FireStep ==
    ASSUME TypeOK, ServingInv, NEW e \in events, FireUserEvent(e)
    PROVE  TypeOK' /\ ServingInv'
<1>0. /\ UserType /\ BusType /\ EventsType /\ OpType /\ JobsType /\ CountsType /\ MissedType
    BY TypeParts
<1>1. /\ e.user \in Users /\ e.event \in {"EXPIRED", "LIMITED", "ENABLED"}
      /\ e = [event |-> e.event, user |-> e.user]
    BY <1>0 DEF EventsType
<1>2. /\ events' = events \ {e} /\ UNCHANGED rows
      /\ UNCHANGED <<op, jobs, worker, connected, command, served, failed, late, requests, faults>>
    BY DEF FireUserEvent, nodeVars, counters
<1>3. UserType' /\ EventsType' /\ OpType' /\ JobsType' /\ CountsType'
    BY <1>0, <1>2 DEF rows, UserType, EventsType, OpType, JobsType, CountsType
<1>4. \A n \in Nodes, k \in JobKinds : jobs[n][k] <= jobs'[n][k]
    BY <1>0, <1>2 DEF JobsType
<1>5. CASE Exists(e.user)
  <2>1. PICK v \in {"add", "remove"} :
            v = (IF e.event = "ENABLED" THEN "add" ELSE "remove")
    OBVIOUS
  <2>2. bus' = bus \cup {Event(v, e.user)} /\ UNCHANGED missed
    BY <1>5, <2>1 DEF FireUserEvent, MissesNothing, Event
  <2>3. BusType' /\ MissedType' /\ missed \subseteq missed'
    BY <1>0, <1>1, <2>2 DEF BusType, MissedType, Event
  <2>4. ASSUME NEW n \in Nodes, NEW u \in Users, Announced(n, u)
        PROVE  Announced(n, u)'
    <3>1. CASE u = e.user
      BY <1>1, <1>2, <2>1, <2>2, <2>4, <3>1, RowsNow DEF Announced, Event
    <3>2. CASE u # e.user
      BY <1>1, <1>2, <2>2, <2>4, <3>2, RowsNow DEF Announced, Event
    <3> QED
      BY <3>1, <3>2
  <2>5. TypeOK'
    BY <1>2, <1>3, <2>3, FrontTypes
  <2> QED
    BY <1>2, <1>3, <1>4, <2>3, <2>4, <2>5, EventStep
<1>6. CASE ~Exists(e.user)
  <2>1. PICK ns \in SUBSET Nodes : ns = {n \in Nodes : Holds(n, e.user)}
    OBVIOUS
  <2>2. UNCHANGED bus /\ Misses(ns)
    BY <1>6, <2>1 DEF FireUserEvent
  <2>3. BusType' /\ MissedType' /\ missed \subseteq missed' /\ ns \subseteq missed'
    BY <1>0, <2>2, MissesType DEF BusType
  <2>4. ASSUME NEW n \in Nodes, NEW u \in Users, n \notin missed'
        PROVE  \/ Announced(n, u) => Announced(n, u)'
               \/ ~Serves(n, u) /\ ~Holds(n, u)
    <3>1. CASE u = e.user
      <4>1. ~Holds(n, u)
        BY <2>1, <2>3, <2>4, <3>1
      <4>2. ~Serves(n, u)
        BY <1>6, <3>1 DEF Exists, Serves, ServesRow
      <4> QED
        BY <4>1, <4>2
    <3>2. CASE u # e.user
      BY <1>1, <1>2, <2>2, <3>2, RowsNow DEF Announced, Event
    <3> QED
      BY <3>1, <3>2
  <2>5. TypeOK'
    BY <1>2, <1>3, <2>3, FrontTypes
  <2> QED
    BY <1>2, <1>3, <1>4, <2>3, <2>4, <2>5, EventStep
<1> QED
    BY <1>5, <1>6

LEMMA AddStep ==
    ASSUME TypeOK, ServingInv, NEW e \in bus, AddUserToNode(e)
    PROVE  TypeOK' /\ ServingInv'
<1>0. /\ UserType /\ BusType /\ EventsType /\ OpType /\ JobsType /\ CountsType /\ MissedType
    BY TypeParts
<1>1. e.user \in Users /\ e.event = "add"
    BY <1>0 DEF BusType, AddUserToNode
<1>2. /\ bus' = bus \ {e} /\ Queued(Granted(e.user), "update") /\ UNCHANGED rows
      /\ UNCHANGED <<op, events, worker, connected, command, served, failed, late, requests,
                     faults, missed>>
    BY DEF AddUserToNode, counters
<1>3. /\ JobsType'
      /\ \A n \in Nodes, k \in JobKinds : jobs[n][k] <= jobs'[n][k]
      /\ \A n \in Nodes : n \in Granted(e.user) => jobs'[n]["update"] > 0
    BY <1>0, <1>2, QueuedJobs DEF JobKinds
<1>4. /\ UserType' /\ BusType' /\ EventsType' /\ OpType' /\ CountsType' /\ MissedType'
      /\ missed \subseteq missed'
    BY <1>0, <1>2 DEF rows, UserType, BusType, EventsType, OpType, CountsType, MissedType
<1>5. ASSUME NEW n \in Nodes, NEW u \in Users
      PROVE  \/ Announced(n, u) => Announced(n, u)'
             \/ Serves(n, u) /\ Pending(n)'
  <2>0. /\ Announced(n, u)' <=>
             IF Serves(n, u) THEN Event("add", u) \in bus' \/ Event("ENABLED", u) \in events'
                ELSE \/ Event("remove", u) \in bus'
                     \/ Event("EXPIRED", u) \in events' \/ Event("LIMITED", u) \in events'
        /\ bus' = bus \ {e} /\ events' = events
    BY <1>2, RowsNow
  <2>1. CASE u = e.user /\ Serves(n, u)
    <3>1. n \in Granted(e.user)
      BY <2>1 DEF Serves, ServesRow, Granted
    <3> QED
      BY <1>3, <2>1, <3>1 DEF Pending, JobKinds
  <2>2. CASE ~Serves(n, u)
    <3>1. Event("remove", u) # e /\ Event("EXPIRED", u) # e /\ Event("LIMITED", u) # e
      BY <1>1 DEF Event
    <3> QED
      BY <2>0, <2>2, <3>1 DEF Announced
  <2>3. CASE u # e.user
    <3>1. Event("add", u) # e /\ Event("remove", u) # e
      BY <1>1, <2>3 DEF Event
    <3> QED
      BY <2>0, <3>1 DEF Announced
  <2> QED
    BY <2>1, <2>2, <2>3
<1>6. TypeOK'
    BY <1>2, <1>3, <1>4, FrontTypes
<1> QED
    BY <1>2, <1>3, <1>4, <1>5, <1>6, EventStep

LEMMA RemoveStep ==
    ASSUME TypeOK, ServingInv, NEW e \in bus, RemoveUserFromNode(e)
    PROVE  TypeOK' /\ ServingInv'
<1>0. /\ UserType /\ BusType /\ EventsType /\ OpType /\ JobsType /\ CountsType /\ MissedType
    BY TypeParts
<1>1. e.user \in Users /\ e.event = "remove"
    BY <1>0 DEF BusType, RemoveUserFromNode
<1>2. PICK ns \in SUBSET Nodes : ns = {n \in Nodes : ~connected[n] /\ Holds(n, e.user)}
    OBVIOUS
<1>3. /\ bus' = bus \ {e} /\ UNCHANGED rows
      /\ Queued({n \in Nodes : connected[n]}, "closed") /\ Misses(ns)
      /\ UNCHANGED <<op, events, worker, connected, command, served, failed, late, requests,
                     faults>>
    BY <1>2 DEF RemoveUserFromNode, counters
<1>4. /\ JobsType'
      /\ \A n \in Nodes, k \in JobKinds : jobs[n][k] <= jobs'[n][k]
      /\ \A n \in Nodes : connected[n] => jobs'[n]["closed"] > 0
    BY <1>0, <1>3, QueuedJobs DEF JobKinds
<1>5. /\ UserType' /\ BusType' /\ EventsType' /\ OpType' /\ CountsType'
      /\ MissedType' /\ missed \subseteq missed' /\ ns \subseteq missed'
    BY <1>0, <1>3, MissesType DEF rows, UserType, BusType, EventsType, OpType, CountsType
<1>6. ASSUME NEW n \in Nodes, NEW u \in Users, n \notin missed'
      PROVE  \/ Announced(n, u) => Announced(n, u)'
             \/ jobs'[n]["closed"] > 0
             \/ ~Serves(n, u) /\ ~Holds(n, u)
  <2>0. /\ Announced(n, u)' <=>
             IF Serves(n, u) THEN Event("add", u) \in bus' \/ Event("ENABLED", u) \in events'
                ELSE \/ Event("remove", u) \in bus'
                     \/ Event("EXPIRED", u) \in events' \/ Event("LIMITED", u) \in events'
        /\ bus' = bus \ {e} /\ events' = events
    BY <1>3, RowsNow
  <2>1. CASE u = e.user /\ ~Serves(n, u)
    <3>1. connected[n] \/ ~Holds(n, u)
      BY <1>2, <1>5, <1>6, <2>1
    <3> QED
      BY <1>4, <2>1, <3>1
  <2>2. CASE Serves(n, u)
    <3>1. Event("add", u) # e
      BY <1>1 DEF Event
    <3> QED
      BY <2>0, <2>2, <3>1 DEF Announced
  <2>3. CASE u # e.user
    <3>1. Event("add", u) # e /\ Event("remove", u) # e
      BY <1>1, <2>3 DEF Event
    <3> QED
      BY <2>0, <3>1 DEF Announced
  <2> QED
    BY <2>1, <2>2, <2>3
<1>7. TypeOK'
    BY <1>3, <1>4, <1>5, FrontTypes
<1> QED
    BY <1>3, <1>4, <1>5, <1>6, <1>7, EventStep

-----------------------------------------------------------------------------
(* The jobs and the commands.                                              *)
LEMMA HealthStep ==
    ASSUME TypeOK, ServingInv, NEW n \in Nodes, HealthCheck(n)
    PROVE  TypeOK' /\ ServingInv'
<1>1. TypeOK'
    BY DEF HealthCheck, rows, counters, TypeOK
<1>2. UNCHANGED <<rows, bus, events, jobs, worker, command, served, failed, late, missed>>
    BY DEF HealthCheck
<1>3. JobsType' /\ \A m \in Nodes, k \in JobKinds : jobs[m][k] <= jobs'[m][k]
    BY <1>2, TypeParts DEF JobsType
<1>4. \A m \in Nodes, u \in Users : Announced(m, u) => Announced(m, u)'
    BY <1>2, RowsNow DEF Announced
<1> QED
    BY <1>1, <1>2, <1>3, <1>4, EventStep

LEMMA BeginStep ==
    ASSUME TypeOK, ServingInv, NEW w \in Workers, NEW n \in Nodes, NEW k \in JobKinds,
           BeginStart(w, n, k)
    PROVE  TypeOK' /\ ServingInv'
<1> DEFINE start == [node |-> n, kind |-> k, conf |-> ConfigUsers(n), overtaken |-> FALSE]
<1>0. UserType /\ JobsType /\ WorkerType
    BY TypeParts
<1>1. /\ worker[w] = Idle /\ jobs[n][k] > 0
      /\ jobs' = [jobs EXCEPT ![n][k] = @ - 1] /\ worker' = [worker EXCEPT ![w] = start]
      /\ UNCHANGED rows
      /\ UNCHANGED <<op, bus, events, connected, command, served, failed, late, requests,
                     faults, missed>>
    BY DEF BeginStart, counters
<1>2. start \in Starts /\ start # Idle
  <2>1. start \in Starts
    BY <1>0, ConfigFacts DEF Starts
  <2> QED
    BY <2>1, IdleIsNoRecord
<1>3. worker'[w] = start /\ \A v \in Workers : v # w => worker'[v] = worker[v]
    BY <1>0, <1>1 DEF WorkerType
<1>4. WorkerType'
    BY <1>0, <1>1, <1>2 DEF WorkerType
<1>5. /\ JobsType'
      /\ \A m \in Nodes : m # n => jobs'[m] = jobs[m]
      /\ \A j \in JobKinds : j # k => jobs'[n][j] = jobs[n][j]
  <2>1. jobs[n] \in [JobKinds -> Nat] /\ jobs[n][k] \in Nat /\ jobs[n][k] - 1 \in Nat
    BY <1>0, <1>1 DEF JobsType
  <2>2. jobs' = [jobs EXCEPT ![n] = [jobs[n] EXCEPT ![k] = jobs[n][k] - 1]]
    BY <1>1
  <2>3. jobs'[n] = [jobs[n] EXCEPT ![k] = jobs[n][k] - 1]
    BY <1>0, <2>2 DEF JobsType
  <2> QED
    BY <1>0, <2>1, <2>2, <2>3 DEF JobsType
<1>6. TypeOK'
    BY <1>1, <1>4, <1>5 DEF TypeOK, rows, WorkerType, JobsType
<1>7. ASSUME NEW m \in Nodes, NEW u \in Users
      PROVE  Announced(m, u) => Announced(m, u)'
    BY <1>1, RowsNow DEF Announced
<1>8. ASSUME NEW m \in Nodes, m # n, NEW u \in Users
      PROVE  /\ Reaches(m, u) => Reaches(m, u)'
             /\ Withheld(m, u) => Withheld(m, u)'
  <2>1. Kept(m)
    BY <1>1, <1>2, <1>3, <1>5, <1>8 DEF Kept, Running, Pending
  <2> QED
    BY <1>1, <1>7, <1>8, <2>1, KeptNode
<1>9. /\ w \in Running(n)' /\ worker'[w] = start
      /\ \A v \in Workers : v \in Running(n)' => v = w \/ v \in Running(n)
      /\ \A v \in Running(n) : v \in Running(n)' /\ worker'[v] = worker[v]
  <2>1. w \in Running(n)'
    BY <1>2, <1>3 DEF Running
  <2>2. \A v \in Running(n) : v # w
    BY <1>1 DEF Running
  <2> QED
    BY <1>3, <2>1, <2>2 DEF Running
<1>10. ASSUME NEW u \in Users
       PROVE  Reaches(n, u)'
  <2>1. Agrees(start.conf, n, u)
    BY <1>0, ConfigFacts DEF Agrees
  <2> QED
    BY <1>1, <1>9, <2>1, ReachesNow
<1>11. ASSUME NEW u \in Users, Withheld(n, u)
       PROVE  Withheld(n, u)'
  <2>1. CASE Serves(n, u) \/ Announced(n, u)
    BY <1>1, <1>7, <2>1, WithheldNow
  <2>2. CASE ~Serves(n, u)
    <3>1. ~Has(start.conf, u)
      BY <1>0, <2>2, ConfigFacts DEF Has
    <3>2. CASE jobs[n]["closed"] > 0
      <4>1. CASE k = "closed"
        BY <1>1, <1>9, <3>1, <4>1, WithheldNow
      <4>2. CASE k # "closed"
        BY <1>1, <1>5, <3>2, <4>2, WithheldNow DEF JobKinds
      <4> QED
        BY <4>1, <4>2
    <3>3. CASE \E v \in Running(n) : worker[v].kind = "closed" /\ ~Has(worker[v].conf, u)
      BY <1>1, <1>9, <3>3, WithheldNow
    <3>4. CASE /\ \A v \in Running(n) : ~Has(worker[v].conf, u) \/ worker[v].overtaken
               /\ ~Has(Newest(n), u)
               /\ ~Has(served[n], u) \/ (command[n] # Idle /\ command[n].closed)
      <4>1. Newest(n)' = Newest(n) /\ UNCHANGED <<served, command>>
        BY <1>1 DEF Newest
      <4>2. \A v \in Running(n)' : ~Has(worker'[v].conf, u) \/ worker'[v].overtaken
        BY <1>9, <3>1, <3>4 DEF Running
      <4> QED
        BY <1>1, <3>4, <4>1, <4>2, WithheldNow
    <3> QED
      BY <1>11, <2>1, <2>2, <3>2, <3>3, <3>4 DEF Withheld
  <2> QED
    BY <2>1, <2>2
<1>12. ReachInv'
    BY <1>1, <1>8, <1>10 DEF ServingInv, ReachInv
<1>13. ExcessInv'
    BY <1>1, <1>8, <1>11 DEF ServingInv, ExcessInv
<1> QED
    BY <1>6, <1>12, <1>13 DEF ServingInv

(* A job that leaves overtakes those of its Node that still run.           *)
LEMMA LeavesFacts ==
    ASSUME WorkerType, NEW w \in Workers, worker[w] # Idle, Leaves(w),
           NEW m, m = worker[w].node
    PROVE  /\ WorkerType'
           /\ worker[w] \in Starts /\ m \in Nodes
           /\ \A n \in Nodes : n # m =>
                 /\ \A v \in Workers : v \in Running(n)' => v \in Running(n)
                                                            /\ worker'[v] = worker[v]
                 /\ \A v \in Running(n) : v \in Running(n)'
           /\ \A v \in Running(m) \ {w} :
                 /\ v \in Running(m)'
                 /\ worker'[v].conf = worker[v].conf /\ worker'[v].kind = worker[v].kind
                 /\ worker'[v].overtaken
           /\ \A v \in Running(m)' : v \in Running(m) \ {w}
<1>1. worker[w] \in Starts /\ m \in Nodes
    BY DEF WorkerType, Starts
<1>2. ASSUME NEW v \in Workers
      PROVE  \/ v = w /\ worker'[v] = Idle
             \/ /\ v # w /\ worker[v] # Idle /\ worker[v].node = m
                /\ worker'[v] \in Starts /\ worker'[v] # Idle /\ worker'[v].node = m
                /\ worker'[v].conf = worker[v].conf /\ worker'[v].kind = worker[v].kind
                /\ worker'[v].overtaken
             \/ /\ v # w /\ worker'[v] = worker[v]
                /\ ~(worker[v] # Idle /\ worker[v].node = m)
  <2>1. CASE v = w
    BY <2>1 DEF Leaves
  <2>2. CASE v # w /\ worker[v] # Idle /\ worker[v].node = m
    <3>1. worker'[v] = [worker[v] EXCEPT !.overtaken = TRUE] /\ worker[v] \in Starts
      BY <2>2 DEF Leaves, WorkerType
    <3>2. /\ worker'[v] \in Starts /\ worker'[v].node = worker[v].node
          /\ worker'[v].conf = worker[v].conf /\ worker'[v].kind = worker[v].kind
          /\ worker'[v].overtaken
      BY <3>1 DEF Starts
    <3> QED
      BY <2>2, <3>2, IdleIsNoRecord
  <2>3. CASE v # w /\ ~(worker[v] # Idle /\ worker[v].node = m)
    BY <2>3 DEF Leaves
  <2> QED
    BY <2>1, <2>2, <2>3
<1>3. WorkerType'
  <2>1. \A v \in Workers : worker'[v] \in Starts \cup {Idle}
    BY <1>2 DEF WorkerType
  <2> QED
    BY <2>1 DEF WorkerType, Leaves
<1>4. ASSUME NEW n \in Nodes, n # m, NEW v \in Workers
      PROVE  v \in Running(n)' <=> v \in Running(n)
  <2>1. v \in Running(n)' <=> worker'[v] # Idle /\ worker'[v].node = n
    BY DEF Running
  <2>2. v \in Running(n) <=> worker[v] # Idle /\ worker[v].node = n
    BY DEF Running
  <2> QED
    BY <1>2, <1>4, <2>1, <2>2
<1>5. ASSUME NEW n \in Nodes, n # m, NEW v \in Workers, v \in Running(n)'
      PROVE  worker'[v] = worker[v]
  <2>1. worker'[v] # Idle /\ worker'[v].node = n
    BY <1>5 DEF Running
  <2> QED
    BY <1>2, <1>5, <2>1
<1>6. ASSUME NEW v \in Running(m) \ {w}
      PROVE  /\ v \in Running(m)' /\ worker'[v].conf = worker[v].conf
             /\ worker'[v].kind = worker[v].kind /\ worker'[v].overtaken
  <2>1. v \in Workers /\ worker[v] # Idle /\ worker[v].node = m /\ v # w
    BY DEF Running
  <2>2. /\ worker'[v] # Idle /\ worker'[v].node = m /\ worker'[v].conf = worker[v].conf
        /\ worker'[v].kind = worker[v].kind /\ worker'[v].overtaken
    BY <1>2, <2>1
  <2> QED
    BY <2>1, <2>2 DEF Running
<1>7. ASSUME NEW v \in Running(m)'
      PROVE  v \in Running(m) \ {w}
  <2>1. v \in Workers /\ worker'[v] # Idle /\ worker'[v].node = m
    BY DEF Running
  <2>2. v # w /\ worker[v] # Idle /\ worker[v].node = m
    BY <1>2, <2>1
  <2> QED
    BY <2>2, <2>1 DEF Running
<1> QED
    BY <1>1, <1>3, <1>4, <1>5, <1>6, <1>7 DEF Running

LEMMA AnnouncedStays ==
    ASSUME UNCHANGED <<rows, bus, events>>
    PROVE  \A n \in Nodes, u \in Users : Announced(n, u) => Announced(n, u)'
    BY RowsNow DEF Announced

LEMMA QueueStep ==
    ASSUME TypeOK, ServingInv, NEW w \in Workers, QueueManagedConfig(w)
    PROVE  TypeOK' /\ ServingInv'
<1>0. UserType /\ JobsType /\ WorkerType /\ NodesType /\ MissedType
    BY TypeParts
<1>1. PICK m, conf : m = worker[w].node /\ conf = worker[w].conf
    OBVIOUS
<1>2. worker[w] # Idle /\ Leaves(w)
    BY DEF QueueManagedConfig
<1>3. /\ m \in Nodes /\ worker[w] \in Starts /\ conf \in Credentials
      /\ worker[w].overtaken \in BOOLEAN
    BY <1>0, <1>1, <1>2, LeavesFacts DEF Starts
<1>4. PICK closed \in BOOLEAN :
          closed <=> worker[w].kind = "closed" \/ (command[m] # Idle /\ command[m].closed)
    OBVIOUS
<1>5. closed = Closes(w)
  <2>1. Closes(w) \in BOOLEAN /\ (Closes(w) <=> closed)
    BY <1>1, <1>4 DEF Closes
  <2> QED
    BY <2>1
<1>6. PICK ns \in SUBSET Nodes :
          ns = IF worker[w].overtaken /\ conf # ConfigUsers(m) THEN {m} ELSE {}
    BY <1>3
<1>7. /\ command' = [command EXCEPT ![m] = [conf |-> conf, closed |-> closed]]
      /\ Misses(ns) /\ UNCHANGED rows
      /\ UNCHANGED <<op, bus, events, jobs, connected, served, failed, late, requests, faults>>
    BY <1>1, <1>5, <1>6 DEF QueueManagedConfig, counters
<1>8. [conf |-> conf, closed |-> closed] \in Commands
      /\ [conf |-> conf, closed |-> closed] # Idle
  <2>1. [conf |-> conf, closed |-> closed] \in Commands
    BY <1>3 DEF Commands
  <2> QED
    BY <2>1, IdleIsNoRecord
<1>9. /\ command'[m] # Idle /\ command'[m].conf = conf /\ command'[m].closed = closed
      /\ \A n \in Nodes : n # m => command'[n] = command[n]
  <2>1. command'[m] = [conf |-> conf, closed |-> closed]
    BY <1>0, <1>3, <1>7 DEF NodesType
  <2> QED
    BY <1>7, <1>8, <2>1 DEF NodesType
<1>10. MissedType' /\ missed \subseteq missed' /\ ns \subseteq missed'
    BY <1>0, <1>7, MissesType
<1>11. TypeOK'
  <2>1. WorkerType'
    BY <1>0, <1>2, LeavesFacts
  <2>2. command' \in [Nodes -> Commands \cup {Idle}]
    BY <1>0, <1>7, <1>8 DEF NodesType
  <2> QED
    BY <1>7, <1>10, <2>1, <2>2 DEF TypeOK, rows, WorkerType, MissedType
<1>12. /\ \A n \in Nodes : n # m =>
             /\ \A v \in Workers : v \in Running(n)' => v \in Running(n)
                                                        /\ worker'[v] = worker[v]
             /\ \A v \in Running(n) : v \in Running(n)'
       /\ \A v \in Running(m) \ {w} :
             /\ v \in Running(m)'
             /\ worker'[v].conf = worker[v].conf /\ worker'[v].kind = worker[v].kind
             /\ worker'[v].overtaken
       /\ \A v \in Running(m)' : v \in Running(m) \ {w}
    BY <1>0, <1>1, <1>2, LeavesFacts
<1>13. ASSUME NEW n \in Nodes, n # m, NEW u \in Users
       PROVE  /\ Reaches(n, u) => Reaches(n, u)'
              /\ Withheld(n, u) => Withheld(n, u)'
  <2>1. Kept(n)
    BY <1>7, <1>9, <1>12, <1>13 DEF Kept, Pending
  <2> QED
    BY <1>7, <1>13, <2>1, KeptNode, AnnouncedStays
<1>14. Newest(m)' = conf /\ w \in Running(m)
    BY <1>1, <1>2, <1>9 DEF Newest, Running
<1>15. ASSUME NEW u \in Users, m \notin missed', Reaches(m, u)
       PROVE  Reaches(m, u)'
  <2>1. CASE Announced(m, u) \/ Pending(m)
    <3>1. Announced(m, u)' \/ Pending(m)'
      BY <1>3, <1>7, <2>1, AnnouncedStays DEF Pending
    <3> QED
      BY <1>3, <1>7, <3>1, ReachesNow
  <2>2. CASE Agrees(conf, m, u)
    BY <1>3, <1>7, <1>12, <1>14, <2>2, ReachesNow
  <2>3. CASE ~Agrees(conf, m, u)
    <3>1. ~worker[w].overtaken
      <4>1. conf # ConfigUsers(m)
        BY <1>0, <1>3, <2>3, AgreeingIsEqual
      <4> QED
        BY <1>6, <1>10, <1>15, <4>1
    <3>2. CASE \E v \in Running(m) : Agrees(worker[v].conf, m, u)
      <4>1. PICK v \in Running(m) : Agrees(worker[v].conf, m, u)
        BY <3>2
      <4>2. v # w
        BY <1>1, <2>3, <4>1
      <4>3. v \in Running(m)' /\ Agrees(worker'[v].conf, m, u)
        BY <1>12, <4>1, <4>2
      <4> QED
        BY <1>3, <1>7, <4>3, ReachesNow
    <3>3. ~\A v \in Running(m) : Agrees(worker[v].conf, m, u) \/ worker[v].overtaken
      BY <1>1, <1>14, <2>3, <3>1
    <3> QED
      BY <1>15, <2>1, <3>2, <3>3 DEF Reaches
  <2> QED
    BY <2>2, <2>3
<1>16. ASSUME NEW u \in Users, m \notin missed', Withheld(m, u)
       PROVE  Withheld(m, u)'
  <2>1. CASE Serves(m, u) \/ Announced(m, u) \/ jobs[m]["closed"] > 0
    BY <1>3, <1>7, <2>1, AnnouncedStays, WithheldNow
  <2>2. CASE ~Serves(m, u)
    <3>1. worker[w].overtaken => ~Has(conf, u)
      <4>1. worker[w].overtaken => conf = ConfigUsers(m)
        BY <1>6, <1>10, <1>16
      <4>2. ~Has(ConfigUsers(m), u)
        BY <1>0, <1>3, <2>2, ConfigFacts DEF Has
      <4> QED
        BY <4>1, <4>2
    <3>2. ASSUME ~Has(conf, u), closed \/ ~Has(served[m], u)
          PROVE  Withheld(m, u)'
      BY <1>3, <1>7, <1>9, <1>12, <1>14, <3>2, WithheldNow
    <3>3. CASE \E v \in Running(m) : worker[v].kind = "closed" /\ ~Has(worker[v].conf, u)
      <4>1. PICK v \in Running(m) : worker[v].kind = "closed" /\ ~Has(worker[v].conf, u)
        BY <3>3
      <4>2. CASE v = w
        BY <1>1, <1>4, <3>2, <4>1, <4>2
      <4>3. CASE v # w
        <5>1. v \in Running(m)' /\ worker'[v].kind = "closed" /\ ~Has(worker'[v].conf, u)
          BY <1>12, <4>1, <4>3
        <5> QED
          BY <1>3, <1>7, <5>1, WithheldNow
      <4> QED
        BY <4>2, <4>3
    <3>4. CASE /\ \A v \in Running(m) : ~Has(worker[v].conf, u) \/ worker[v].overtaken
               /\ ~Has(Newest(m), u)
               /\ ~Has(served[m], u) \/ (command[m] # Idle /\ command[m].closed)
      BY <1>1, <1>4, <1>14, <3>1, <3>2, <3>4
    <3> QED
      BY <1>16, <2>1, <2>2, <3>3, <3>4 DEF Withheld
  <2> QED
    BY <2>1, <2>2
<1>17. ReachInv'
    BY <1>7, <1>10, <1>13, <1>15 DEF ServingInv, ReachInv
<1>18. ExcessInv'
    BY <1>7, <1>10, <1>13, <1>16 DEF ServingInv, ExcessInv
<1> QED
    BY <1>11, <1>17, <1>18 DEF ServingInv

(* What stops a Node, or leaves it as it was.                              *)
LEMMA FailureTypes ==
    ASSUME TypeOK, NEW m \in Nodes, FailsClosed(m) \/ KeepsServing(m)
    PROVE  /\ connected' \in [Nodes -> BOOLEAN] /\ served' \in [Nodes -> Credentials]
           /\ failed' \subseteq Nodes /\ late' \subseteq Nodes
<1>1. CASE FailsClosed(m)
    BY <1>1 DEF FailsClosed, TypeOK, Credentials
<1>2. CASE KeepsServing(m)
    BY <1>2 DEF KeepsServing, TypeOK
<1> QED
    BY <1>1, <1>2

LEMMA QueueFailureStep ==
    ASSUME TypeOK, ServingInv, NEW w \in Workers, HandleManagedConfigQueueFailure(w)
    PROVE  TypeOK' /\ ServingInv'
<1>0. UserType /\ JobsType /\ WorkerType /\ NodesType /\ MissedType /\ CountsType
    BY TypeParts
<1>1. PICK m : m = worker[w].node
    OBVIOUS
<1>2. worker[w] # Idle /\ Leaves(w)
    BY DEF HandleManagedConfigQueueFailure
<1>3. m \in Nodes
    BY <1>0, <1>1, <1>2, LeavesFacts
<1>4. /\ Fault /\ UNCHANGED rows
      /\ UNCHANGED <<op, bus, events, jobs, command, requests, missed>>
      /\ worker[w].kind = "closed" => FailsClosed(m)
      /\ worker[w].kind # "closed" => KeepsServing(m)
    BY <1>1 DEF HandleManagedConfigQueueFailure
<1>5. TypeOK'
  <2>1. WorkerType' /\ CountsType'
    BY <1>0, <1>2, <1>4, LeavesFacts, FaultCounts
  <2>2. /\ connected' \in [Nodes -> BOOLEAN] /\ served' \in [Nodes -> Credentials]
        /\ failed' \subseteq Nodes /\ late' \subseteq Nodes
    BY <1>3, <1>4, FailureTypes
  <2> QED
    BY <1>4, <2>1, <2>2 DEF TypeOK, rows, WorkerType, CountsType
<1>6. /\ \A n \in Nodes : n # m =>
            /\ \A v \in Workers : v \in Running(n)' => v \in Running(n)
                                                       /\ worker'[v] = worker[v]
            /\ \A v \in Running(n) : v \in Running(n)'
      /\ \A v \in Running(m) \ {w} :
            /\ v \in Running(m)'
            /\ worker'[v].conf = worker[v].conf /\ worker'[v].kind = worker[v].kind
            /\ worker'[v].overtaken
      /\ \A v \in Running(m)' : v \in Running(m) \ {w}
    BY <1>0, <1>1, <1>2, LeavesFacts
<1>7. /\ \A n \in Nodes : n # m => served'[n] = served[n]
      /\ failed \subseteq failed' /\ late \subseteq late' /\ m \in failed' \cup late'
      /\ failed' \subseteq failed \cup {m}
    BY <1>0, <1>3, <1>4 DEF FailsClosed, KeepsServing, NodesType
<1>8. \A n \in failed' : served'[n] = {}
    BY <1>0, <1>3, <1>4 DEF FailsClosed, KeepsServing, NodesType, ServingInv, ExcessInv
<1>9. ASSUME NEW n \in Nodes, n # m, NEW u \in Users
      PROVE  /\ Reaches(n, u) => Reaches(n, u)'
             /\ Withheld(n, u) => Withheld(n, u)'
  <2>1. Kept(n)
    BY <1>4, <1>6, <1>7, <1>9 DEF Kept, Pending
  <2> QED
    BY <1>4, <1>9, <2>1, KeptNode, AnnouncedStays
<1>10. ASSUME NEW u \in Users, m \notin failed', Withheld(m, u)
       PROVE  Withheld(m, u)'
  <2>1. worker[w].kind # "closed" /\ served' = served /\ Newest(m)' = Newest(m)
    BY <1>4, <1>10 DEF FailsClosed, KeepsServing, Newest
  <2>2. CASE Serves(m, u) \/ Announced(m, u) \/ jobs[m]["closed"] > 0
    BY <1>3, <1>4, <2>2, AnnouncedStays, WithheldNow
  <2>3. CASE \E v \in Running(m) : worker[v].kind = "closed" /\ ~Has(worker[v].conf, u)
    <3>1. PICK v \in Running(m) : worker[v].kind = "closed" /\ ~Has(worker[v].conf, u)
      BY <2>3
    <3>2. v \in Running(m)' /\ worker'[v].kind = "closed" /\ ~Has(worker'[v].conf, u)
      BY <1>6, <2>1, <3>1
    <3> QED
      BY <1>3, <1>4, <3>2, WithheldNow
  <2>4. CASE /\ \A v \in Running(m) : ~Has(worker[v].conf, u) \/ worker[v].overtaken
             /\ ~Has(Newest(m), u)
             /\ ~Has(served[m], u) \/ (command[m] # Idle /\ command[m].closed)
    BY <1>3, <1>4, <1>6, <2>1, <2>4, WithheldNow
  <2> QED
    BY <1>10, <2>2, <2>3, <2>4 DEF Withheld
<1>11. ReachInv'
    BY <1>4, <1>7, <1>9 DEF ServingInv, ReachInv
<1>12. ExcessInv'
    BY <1>4, <1>7, <1>8, <1>9, <1>10 DEF ServingInv, ExcessInv
<1> QED
    BY <1>5, <1>11, <1>12 DEF ServingInv

LEMMA ApplyStep ==
    ASSUME TypeOK, ServingInv, NEW m \in Nodes, ApplyConfig(m)
    PROVE  TypeOK' /\ ServingInv'
<1>0. UserType /\ JobsType /\ WorkerType /\ NodesType /\ MissedType
    BY TypeParts
<1>1. /\ command[m] # Idle /\ m \notin failed
      /\ command' = [command EXCEPT ![m] = Idle]
      /\ served' = [served EXCEPT ![m] = command[m].conf]
      /\ connected' = [connected EXCEPT ![m] = TRUE] /\ UNCHANGED rows
      /\ UNCHANGED <<op, bus, events, jobs, worker, failed, requests, faults>>
    BY DEF ApplyConfig, counters
<1>2. \/ MakesGood(m) /\ missed' = missed \ {m} /\ late' = late \ {m}
      \/ UNCHANGED <<missed, late>>
    BY DEF ApplyConfig
<1>3. command[m].conf \in Credentials
    BY <1>0, <1>1 DEF NodesType, Commands
<1>4. TypeOK'
  <2>1. missed' \subseteq Nodes /\ late' \subseteq Nodes
    BY <1>0, <1>2 DEF MissedType, NodesType
  <2>2. /\ command' \in [Nodes -> Commands \cup {Idle}] /\ served' \in [Nodes -> Credentials]
        /\ connected' \in [Nodes -> BOOLEAN]
    BY <1>0, <1>1, <1>3 DEF NodesType
  <2> QED
    BY <1>1, <2>1, <2>2 DEF TypeOK, rows
<1>5. /\ command'[m] = Idle /\ served'[m] = command[m].conf
      /\ \A n \in Nodes : n # m => command'[n] = command[n] /\ served'[n] = served[n]
      /\ \A n \in Nodes : Running(n)' = Running(n)
      /\ \A n \in Nodes : n # m => (n \in missed' <=> n \in missed) /\ (n \in late' <=> n \in late)
    BY <1>0, <1>1, <1>2 DEF NodesType, Running
<1>6. ASSUME NEW n \in Nodes, n # m, NEW u \in Users
      PROVE  /\ Reaches(n, u) => Reaches(n, u)'
             /\ Withheld(n, u) => Withheld(n, u)'
  <2>1. Kept(n)
    BY <1>1, <1>5, <1>6 DEF Kept, Pending
  <2> QED
    BY <1>1, <1>6, <2>1, KeptNode, AnnouncedStays
<1>7. Newest(m)' = command[m].conf /\ Newest(m) = command[m].conf
    BY <1>1, <1>5 DEF Newest
<1>8. ASSUME NEW u \in Users, MakesGood(m)
      PROVE  Reaches(m, u)' /\ Withheld(m, u)'
  <2>1. /\ command[m].conf = ConfigUsers(m)
        /\ \A v \in Running(m) : worker[v].conf = ConfigUsers(m)
    BY <1>8 DEF MakesGood, Running
  <2>2. Agrees(ConfigUsers(m), m, u) /\ (~Serves(m, u) => ~Has(ConfigUsers(m), u))
    BY <1>0, ConfigFacts DEF Agrees, Has
  <2>3. Reaches(m, u)'
    BY <1>1, <1>5, <1>7, <2>1, <2>2, ReachesNow
  <2>4. Withheld(m, u)'
    BY <1>1, <1>5, <1>7, <2>1, <2>2, WithheldNow
  <2> QED
    BY <2>3, <2>4
<1>9. ASSUME NEW u \in Users
      PROVE  /\ Reaches(m, u) => Reaches(m, u)'
             /\ Withheld(m, u) => Withheld(m, u)'
  <2>1. Announced(m, u) => Announced(m, u)'
    BY <1>1, AnnouncedStays
  <2>2. Pending(m)' <=> Pending(m)
    BY <1>1 DEF Pending
  <2>3. Reaches(m, u) => Reaches(m, u)'
    BY <1>1, <1>5, <1>7, <2>1, <2>2, ReachesNow DEF Reaches
  <2>4. Withheld(m, u) => Withheld(m, u)'
    BY <1>1, <1>5, <1>7, <2>1, WithheldNow DEF Withheld
  <2> QED
    BY <2>3, <2>4
<1>10. ReachInv'
    BY <1>1, <1>2, <1>5, <1>6, <1>8, <1>9 DEF ServingInv, ReachInv
<1>11. ExcessInv'
    BY <1>1, <1>2, <1>5, <1>6, <1>8, <1>9 DEF ServingInv, ExcessInv
<1> QED
    BY <1>4, <1>10, <1>11 DEF ServingInv

LEMMA ApplyFailsStep ==
    ASSUME TypeOK, ServingInv, NEW m \in Nodes, ApplyConfigFails(m)
    PROVE  TypeOK' /\ ServingInv'
<1>0. UserType /\ JobsType /\ WorkerType /\ NodesType /\ MissedType /\ CountsType
    BY TypeParts
<1>1. /\ command[m] # Idle /\ command' = [command EXCEPT ![m] = Idle] /\ UNCHANGED rows
      /\ command[m].closed => FailsClosed(m)
      /\ ~command[m].closed => KeepsServing(m)
      /\ UNCHANGED <<op, bus, events, jobs, worker, requests, missed>>
    BY DEF ApplyConfigFails
<1>2. CountsType'
    BY <1>0, FaultCounts DEF ApplyConfigFails, CountsType
<1>3. TypeOK'
  <2>1. /\ connected' \in [Nodes -> BOOLEAN] /\ served' \in [Nodes -> Credentials]
        /\ failed' \subseteq Nodes /\ late' \subseteq Nodes
    BY <1>1, FailureTypes
  <2>2. command' \in [Nodes -> Commands \cup {Idle}]
    BY <1>0, <1>1 DEF NodesType
  <2> QED
    BY <1>1, <1>2, <2>1, <2>2 DEF TypeOK, rows, CountsType
<1>4. /\ command'[m] = Idle
      /\ \A n \in Nodes : n # m => command'[n] = command[n] /\ served'[n] = served[n]
      /\ \A n \in Nodes : Running(n)' = Running(n)
      /\ failed \subseteq failed' /\ late \subseteq late' /\ m \in failed' \cup late'
    BY <1>0, <1>1 DEF FailsClosed, KeepsServing, NodesType, Running
<1>5. \A n \in failed' : served'[n] = {}
    BY <1>0, <1>1 DEF FailsClosed, KeepsServing, NodesType, ServingInv, ExcessInv
<1>6. ASSUME NEW n \in Nodes, n # m, NEW u \in Users
      PROVE  /\ Reaches(n, u) => Reaches(n, u)'
             /\ Withheld(n, u) => Withheld(n, u)'
  <2>1. Kept(n)
    BY <1>1, <1>4, <1>6 DEF Kept, Pending
  <2> QED
    BY <1>1, <1>6, <2>1, KeptNode, AnnouncedStays
<1>7. ASSUME NEW u \in Users, m \notin failed', Withheld(m, u)
      PROVE  Withheld(m, u)'
  <2>1. ~command[m].closed /\ served' = served
    BY <1>1, <1>7 DEF FailsClosed, KeepsServing
  <2>2. Newest(m)' = served[m]
    BY <1>4, <2>1 DEF Newest
  <2>3. Announced(m, u) => Announced(m, u)'
    BY <1>1, AnnouncedStays
  <2> QED
    BY <1>1, <1>4, <1>7, <2>1, <2>2, <2>3, WithheldNow DEF Withheld
<1>8. ReachInv'
    BY <1>1, <1>4, <1>6 DEF ServingInv, ReachInv
<1>9. ExcessInv'
    BY <1>1, <1>4, <1>5, <1>6, <1>7 DEF ServingInv, ExcessInv
<1> QED
    BY <1>3, <1>8, <1>9 DEF ServingInv

-----------------------------------------------------------------------------
(* The invariant holds from the start.                                     *)
FirstRows == [status : {"ACTIVE"}, over : {FALSE}, past : {FALSE}, key : {0},
              squads : SUBSET Squads]

LEMMA FirstRow ==
    ASSUME NEW r \in FirstRows
    PROVE  r \in Rows
<1>1. r.status = "ACTIVE" /\ r.squads \in SUBSET Squads /\ r.key = 0
    BY DEF FirstRows
<1>2. r.over = FALSE
    BY DEF FirstRows
<1>3. r.past = FALSE
    BY DEF FirstRows
<1>4. r.status \in Statuses /\ r.key \in Nat
    BY <1>1 DEF Statuses
<1>5. r.over \in BOOLEAN
    BY <1>2
<1>6. r.past \in BOOLEAN
    BY <1>3
<1>7. r = [status |-> r.status, over |-> r.over, past |-> r.past, key |-> r.key,
           squads |-> r.squads]
    BY DEF FirstRows
<1> QED
    BY <1>1, <1>4, <1>7, <1>5, <1>6, Zenon DEF Rows

LEMMA StartsServing ==
    ASSUME Init
    PROVE  TypeOK /\ ServingInv
<1>1. UserType /\ \A n \in Nodes : served[n] = ConfigUsers(n)
  <2>1. user \in [Users -> Rows]
    <3>1. \A r \in FirstRows : r \in Rows
      BY FirstRow
    <3> QED
      BY <3>1 DEF Init, FirstRows
  <2> QED
    BY <2>1 DEF Init, UserType
<1>2. /\ WorkerType /\ JobsType /\ BusType /\ EventsType /\ OpType /\ MissedType
    BY DEF Init, WorkerType, JobsType, BusType, EventsType, OpType, MissedType
<1>3. CountsType
    BY UserAccessBounds DEF Init, CountsType
<1>4. NodesType
  <2>1. served \in [Nodes -> Credentials]
    BY <1>1, ConfigFacts DEF Init
  <2> QED
    BY <2>1 DEF Init, NodesType
<1>5. TypeOK
    BY <1>1, <1>2, <1>3, <1>4, TypeParts
<1>6. ASSUME NEW n \in Nodes, NEW u \in Users
      PROVE  Reaches(n, u) /\ Withheld(n, u)
  <2>1. Agrees(served[n], n, u) /\ (~Serves(n, u) => ~Has(served[n], u))
    <3>1. \A k \in Nat : <<u, k>> \in served[n] <=> Serves(n, u) /\ user[u].key = k
      BY <1>1, ConfigFacts
    <3> QED
      BY <3>1 DEF Agrees, Has
  <2>2. Running(n) = {} /\ Newest(n) = served[n]
    BY DEF Init, Running, Newest
  <2> QED
    BY <2>1, <2>2 DEF Reaches, Withheld
<1>7. failed = {}
    BY DEF Init
<1> QED
    BY <1>5, <1>6, <1>7 DEF ServingInv, ReachInv, ExcessInv

LEMMA NothingServing ==
    ASSUME TypeOK, ServingInv, UNCHANGED vars
    PROVE  TypeOK' /\ ServingInv'
<1>1. /\ UNCHANGED <<rows, op, bus, events, jobs, worker, connected, command, served, failed, late,
                     requests, faults, missed>>
    BY DEF vars, nodeVars, counters
<1>2. TypeOK'
    BY <1>1 DEF TypeOK, rows
<1>3. JobsType' /\ \A n \in Nodes, k \in JobKinds : jobs[n][k] <= jobs'[n][k]
    BY <1>1, TypeParts DEF JobsType
<1> QED
    BY <1>1, <1>2, <1>3, AnnouncedStays, EventStep

(* ... and every step keeps it.                                            *)
LEMMA NextServing ==
    ASSUME TypeOK, ServingInv, [Next]_vars
    PROVE  TypeOK' /\ ServingInv'
<1>1. CASE FrontActions
  <2>1. TypeOK' /\ FrontStep
    BY <1>1, FrontActionStep
  <2>2. JobsType /\ JobsType'
    BY <2>1, TypeParts DEF TypeOK, JobsType
  <2> QED
    BY <2>1, <2>2, FrontServing
<1>2. CASE \E e \in events : FireUserEvent(e)
    BY <1>2, FireStep
<1>3. CASE \E e \in bus : AddUserToNode(e) \/ RemoveUserFromNode(e)
    BY <1>3, AddStep, RemoveStep
<1>4. CASE \E n \in Nodes : HealthCheck(n) \/ ApplyConfig(n) \/ ApplyConfigFails(n)
    BY <1>4, HealthStep, ApplyStep, ApplyFailsStep
<1>5. CASE \E w \in Workers :
             \/ \E n \in Nodes, k \in JobKinds : BeginStart(w, n, k)
             \/ QueueManagedConfig(w) \/ HandleManagedConfigQueueFailure(w)
    BY <1>5, BeginStep, QueueStep, QueueFailureStep
<1>6. CASE UNCHANGED vars
    BY <1>6, NothingServing
<1> QED
    BY <1>1, <1>2, <1>3, <1>4, <1>5, <1>6 DEF Next, FrontActions

THEOREM ServingHolds == Spec => [](TypeOK /\ ServingInv)
<1>1. Init => TypeOK /\ ServingInv
    BY StartsServing
<1>2. (TypeOK /\ ServingInv) /\ [Next]_vars => (TypeOK /\ ServingInv)'
    BY NextServing
<1> QED
    BY <1>1, <1>2, PTL DEF Spec

(* Every variable keeps its type, whatever the requests, the watchdogs,    *)
(* the jobs and the commands do (the rows of users, user_traffic and       *)
(* machine_commands).                                                      *)
THEOREM UserAccessTypes == Spec => []TypeOK
    BY ServingHolds, PTL

-----------------------------------------------------------------------------
(* When every request, event, job and command is through, every Node no    *)
(* step has left out accepts exactly the active users its squads grant     *)
(* (users.service.ts:120-545, start-node.processor.ts:364-467).            *)
THEOREM GrantedAreServed == Spec => []NodesServeTheGranted
<1>1. TypeOK /\ ServingInv => NodesServeTheGranted
  <2> SUFFICES ASSUME TypeOK, ServingInv, Quiet, NEW n \in Nodes \ (missed \cup late \cup failed)
               PROVE  served[n] = ConfigUsers(n)
    BY DEF NodesServeTheGranted
  <2>1. UserType /\ served[n] \in Credentials
    BY TypeParts DEF NodesType
  <2>2. Running(n) = {} /\ Newest(n) = served[n] /\ ~Pending(n)
    BY DEF Quiet, Running, Newest, Pending
  <2>3. ASSUME NEW u \in Users
        PROVE  Agrees(served[n], n, u)
    <3>1. ~Announced(n, u)
      BY DEF Quiet, Announced
    <3>2. Reaches(n, u)
      BY DEF ServingInv, ReachInv
    <3> QED
      BY <2>2, <3>1, <3>2 DEF Reaches
  <2> QED
    BY <2>1, <2>3, AgreeingIsEqual
<1> QED
    BY <1>1, ServingHolds, PTL

(* Whatever jobs and commands failed, it accepts no user who is not active *)
(* or has no grant: what carries a removal fails closed, also when a later *)
(* command replaces it (start-node.processor.ts:403-450).                  *)
THEOREM NobodyElse == Spec => []NobodyElseIsServed
<1>1. TypeOK /\ ServingInv => NobodyElseIsServed
  <2> SUFFICES ASSUME TypeOK, ServingInv, Quiet, NEW n \in Nodes \ missed, NEW c \in served[n]
               PROVE  n \notin failed /\ Active(c[1]) /\ n \in Granted(c[1])
    BY DEF NobodyElseIsServed
  <2>1. n \notin failed
    BY DEF ServingInv, ExcessInv
  <2>2. served[n] \in SUBSET (Users \X Nat)
    BY TypeParts DEF NodesType, Credentials
  <2>3. PICK u \in Users, k \in Nat : c = <<u, k>>
    BY <2>2
  <2>4. Has(served[n], u) /\ c[1] = u
    BY <2>3 DEF Has
  <2>5. Running(n) = {} /\ Newest(n) = served[n] /\ ~(jobs[n]["closed"] > 0)
    BY DEF Quiet, Running, Newest, JobKinds
  <2>6. Serves(n, u) \/ ~Announced(n, u)
    BY DEF Quiet, Announced
  <2>7. Withheld(n, u)
    BY <2>1 DEF ServingInv, ExcessInv
  <2>8. Serves(n, u)
    BY <2>4, <2>5, <2>6, <2>7 DEF Withheld
  <2> QED
    BY <2>1, <2>4, <2>8 DEF Serves, ServesRow, Active, Granted
<1> QED
    BY <1>1, ServingHolds, PTL

=============================================================================
