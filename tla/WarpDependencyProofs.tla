------------------------ MODULE WarpDependencyProofs ------------------------
(***************************************************************************)
(* What the panel and the Agent hold about WARP, for any number of Nodes,  *)
(* plans, requests, faults and events: wherever a handler is cut off, the  *)
(* record says whose the installation is; the panel claims no more than    *)
(* that record; nobody else's WARP is configured without leave; and a plan *)
(* that waits has its command.                                             *)
(***************************************************************************)
EXTENDS WarpDependency, SubsequenceProofs

Mutates == {"own", "install", "configure", "persist", "create", "fill"}

(* A handler has a place. *)
HandlerHasPlace ==
    handler # Idle => DOMAIN handler = {"at", "mode", "orphan"}

(* What a handler has found out by the place where it is. *)
PlacesAreBacked ==
    /\ At("install") \/ At("configure") \/ At("persist") => record \in Ours
    /\ At("create") => record = "absent"
    /\ At("fill") => record = "unreadable"
    /\ handler # Idle /\ handler.at \in Mutates => ~xui

IInv == HandlerHasPlace /\ PlacesAreBacked /\ OwnInstallIsRecorded

-----------------------------------------------------------------------------
(* Nothing the panel does on its own is needed for the invariant but what  *)
(* it leaves alone.                                                        *)
HostKept == UNCHANGED <<handler, record, cli, xui, theirs>>

LEMMA HostKeptIInv == IInv /\ HostKept => IInv'
BY DEF IInv, HostKept, HandlerHasPlace, PlacesAreBacked, OwnInstallIsRecorded, At

(* A handler that has ended or was cut off leaves nothing to be backed.    *)
LEMMA IdleIInv ==
    ASSUME handler' = Idle, OwnInstallIsRecorded'
    PROVE  IInv'
BY DEF IInv, HandlerHasPlace, PlacesAreBacked, At

(* A handler that moves on: what its new place needs is what it leaves.    *)
LEMMA GotoIInv ==
    ASSUME IInv, handler # Idle, NEW place, Goto(place),
           place \in {"install", "configure", "persist"} => record' \in Ours,
           place = "create" => record' = "absent",
           place = "fill" => record' = "unreadable",
           place \in Mutates => ~xui',
           OwnInstallIsRecorded'
    PROVE  IInv'
<1>1. DOMAIN handler = {"at", "mode", "orphan"}
    BY DEF IInv, HandlerHasPlace
<1>2. handler'.at = place /\ DOMAIN handler' = {"at", "mode", "orphan"}
    BY <1>1 DEF Goto
<1> QED
    BY <1>2 DEF IInv, HandlerHasPlace, PlacesAreBacked, At

(* The steps of the panel.                                                 *)
LEMMA PanelIInv ==
    ASSUME IInv,
           \/ \E p \in Plans : \/ \E n \in Nodes, warp \in BOOLEAN : CreatePlan(p, n, warp)
                               \/ PlanExpires(p) \/ GetPlan(p) \/ AuthorizeWarpTakeover(p)
                               \/ Provision(p)
           \/ \E S \in SUBSET Nodes : Retry(S)
           \/ \E n \in Nodes : Publish(n) \/ Reconfigure(n) \/ NodeSettles(n)
           \/ MachineFails \/ OverdueHeartbeat
           \/ Hello \/ Heartbeat \/ CheckIsDue \/ Claim \/ Result
           \/ Discover
           \/ UNCHANGED vars
    PROVE  IInv'
<1>. USE DEF HostKept, files, history, vars
<1>1. (\E p \in Plans : \E n \in Nodes, warp \in BOOLEAN : CreatePlan(p, n, warp)) => HostKept
    BY DEF CreatePlan
<1>2. (\E p \in Plans : PlanExpires(p) \/ GetPlan(p)) => HostKept
    BY DEF PlanExpires, GetPlan
<1>3. (\E p \in Plans : AuthorizeWarpTakeover(p) \/ Provision(p)) => HostKept
    BY DEF AuthorizeWarpTakeover, Provision
<1>4. (\E S \in SUBSET Nodes : Retry(S)) => HostKept
    BY DEF Retry
<1>5. (\E n \in Nodes : Publish(n) \/ Reconfigure(n) \/ NodeSettles(n)) => HostKept
    BY DEF Publish, Reconfigure, NodeSettles
<1>6. Hello \/ Heartbeat \/ CheckIsDue \/ Claim \/ Result \/ Discover \/ UNCHANGED vars
          => HostKept
    BY DEF Hello, Heartbeat, CheckIsDue, Claim, Result, Discover
<1>7. MachineFails \/ OverdueHeartbeat => HostKept
    BY DEF MachineFails, OverdueHeartbeat
<1> QED
    BY <1>1, <1>2, <1>3, <1>4, <1>5, <1>6, <1>7, HostKeptIInv

(* The steps of a handler.                                                 *)
LEMMA HandlerIInv ==
    ASSUME IInv, HandlerSteps
    PROVE  IInv'
<1>. USE DEF files, history, Mutates, Ours
<1>0. handler # Idle
    BY DEF HandlerSteps, At, VerifyCompatibleExternal, Detect3XUI, CheckOwnership,
           EnsureInstalled, Configure, Persist, EnsureRelay, Adopt, CreateOwnership,
           FillOwnership, Fails
<1>1. CASE VerifyCompatibleExternal
    <2>1. Goto("relay") /\ OwnInstallIsRecorded'
        BY <1>1 DEF VerifyCompatibleExternal, IInv, OwnInstallIsRecorded
    <2> QED
        BY <1>0, <2>1, GotoIInv
<1>2. CASE Detect3XUI
    <2>1. Goto("own") /\ ~xui' /\ OwnInstallIsRecorded'
        BY <1>2 DEF Detect3XUI, IInv, OwnInstallIsRecorded
    <2> QED
        BY <1>0, <2>1, GotoIInv
<1>3. CASE CheckOwnership
    <2>1. Goto("install") /\ ~xui' /\ record' \in Ours /\ OwnInstallIsRecorded'
        BY <1>3 DEF CheckOwnership, IInv, PlacesAreBacked, OwnInstallIsRecorded, At
    <2> QED
        BY <1>0, <2>1, GotoIInv
<1>4. CASE EnsureInstalled
    <2>1. Goto("configure") /\ ~xui' /\ record' \in Ours /\ OwnInstallIsRecorded'
        BY <1>4 DEF EnsureInstalled, IInv, PlacesAreBacked, OwnInstallIsRecorded, At
    <2> QED
        BY <1>0, <2>1, GotoIInv
<1>5. CASE Configure
    <2>1. Goto("persist") /\ ~xui' /\ record' \in Ours /\ OwnInstallIsRecorded'
        BY <1>5 DEF Configure, IInv, PlacesAreBacked, OwnInstallIsRecorded, At
    <2> QED
        BY <1>0, <2>1, GotoIInv
<1>6. CASE Persist
    <2>1. Goto("relay") /\ OwnInstallIsRecorded'
        BY <1>6 DEF Persist, OwnInstallIsRecorded
    <2> QED
        BY <1>0, <2>1, GotoIInv
<1>7. CASE EnsureRelay
    BY <1>7, IdleIInv DEF EnsureRelay, Ends, IInv, OwnInstallIsRecorded
<1>8. CASE Adopt
    <2>1. OwnInstallIsRecorded' /\ ~xui' /\ UNCHANGED record
        BY <1>8 DEF Adopt, IInv, OwnInstallIsRecorded
    <2>2. CASE Ends("succeeded")
        BY <2>1, <2>2, IdleIInv DEF Ends
    <2>3. CASE record = "absent" /\ Goto("create")
        BY <1>0, <2>1, <2>3, GotoIInv
    <2> QED
        BY <1>8, <2>2, <2>3 DEF Adopt
<1>9. CASE CreateOwnership
    <2>1. Goto("fill") /\ ~xui' /\ record' = "unreadable" /\ OwnInstallIsRecorded'
        BY <1>9 DEF CreateOwnership, IInv, PlacesAreBacked, OwnInstallIsRecorded, At
    <2> QED
        BY <1>0, <2>1, GotoIInv
<1>10. CASE FillOwnership
    BY <1>10, IdleIInv DEF FillOwnership, Ends, OwnInstallIsRecorded
<1>11. CASE Fails
    BY <1>11, IdleIInv DEF Fails, Ends, IInv, PlacesAreBacked, OwnInstallIsRecorded
<1> QED
    BY <1>1, <1>2, <1>3, <1>4, <1>5, <1>6, <1>7, <1>8, <1>9, <1>10, <1>11 DEF HandlerSteps

(* A command begins.                                                       *)
LEMMA BeginIInv ==
    ASSUME IInv, Begin
    PROVE  IInv'
<1>1. PICK i \in DOMAIN rows :
          handler' = [at |-> CASE rows[i].mode = "none" -> "adopt"
                               [] rows[i].mode = "REUSE_EXTERNAL" -> "verify"
                               [] OTHER -> "detect",
                      mode |-> rows[i].mode, orphan |-> FALSE]
    BY DEF Begin
<1>2. /\ DOMAIN handler' = {"at", "mode", "orphan"}
      /\ handler'.at \in {"adopt", "verify", "detect"}
    BY <1>1
<1>3. OwnInstallIsRecorded'
    BY DEF Begin, files, history, IInv, OwnInstallIsRecorded
<1> QED
    BY <1>2, <1>3 DEF IInv, HandlerHasPlace, PlacesAreBacked, At, Mutates

(* A deadline orphans the handler, and leaves it where it is.              *)
LEMMA DeadlineIInv ==
    ASSUME IInv, DeadlineExceeded
    PROVE  IInv'
<1>1. UNCHANGED <<files, history>> /\ handler' \in {handler, [handler EXCEPT !.orphan = TRUE]}
    BY DEF DeadlineExceeded
<1>2. CASE handler' = handler
    BY <1>1, <1>2, HostKeptIInv DEF HostKept, files, history
<1>3. CASE handler # Idle /\ handler' = [handler EXCEPT !.orphan = TRUE]
    <2>1. DOMAIN handler' = {"at", "mode", "orphan"} /\ handler'.at = handler.at
        BY <1>3 DEF IInv, HandlerHasPlace
    <2> QED
        BY <1>1, <1>3, <2>1
        DEF IInv, HandlerHasPlace, PlacesAreBacked, OwnInstallIsRecorded, At, files, history
<1> QED
    BY <1>2, <1>3 DEF DeadlineExceeded

-----------------------------------------------------------------------------
(* The inductive invariant holds in every reachable state.                 *)
THEOREM InvariantHolds == Spec => []IInv
<1>1. Init => IInv
    BY DEF Init, IInv, HandlerHasPlace, PlacesAreBacked, OwnInstallIsRecorded, At
<1>2. IInv /\ [Next]_vars => IInv'
    <2>. SUFFICES ASSUME IInv, [Next]_vars
                  PROVE  IInv'
        OBVIOUS
    <2>1. CASE HandlerSteps
        BY <2>1, HandlerIInv
    <2>2. CASE Begin
        BY <2>2, BeginIInv
    <2>3. CASE DeadlineExceeded
        BY <2>3, DeadlineIInv
    <2>4. CASE Disconnect
        BY <2>4, IdleIInv
        DEF Disconnect, IInv, PlacesAreBacked, OwnInstallIsRecorded, history, Ours, At
    <2>5. CASE OthersInstall
        BY <2>5 DEF OthersInstall, IInv, HandlerHasPlace, PlacesAreBacked,
                    OwnInstallIsRecorded, At
    <2>6. CASE OthersRemove \/ WarpChanges
        BY <2>6 DEF OthersRemove, WarpChanges, IInv, HandlerHasPlace, PlacesAreBacked,
                    OwnInstallIsRecorded, At, history
    <2> QED
        BY <2>1, <2>2, <2>3, <2>4, <2>5, <2>6, PanelIInv DEF Next
<1> QED
    BY <1>1, <1>2, PTL DEF Spec

(* Wherever an installation by the Agent is cut off, the record says it is *)
(* the Agent's, for any number of plans, requests, faults and events.      *)
THEOREM OwnInstallsAreRecorded == Spec => []OwnInstallIsRecorded
<1>1. IInv => OwnInstallIsRecorded
    BY DEF IInv
<1> QED
    BY <1>1, InvariantHolds, PTL

(* WARP is configured only under a record of the Agent's, and never beside *)
(* a 3X-UI.                                                                *)
ConfiguredByRecord == At("configure") => record \in Ours /\ ~xui

THEOREM ConfigurationIsRecorded == Spec => []ConfiguredByRecord
<1>1. IInv => ConfiguredByRecord
    BY DEF IInv, PlacesAreBacked, ConfiguredByRecord, At, Mutates
<1> QED
    BY <1>1, InvariantHolds, PTL

-----------------------------------------------------------------------------
(* Rows.  What a step does to the list of rows: it keeps some in their     *)
(* order and puts new ones behind them, or it marks rows.                  *)

(* What a row says, and what its result says of the host.                  *)
RowFits(r) ==
    /\ r.kind = "reconcile_warp" <=> r.mode # "none"
    /\ r.kind = "authorize_warp_takeover" => approved
    /\ r.stored = "succeeded" /\ r.kind # "discover_host" /\ r.mode # "REUSE_EXTERNAL"
          => record \in Ours
    /\ r.found \in {"UNHEALTHY_MANAGED", "READY_MANAGED"} => record \in Ours

RowsFit == \A i \in DOMAIN rows : RowFits(rows[i])

(* Rows are claimed from the first on. *)
RunningFirst == \A i, j \in DOMAIN rows : i < j /\ rows[j].running => rows[i].running

(* A handler that is not orphaned works for the first row that runs.       *)
HandlerHasRow ==
    handler # Idle =>
        /\ session
        /\ ~handler.orphan => \E m \in DOMAIN rows : /\ Mine(m) /\ rows[m].mode = handler.mode
                                                     /\ rows[m].kind # "discover_host"

(* A handler is at a place of its own kind of command; it can report a     *)
(* WARP of the Agent's only when there is a record of it.                  *)
PlaceFitsMode ==
    handler # Idle =>
        /\ handler.at \in {"adopt", "create", "fill"} <=> handler.mode = "none"
        /\ handler.at = "verify" => handler.mode = "REUSE_EXTERNAL"
        /\ handler.at = "relay" /\ handler.mode # "REUSE_EXTERNAL" => record \in Ours

(* What is not the Agent's comes under its record only by a takeover that  *)
(* was allowed, or by being installed over that record.                    *)
OthersAreNotTaken ==
    /\ cli /\ theirs /\ record \in Ours => approved \/ intruded
    /\ At("adopt") \/ At("create") \/ At("fill") => approved
    /\ At("configure") /\ theirs => approved \/ intruded

Base == TypeOK /\ IInv /\ RowsFit /\ RunningFirst /\ HandlerHasRow /\ PlaceFitsMode

(* A row that a step has made.                                             *)
Fresh(r) ==
    /\ r \in Row /\ ~r.running /\ r.stored = "nothing" /\ r.found = "unknown"
    /\ r.kind = "reconcile_warp" <=> r.mode # "none"
    /\ r.kind = "authorize_warp_takeover" => approved'

(* The list q has the rows at the positions I, in their order.             *)
Thinned(q, I) ==
    /\ q \in Seq(Row)
    /\ \A k \in DOMAIN q : \E i \in I : q[k] = rows[i]
    /\ \A k, l \in DOMAIN q : k < l => \E i, j \in I : i < j /\ q[k] = rows[i] /\ q[l] = rows[j]
    /\ \A j \in I : \E l \in DOMAIN q :
          /\ q[l] = rows[j]
          /\ \A k \in DOMAIN q : k < l => \E i \in I : i < j /\ q[k] = rows[i]

Succession(I) ==
    /\ rows' \in Seq(Row)
    /\ \A k \in DOMAIN rows' : Fresh(rows'[k]) \/ \E i \in I : rows'[k] = rows[i]
    /\ \A k, l \in DOMAIN rows' :
          k < l => \/ Fresh(rows'[l])
                   \/ \E i, j \in I : i < j /\ rows'[k] = rows[i] /\ rows'[l] = rows[j]
    /\ \A j \in I : \E l \in DOMAIN rows' :
          /\ rows'[l] = rows[j]
          /\ \A k \in DOMAIN rows' : k < l => \E i \in I : i < j /\ rows'[k] = rows[i]

LEMMA ThinnedSubsequence ==
    ASSUME rows \in Seq(Row), NEW I \in SUBSET DOMAIN rows
    PROVE  Thinned(Subsequence(rows, I), I)
<1> DEFINE s == Subsequence(rows, I)
<1>1. /\ s \in Seq(Row)
      /\ \A k \in DOMAIN s : Position(I, k) \in I /\ s[k] = rows[Position(I, k)]
      /\ \A k, l \in DOMAIN s : k < l <=> Position(I, k) < Position(I, l)
      /\ \A i \in I : Rank(I, i) \in DOMAIN s /\ Position(I, Rank(I, i)) = i
    BY SubsequenceProperties
<1> HIDE DEF s
<1>2. ASSUME NEW j \in I
      PROVE  \E l \in DOMAIN s :
                /\ s[l] = rows[j]
                /\ \A k \in DOMAIN s : k < l => \E i \in I : i < j /\ s[k] = rows[i]
    <2>1. /\ Rank(I, j) \in DOMAIN s /\ s[Rank(I, j)] = rows[j]
          /\ Position(I, Rank(I, j)) = j
        BY <1>1
    <2>2. \A k \in DOMAIN s : k < Rank(I, j) => Position(I, k) < j /\ s[k] = rows[Position(I, k)]
                                                /\ Position(I, k) \in I
        BY <1>1, <2>1
    <2> QED
        BY <2>1, <2>2
<1>3. \A k, l \in DOMAIN s : k < l => \E i, j \in I : i < j /\ s[k] = rows[i] /\ s[l] = rows[j]
    BY <1>1
<1>4. Thinned(s, I)
    BY <1>1, <1>2, <1>3 DEF Thinned
<1> QED
    BY <1>4 DEF s

LEMMA ThinnedWithout ==
    ASSUME rows \in Seq(Row), NEW i \in DOMAIN rows
    PROVE  Thinned(Without(i), DOMAIN rows \ {i})
<1> DEFINE s == Without(i)
           I == DOMAIN rows \ {i}
           at(k) == IF k < i THEN k ELSE k + 1
           from(j) == IF j < i THEN j ELSE j - 1
<1>1. /\ s \in Seq(Row) /\ Len(s) = Len(rows) - 1
      /\ \A k \in 1 .. Len(rows) - 1 : s[k] = IF k < i THEN rows[k] ELSE rows[k + 1]
    BY RemoveAtProperties DEF Without
<1>2. /\ DOMAIN rows = 1 .. Len(rows) /\ Len(rows) \in Nat
      /\ DOMAIN s = 1 .. Len(rows) - 1
    BY <1>1, LenProperties
<1> HIDE DEF s
<1>3. \A k \in DOMAIN s : at(k) \in I /\ s[k] = rows[at(k)]
    BY <1>1, <1>2
<1>4. \A k, l \in DOMAIN s : k < l => at(k) < at(l)
    BY <1>2
<1>5. \A j \in I : from(j) \in DOMAIN s /\ at(from(j)) = j
    BY <1>2
<1> HIDE DEF at, from, I
<1>6. ASSUME NEW j \in I
      PROVE  \E l \in DOMAIN s :
                /\ s[l] = rows[j]
                /\ \A k \in DOMAIN s : k < l => \E m \in I : m < j /\ s[k] = rows[m]
    BY <1>3, <1>4, <1>5
<1>7. Thinned(s, I)
    BY <1>1, <1>3, <1>4, <1>6 DEF Thinned
<1> QED
    BY <1>7 DEF s, I

LEMMA AllRows ==
    ASSUME rows \in Seq(Row)
    PROVE  Thinned(rows, DOMAIN rows)
BY DEF Thinned

LEMMA Appended ==
    ASSUME rows \in Seq(Row), NEW I, NEW q, Thinned(q, I),
           NEW F, \A r \in F : Fresh(r), NEW new \in Seq(F), rows' = q \o new
    PROVE  Succession(I)
<1>0. F \subseteq Row
    BY DEF Fresh
<1>1. q \in Seq(Row) /\ new \in Seq(Row)
    BY <1>0, SeqMonotonic DEF Thinned
<1>2. /\ rows' \in Seq(Row) /\ Len(q) \in Nat /\ Len(new) \in Nat
      /\ DOMAIN rows' = 1 .. Len(q) + Len(new) /\ DOMAIN q = 1 .. Len(q)
      /\ \A k \in DOMAIN rows' : rows'[k] = IF k <= Len(q) THEN q[k] ELSE new[k - Len(q)]
    <2>1. /\ q \o new \in Seq(Row) /\ Len(q \o new) = Len(q) + Len(new)
          /\ \A k \in 1 .. Len(q) + Len(new) :
                (q \o new)[k] = IF k <= Len(q) THEN q[k] ELSE new[k - Len(q)]
        BY <1>1, ConcatProperties
    <2>2. /\ DOMAIN (q \o new) = 1 .. Len(q \o new) /\ DOMAIN q = 1 .. Len(q)
          /\ Len(q) \in Nat /\ Len(new) \in Nat
        BY <1>1, <2>1, LenProperties
    <2> QED
        BY <2>1, <2>2
<1>3. ASSUME NEW k \in DOMAIN rows', k > Len(q)
      PROVE  Fresh(rows'[k])
    <2>1. k - Len(q) \in 1 .. Len(new) /\ rows'[k] = new[k - Len(q)]
        BY <1>2, <1>3
    <2> QED
        BY <2>1, ElementOfSeq
<1>4. \A k \in DOMAIN rows' : k <= Len(q) => k \in DOMAIN q /\ rows'[k] = q[k]
    BY <1>2
<1>5. \A k \in DOMAIN q : k \in DOMAIN rows' /\ rows'[k] = q[k]
    BY <1>2
<1>t. \A k \in DOMAIN q : \E i \in I : q[k] = rows[i]
    BY DEF Thinned
<1>6. ASSUME NEW k \in DOMAIN rows'
      PROVE  Fresh(rows'[k]) \/ \E i \in I : rows'[k] = rows[i]
    <2>1. CASE k <= Len(q)
        BY <1>4, <1>t, <2>1
    <2>2. CASE ~(k <= Len(q))
        <3>1. k > Len(q)
            BY <1>2, <2>2
        <3> QED
            BY <1>3, <3>1
    <2> QED
        BY <2>1, <2>2
<1>7. \A k, l \in DOMAIN q : k < l => \E i, j \in I : i < j /\ q[k] = rows[i] /\ q[l] = rows[j]
    BY DEF Thinned
<1>8. ASSUME NEW k \in DOMAIN rows', NEW l \in DOMAIN rows', k < l
      PROVE  \/ Fresh(rows'[l])
             \/ \E i, j \in I : i < j /\ rows'[k] = rows[i] /\ rows'[l] = rows[j]
    <2>1. CASE l > Len(q)
        BY <1>3, <2>1
    <2>2. CASE ~(l > Len(q))
        <3>1. k \in DOMAIN q /\ l \in DOMAIN q /\ rows'[k] = q[k] /\ rows'[l] = q[l]
            BY <1>2, <1>8, <2>2
        <3>2. \E i, j \in I : i < j /\ q[k] = rows[i] /\ q[l] = rows[j]
            BY <1>8, <3>1, <1>7
        <3> QED
            BY <3>1, <3>2
    <2> QED
        BY <2>1, <2>2
<1>9. ASSUME NEW j \in I
      PROVE  \E l \in DOMAIN rows' :
                /\ rows'[l] = rows[j]
                /\ \A k \in DOMAIN rows' : k < l => \E i \in I : i < j /\ rows'[k] = rows[i]
    <2>1. PICK l \in DOMAIN q :
              /\ q[l] = rows[j]
              /\ \A k \in DOMAIN q : k < l => \E i \in I : i < j /\ q[k] = rows[i]
        BY DEF Thinned
    <2>2. l \in DOMAIN rows' /\ rows'[l] = rows[j]
        BY <1>5, <2>1
    <2>3. \A k \in DOMAIN rows' : k < l => k \in DOMAIN q /\ rows'[k] = q[k]
        BY <1>2, <2>1
    <2>4. ASSUME NEW k \in DOMAIN rows', k < l
          PROVE  \E i \in I : i < j /\ rows'[k] = rows[i]
        <3>1. k \in DOMAIN q /\ rows'[k] = q[k]
            BY <2>3, <2>4
        <3>2. PICK i \in I : i < j /\ q[k] = rows[i]
            BY <2>1, <2>4, <3>1
        <3> QED
            BY <3>1, <3>2
    <2> QED
        BY <2>2, <2>4
<1> QED
    BY <1>2, <1>6, <1>8, <1>9 DEF Succession

LEMMA OnlyKept ==
    ASSUME NEW I, Thinned(rows', I)
    PROVE  Succession(I)
BY DEF Thinned, Succession

LEMMA AppendedOne ==
    ASSUME rows \in Seq(Row), NEW I, NEW q, Thinned(q, I), NEW r, Fresh(r),
           rows' = Append(q, r)
    PROVE  Succession(I)
<1>1. q \in Seq(Row) /\ r \in Row
    BY DEF Thinned, Fresh
<1>2. rows' = q \o <<r>> /\ <<r>> \in Seq({r})
    BY <1>1
<1> QED
    BY <1>2, Appended

-----------------------------------------------------------------------------
(* What a step does to the rows, the handler and the places.               *)
RowsBase == RowsFit /\ RunningFirst /\ HandlerHasRow /\ PlaceFitsMode

RowFieldsAre == \A r \in Row : /\ r.kind \in {"discover_host", "authorize_warp_takeover",
                                              "reconcile_warp"}
                               /\ r.plan \in 0 .. MaxPlans /\ r.mode \in Modes
                               /\ r.running \in BOOLEAN
                               /\ r.stored \in {"nothing", "succeeded", "failed"}
                               /\ r.found \in Findings

LEMMA RowFields == RowFieldsAre
BY DEF RowFieldsAre, Row

LEMMA RowAt ==
    ASSUME rows \in Seq(Row), NEW i \in DOMAIN rows
    PROVE  rows[i] \in Row /\ i \in Nat
<1>1. DOMAIN rows = 1 .. Len(rows) /\ Len(rows) \in Nat
    BY LenProperties
<1> QED
    BY <1>1, ElementOfSeq

(* The record of an installation, once it is the Agent's, stays that.      *)
LEMMA RecordStays ==
    ASSUME IInv, [Next]_vars
    PROVE  /\ record \in Ours => record' \in Ours
           /\ approved => approved'
<1>. USE DEF files, history, panel, Ours
<1>1. (\E p \in Plans : \E n \in Nodes, warp \in BOOLEAN : CreatePlan(p, n, warp))
          => UNCHANGED <<record, approved>>
    BY DEF CreatePlan
<1>2. (\E p \in Plans : PlanExpires(p) \/ GetPlan(p) \/ Provision(p))
          => UNCHANGED <<record, approved>>
    BY DEF PlanExpires, GetPlan, Provision
<1>3. ASSUME NEW p \in Plans, AuthorizeWarpTakeover(p)
      PROVE  UNCHANGED record /\ approved'
    BY <1>3 DEF AuthorizeWarpTakeover, TakeoverAllowed
<1>4. (\E S \in SUBSET Nodes : Retry(S)) => UNCHANGED <<record, approved>>
    BY DEF Retry
<1>5. (\E n \in Nodes : Publish(n) \/ Reconfigure(n) \/ NodeSettles(n))
          => UNCHANGED <<record, approved>>
    BY DEF Publish, Reconfigure, NodeSettles
<1>6. Hello \/ Heartbeat \/ CheckIsDue \/ Claim \/ Result \/ DeadlineExceeded
      \/ Discover \/ Begin \/ MachineFails \/ OverdueHeartbeat \/ UNCHANGED vars
          => UNCHANGED <<record, approved>>
    BY DEF Hello, Heartbeat, CheckIsDue, Claim, Result, DeadlineExceeded, Discover, Begin,
           MachineFails, OverdueHeartbeat, vars
<1>7. CASE HandlerSteps
    <2>1. VerifyCompatibleExternal \/ Detect3XUI \/ EnsureInstalled \/ Configure \/ EnsureRelay
              \/ Adopt => UNCHANGED <<record, approved>>
        BY DEF VerifyCompatibleExternal, Detect3XUI, EnsureInstalled, Configure, EnsureRelay,
               Adopt
    <2>2. CheckOwnership \/ Persist \/ FillOwnership
              => (record \in Ours => record' \in Ours) /\ UNCHANGED approved
        BY DEF CheckOwnership, Persist, FillOwnership
    <2>3. CreateOwnership \/ Fails
              => (record \in Ours => record' \in Ours) /\ UNCHANGED approved
        BY DEF CreateOwnership, Fails, IInv, PlacesAreBacked
    <2> QED
        BY <1>7, <2>1, <2>2, <2>3 DEF HandlerSteps
<1>8. Disconnect => (record \in Ours => record' \in Ours) /\ UNCHANGED approved
    BY DEF Disconnect, IInv, PlacesAreBacked
<1>9. OthersInstall \/ OthersRemove \/ WarpChanges => UNCHANGED <<record, approved>>
    BY DEF OthersInstall, OthersRemove, WarpChanges
<1>10. ASSUME NEW p \in Plans, \/ \E n \in Nodes, warp \in BOOLEAN : CreatePlan(p, n, warp)
                               \/ PlanExpires(p) \/ GetPlan(p) \/ AuthorizeWarpTakeover(p)
                               \/ Provision(p)
       PROVE  UNCHANGED record /\ (approved => approved')
    BY <1>1, <1>2, <1>3, <1>10
<1>11. CASE HandlerSteps \/ Disconnect
    BY <1>7, <1>8, <1>11
<1>12. CASE \/ \E S \in SUBSET Nodes : Retry(S)
            \/ \E n \in Nodes : Publish(n) \/ Reconfigure(n) \/ NodeSettles(n)
            \/ OthersInstall \/ OthersRemove \/ WarpChanges
            \/ Hello \/ Heartbeat \/ CheckIsDue \/ Claim \/ Result \/ DeadlineExceeded
            \/ Discover \/ Begin \/ MachineFails \/ OverdueHeartbeat \/ UNCHANGED vars
    <2>1. UNCHANGED <<record, approved>>
        BY <1>4, <1>5, <1>6, <1>9, <1>12
    <2> QED
        BY <2>1
<1> QED
    BY <1>10, <1>11, <1>12 DEF Next

RecordKept == (record \in Ours => record' \in Ours) /\ (approved => approved')

(* RowFits of a row after the step.                                        *)
FitsAfter(r) ==
    /\ r.kind = "reconcile_warp" <=> r.mode # "none"
    /\ r.kind = "authorize_warp_takeover" => approved'
    /\ r.stored = "succeeded" /\ r.kind # "discover_host" /\ r.mode # "REUSE_EXTERNAL"
          => record' \in Ours
    /\ r.found \in {"UNHEALTHY_MANAGED", "READY_MANAGED"} => record' \in Ours

LEMMA AllFitAfter ==
    ASSUME \A k \in DOMAIN rows' : FitsAfter(rows'[k])
    PROVE  RowsFit'
BY DEF FitsAfter, RowFits, RowsFit, Ours

(* A row that fits goes on to.                                             *)
LEMMA FitsOn ==
    ASSUME RecordKept, NEW r, RowFits(r)
    PROVE  FitsAfter(r)
BY DEF RecordKept, RowFits, FitsAfter

LEMMA FreshFits ==
    ASSUME NEW r, Fresh(r)
    PROVE  FitsAfter(r) /\ ~r.running
BY DEF Fresh, FitsAfter

(* A step that leaves rows, handler and places alone.                      *)
LEMMA RowsKept ==
    ASSUME RowsBase, UNCHANGED <<rows, session, handler>>, RecordKept
    PROVE  RowsBase'
<1>1. RowsFit' /\ RunningFirst'
    <2>1. \A k \in DOMAIN rows : FitsAfter(rows[k])
        BY FitsOn DEF RowsBase, RowsFit
    <2> QED
        BY <2>1, AllFitAfter DEF RowsBase, RunningFirst
<1>2. HandlerHasRow' /\ PlaceFitsMode'
    BY DEF RowsBase, HandlerHasRow, PlaceFitsMode, Mine, RecordKept
<1> QED
    BY <1>1, <1>2 DEF RowsBase

(* A step that keeps rows and puts new ones behind them.                   *)
LEMMA RowsSucceed ==
    ASSUME rows \in Seq(Row), RowsBase, RecordKept, UNCHANGED session, NEW I \in SUBSET DOMAIN rows,
           Succession(I),
           \/ handler' = handler /\ \A m \in DOMAIN rows : handler # Idle /\ Mine(m) => m \in I
           \/ /\ handler # Idle /\ DOMAIN handler = {"at", "mode", "orphan"}
              /\ handler' = [handler EXCEPT !.orphan = TRUE]
    PROVE  RowsBase'
<1>1. RowsFit'
    <2> SUFFICES ASSUME NEW k \in DOMAIN rows'
                 PROVE  FitsAfter(rows'[k])
        BY AllFitAfter
    <2>1. CASE Fresh(rows'[k])
        BY <2>1, FreshFits
    <2>2. CASE \E i \in I : rows'[k] = rows[i]
        <3>1. PICK i \in I : rows'[k] = rows[i]
            BY <2>2
        <3>2. FitsAfter(rows[i])
            BY FitsOn DEF RowsBase, RowsFit
        <3> QED
            BY <3>1, <3>2
    <2> QED
        BY <2>1, <2>2 DEF Succession
<1>2. RunningFirst'
    <2> SUFFICES ASSUME NEW k \in DOMAIN rows', NEW l \in DOMAIN rows', k < l, rows'[l].running
                 PROVE  rows'[k].running
        BY DEF RunningFirst
    <2>1. ~Fresh(rows'[l])
        BY FreshFits
    <2>2. PICK i \in I, j \in I : i < j /\ rows'[k] = rows[i] /\ rows'[l] = rows[j]
        BY <2>1 DEF Succession
    <2> QED
        BY <2>2 DEF RowsBase, RunningFirst
<1>3. ASSUME handler' # Idle, ~handler'.orphan
      PROVE  handler' = handler
    BY <1>3
<1>4. ASSUME handler' # Idle
      PROVE  handler # Idle
    BY <1>4
<1>5. HandlerHasRow'
    <2> SUFFICES ASSUME handler' # Idle
                 PROVE  /\ session'
                        /\ ~handler'.orphan =>
                              \E l \in DOMAIN rows' : /\ Mine(l)' /\ rows'[l].mode = handler'.mode
                                                      /\ rows'[l].kind # "discover_host"
        BY DEF HandlerHasRow
    <2>1. session'
        BY <1>4 DEF RowsBase, HandlerHasRow
    <2>2. ASSUME ~handler'.orphan
          PROVE  \E l \in DOMAIN rows' : /\ Mine(l)' /\ rows'[l].mode = handler'.mode
                                         /\ rows'[l].kind # "discover_host"
        <3>1. handler' = handler /\ handler # Idle
            BY <1>3, <1>4, <2>2
        <3>2. PICK m \in DOMAIN rows : /\ Mine(m) /\ rows[m].mode = handler.mode
                                       /\ rows[m].kind # "discover_host"
            BY <2>2, <3>1 DEF RowsBase, HandlerHasRow
        <3>3. m \in I
            BY <2>2, <3>1, <3>2
        <3>4. PICK l \in DOMAIN rows' :
                  /\ rows'[l] = rows[m]
                  /\ \A k \in DOMAIN rows' : k < l => \E i \in I : i < m /\ rows'[k] = rows[i]
            BY <3>3 DEF Succession
        <3>5. ASSUME NEW k \in DOMAIN rows', k < l
              PROVE  ~(rows'[k].running /\ rows'[k].stored = "nothing")
            <4>1. PICK i \in I : i < m /\ rows'[k] = rows[i]
                BY <3>4, <3>5
            <4> QED
                BY <3>2, <4>1 DEF Mine
        <3>6. Mine(l)'
            BY <3>2, <3>4, <3>5 DEF Mine
        <3> QED
            BY <3>1, <3>2, <3>4, <3>6
    <2> QED
        BY <2>1, <2>2
<1>6. PlaceFitsMode'
    BY DEF RowsBase, PlaceFitsMode, RecordKept
<1> QED
    BY <1>1, <1>2, <1>5, <1>6 DEF RowsBase

(* The row a handler works on is one.                                      *)
LEMMA MineIsOne ==
    ASSUME rows \in Seq(Row), NEW i \in DOMAIN rows, NEW j \in DOMAIN rows, Mine(i), Mine(j)
    PROVE  i = j
<1>1. i \in Nat /\ j \in Nat
    BY RowAt
<1> QED
    BY <1>1 DEF Mine

(* What a handler's execution returns is stored, and the handler is done.  *)
LEMMA RowsStored ==
    ASSUME rows \in Seq(Row), RowsBase, RecordKept, handler' = Idle,
           NEW outcome \in {"succeeded", "failed"}, NEW found \in Findings,
           Stored(outcome, found),
           outcome = "succeeded" =>
               \A i \in DOMAIN rows :
                   Mine(i) /\ rows[i].kind # "discover_host" /\ rows[i].mode # "REUSE_EXTERNAL"
                       => record' \in Ours,
           found \in {"UNHEALTHY_MANAGED", "READY_MANAGED"} => record' \in Ours
    PROVE  RowsBase' /\ rows' \in Seq(Row)
<1>1. /\ DOMAIN rows = 1 .. Len(rows) /\ Len(rows) \in Nat /\ DOMAIN rows' = DOMAIN rows
      /\ \A i \in DOMAIN rows : rows[i] \in Row
    BY LenProperties, RowAt DEF Stored
<1>2. \A i \in DOMAIN rows :
          rows'[i] = IF Mine(i) THEN [rows[i] EXCEPT !.stored = outcome, !.found = found]
                                ELSE rows[i]
    BY DEF Stored
<1>3. ASSUME NEW i \in DOMAIN rows
      PROVE  rows'[i] \in Row /\ rows'[i].running = rows[i].running
    <2>1. CASE Mine(i)
        <3>1. rows'[i] = [rows[i] EXCEPT !.stored = outcome, !.found = found]
            BY <1>2, <2>1
        <3> QED
            BY <1>1, <3>1 DEF Row
    <2>2. CASE ~Mine(i)
        BY <1>1, <1>2, <2>2
    <2> QED
        BY <2>1, <2>2
<1>4. rows' \in Seq(Row)
    <2>1. rows' \in [1 .. Len(rows) -> Row]
        BY <1>1, <1>3 DEF Stored
    <2> QED
        BY <1>1, <2>1, SeqDef
<1>5. ASSUME NEW i \in DOMAIN rows
      PROVE  FitsAfter(rows'[i])
    <2>1. RowFits(rows[i])
        BY DEF RowsBase, RowsFit
    <2>2. CASE Mine(i)
        <3>1. /\ rows'[i].kind = rows[i].kind /\ rows'[i].mode = rows[i].mode
              /\ rows'[i].stored = outcome /\ rows'[i].found = found
            BY <1>1, <1>2, <2>2 DEF Row
        <3> QED
            BY <2>1, <2>2, <3>1 DEF RowFits, FitsAfter, RecordKept
    <2>3. CASE ~Mine(i)
        <3>1. FitsAfter(rows[i])
            BY <2>1, FitsOn
        <3> QED
            BY <1>2, <2>3, <3>1
    <2> QED
        BY <2>2, <2>3
<1>6. RowsFit' /\ RunningFirst'
    BY <1>1, <1>3, <1>5, AllFitAfter DEF RowsBase, RunningFirst
<1>7. HandlerHasRow' /\ PlaceFitsMode'
    BY DEF HandlerHasRow, PlaceFitsMode
<1> QED
    BY <1>4, <1>6, <1>7 DEF RowsBase

-----------------------------------------------------------------------------
(* The rows of each step.                                                  *)
LEMMA CommandIsFresh ==
    ASSUME NEW kind \in {"discover_host", "authorize_warp_takeover", "reconcile_warp"},
           NEW p \in 0 .. MaxPlans, NEW mode \in Modes,
           kind = "reconcile_warp" <=> mode # "none",
           kind = "authorize_warp_takeover" => approved'
    PROVE  Fresh(Command(kind, p, mode))
BY DEF Fresh, Command, Row, Findings

LEMMA WarpRowIsFresh ==
    ASSUME NEW mode \in Modes
    PROVE  \E F : (\A r \in F : Fresh(r)) /\ WarpRow(mode) \in Seq(F)
<1> DEFINE r == Command("reconcile_warp", 0, mode)
<1>1. CASE mode = "none"
    <2>1. WarpRow(mode) \in Seq({})
        BY <1>1 DEF WarpRow
    <2> QED
        BY <2>1
<1>2. CASE mode # "none"
    <2>1. 0 \in 0 .. MaxPlans
        BY WarpBounds
    <2>2. Fresh(r)
        BY <1>2, <2>1, CommandIsFresh
    <2>3. WarpRow(mode) = <<r>>
        BY <1>2 DEF WarpRow
    <2> HIDE DEF r
    <2>4. <<r>> \in Seq({r})
        OBVIOUS
    <2>5. (\A c \in {r} : Fresh(c)) /\ WarpRow(mode) \in Seq({r})
        BY <2>2, <2>3, <2>4
    <2> QED
        BY <2>5
<1> QED
    BY <1>1, <1>2

LEMMA WarpRowAppended ==
    ASSUME rows \in Seq(Row), NEW mode \in Modes, rows' = rows \o WarpRow(mode)
    PROVE  Succession(DOMAIN rows)
<1>1. PICK F : (\A r \in F : Fresh(r)) /\ WarpRow(mode) \in Seq(F)
    BY WarpRowIsFresh
<1>2. Thinned(rows, DOMAIN rows)
    BY AllRows
<1> QED
    BY <1>1, <1>2, Appended

RowsGoOn == RowsBase' /\ rows' \in Seq(Row)

LEMMA RowsJustKept ==
    ASSUME rows \in Seq(Row), RowsBase, RecordKept, UNCHANGED <<rows, session, handler>>
    PROVE  RowsGoOn
BY RowsKept DEF RowsGoOn

LEMMA RowsAdded ==
    ASSUME rows \in Seq(Row), RowsBase, RecordKept, UNCHANGED <<session, handler>>,
           Succession(DOMAIN rows)
    PROVE  RowsGoOn
<1>1. rows' \in Seq(Row)
    BY DEF Succession
<1> QED
    BY <1>1, RowsSucceed DEF RowsGoOn

LEMMA EnsureAdds ==
    ASSUME rows \in Seq(Row), TypeOK, NEW force,
           EnsureWarpCommand(rows, force) \/ EnsureBesideOverdue(rows, force)
    PROVE  Succession(DOMAIN rows)
<1>1. CASE rows' = rows
    BY <1>1, AllRows, OnlyKept
<1>2. ASSUME NEW n \in WarpNodes, rows' = rows \o WarpRow(node[n].mode)
      PROVE  Succession(DOMAIN rows)
    <2>1. node[n].mode \in Modes
        BY DEF TypeOK, WarpNodes
    <2> QED
        BY <1>2, <2>1, WarpRowAppended
<1> QED
    BY <1>1, <1>2 DEF EnsureWarpCommand, EnsureBesideOverdue, QueuesWarp

LEMMA CreatePlanRows ==
    ASSUME rows \in Seq(Row), RowsBase, NEW p \in Plans, NEW n, NEW warp,
           CreatePlan(p, n, warp), RecordKept
    PROVE  RowsGoOn
<1> DEFINE Kept(r) == r.running \/ r.plan = 0 \/ ~Live(r.plan)
           I == {i \in DOMAIN rows : Kept(rows[i])}
           q == Subsequence(rows, I)
           c == Command("discover_host", p, "none")
<1>1. rows' = Append(q, c) /\ UNCHANGED <<session, handler, record, approved>>
    BY DEF CreatePlan, files, history
<1>2. Thinned(q, I)
    BY ThinnedSubsequence
<1>3. Fresh(c)
    <2>1. p \in 0 .. MaxPlans
        BY WarpBounds DEF Plans
    <2> QED
        BY <2>1, CommandIsFresh DEF Modes
<1> HIDE DEF c, q
<1>4. Succession(I)
    BY <1>1, <1>2, <1>3, AppendedOne
<1>5. \A m \in DOMAIN rows : Mine(m) => m \in I
    BY DEF Mine
<1>6. rows' \in Seq(Row)
    BY <1>4 DEF Succession
<1> HIDE DEF I
<1>7. I \subseteq DOMAIN rows
    BY DEF I
<1> QED
    BY <1>1, <1>4, <1>5, <1>6, <1>7, RowsSucceed DEF RowsGoOn

LEMMA AuthorizeRows ==
    ASSUME rows \in Seq(Row), RowsBase, NEW p \in Plans, AuthorizeWarpTakeover(p), RecordKept
    PROVE  RowsGoOn
<1> DEFINE c == Command("authorize_warp_takeover", p, "none")
<1>1. /\ rows' = Append(rows, c) /\ UNCHANGED <<session, handler>>
      /\ approved'
    BY DEF AuthorizeWarpTakeover, TakeoverAllowed
<1>2. Fresh(c)
    <2>1. p \in 0 .. MaxPlans
        BY WarpBounds DEF Plans
    <2> QED
        BY <1>1, <2>1, CommandIsFresh DEF Modes
<1> HIDE DEF c
<1>3. Succession(DOMAIN rows)
    BY <1>1, <1>2, AllRows, AppendedOne
<1> QED
    BY <1>1, <1>3, RowsAdded

LEMMA ModesOfPlans ==
    ASSUME NEW p
    PROVE  ModeFor(p) \in Modes
BY DEF ModeFor, Modes

LEMMA ProvisionRows ==
    ASSUME rows \in Seq(Row), RowsBase, NEW p \in Plans, Provision(p), RecordKept
    PROVE  RowsGoOn
<1>1. rows' = rows \o WarpRow(ModeFor(p)) /\ UNCHANGED <<session, handler>>
    BY DEF Provision
<1>2. Succession(DOMAIN rows)
    BY <1>1, ModesOfPlans, WarpRowAppended
<1> QED
    BY <1>1, <1>2, RowsAdded

LEMMA RetryRows ==
    ASSUME TypeOK, RowsBase, NEW S \in SUBSET Nodes, Retry(S), RecordKept
    PROVE  RowsGoOn
<1>1. rows \in Seq(Row) /\ UNCHANGED <<session, handler>>
    BY DEF TypeOK, Retry
<1>2. CASE UNCHANGED rows
    BY <1>1, <1>2, RowsJustKept
<1>3. ASSUME NEW n \in S, rows' = rows \o WarpRow(node[n].mode)
      PROVE  RowsGoOn
    <2>1. node[n].mode \in Modes
        BY DEF TypeOK
    <2> QED
        BY <1>1, <1>3, <2>1, WarpRowAppended, RowsAdded
<1>4. UNCHANGED rows \/ \E n \in S : rows' = rows \o WarpRow(node[n].mode)
    BY DEF Retry
<1> QED
    BY <1>2, <1>3, <1>4

LEMMA HeartbeatRows ==
    ASSUME TypeOK, RowsBase, Heartbeat, RecordKept
    PROVE  RowsGoOn
<1>1. rows \in Seq(Row) /\ UNCHANGED <<session, handler>> /\ EnsureWarpCommand(rows, FALSE)
    BY DEF TypeOK, Heartbeat
<1> QED
    BY <1>1, EnsureAdds, RowsAdded

LEMMA OverdueRows ==
    ASSUME TypeOK, RowsBase, OverdueHeartbeat, RecordKept
    PROVE  RowsGoOn
<1>1. rows \in Seq(Row) /\ UNCHANGED <<session, handler>> /\ EnsureBesideOverdue(rows, FALSE)
    BY DEF TypeOK, OverdueHeartbeat
<1> QED
    BY <1>1, EnsureAdds, RowsAdded

(* What runs is kept when a Machine fails, in its order.                   *)
Runs == {i \in DOMAIN rows : rows[i].running}

LEMMA MachineFailsKeeps ==
    ASSUME rows \in Seq(Row), MachineFails
    PROVE  Succession(Runs) /\ Runs \in SUBSET DOMAIN rows
<1>1. rows' = Subsequence(rows, Runs)
    BY DEF MachineFails, Runs
<1>2. Runs \in SUBSET DOMAIN rows
    BY DEF Runs
<1>3. Thinned(rows', Runs)
    BY <1>1, <1>2, ThinnedSubsequence
<1> QED
    BY <1>2, <1>3, OnlyKept

LEMMA MachineFailsRows ==
    ASSUME rows \in Seq(Row), RowsBase, MachineFails, RecordKept
    PROVE  RowsGoOn
<1>1. Succession(Runs) /\ Runs \in SUBSET DOMAIN rows
    BY MachineFailsKeeps
<1>2. UNCHANGED <<session, handler>>
    BY DEF MachineFails
<1>3. \A m \in DOMAIN rows : Mine(m) => m \in Runs
    BY DEF Mine, Runs
<1>4. rows' \in Seq(Row)
    BY <1>1 DEF Succession
<1> QED
    BY <1>1, <1>2, <1>3, <1>4, RowsSucceed DEF RowsGoOn

(* After a hello no row runs.                                              *)
LEMMA HelloRows ==
    ASSUME TypeOK, RowsBase, Hello, RecordKept
    PROVE  RowsGoOn
<1> DEFINE q == [i \in DOMAIN rows |-> [rows[i] EXCEPT !.running = FALSE]]
<1>1. rows \in Seq(Row) /\ handler = Idle /\ handler' = Idle
    BY DEF TypeOK, Hello, RowsBase, HandlerHasRow
<1>2. /\ DOMAIN rows = 1 .. Len(rows) /\ Len(rows) \in Nat
      /\ \A i \in DOMAIN rows : rows[i] \in Row /\ RowFits(rows[i])
    BY <1>1, LenProperties, RowAt DEF RowsBase, RowsFit
<1>3. \A i \in DOMAIN rows : /\ q[i] \in Row /\ ~q[i].running /\ q[i].kind = rows[i].kind
                             /\ q[i].mode = rows[i].mode /\ q[i].stored = rows[i].stored
                             /\ q[i].found = rows[i].found
    BY <1>2 DEF Row
<1>4. q \in Seq(Row)
    <2>1. q \in [1 .. Len(rows) -> Row]
        BY <1>2, <1>3
    <2> QED
        BY <1>2, <2>1, SeqDef
<1>5. \A i \in DOMAIN q : q[i] \in Row /\ ~q[i].running /\ FitsAfter(q[i])
    <2> SUFFICES ASSUME NEW i \in DOMAIN rows
                 PROVE  q[i] \in Row /\ ~q[i].running /\ FitsAfter(q[i])
        OBVIOUS
    <2>1. FitsAfter(rows[i])
        BY <1>2, FitsOn
    <2> HIDE DEF q
    <2> QED
        BY <1>3, <2>1 DEF FitsAfter
<1>6. DOMAIN q = 1 .. Len(q) /\ Len(q) \in Nat
    BY <1>4, LenProperties
<1>7. EnsureWarpCommand(q, TRUE) \/ EnsureBesideOverdue(q, TRUE)
    BY DEF Hello
<1> HIDE DEF q
<1>8. ASSUME NEW n \in WarpNodes, rows' = q \o WarpRow(node[n].mode)
      PROVE  /\ rows' \in Seq(Row)
             /\ \A k \in DOMAIN rows' : ~rows'[k].running /\ FitsAfter(rows'[k])
    <2> DEFINE new == WarpRow(node[n].mode)
    <2>1. node[n].mode \in Modes
        BY DEF TypeOK, WarpNodes
    <2>2. PICK F : (\A r \in F : Fresh(r)) /\ new \in Seq(F)
        BY <2>1, WarpRowIsFresh
    <2> HIDE DEF new
    <2>3. new \in Seq(Row)
        <3>1. F \subseteq Row
            BY <2>2 DEF Fresh
        <3> QED
            BY <2>2, <3>1, SeqMonotonic
    <2>4. /\ rows' \in Seq(Row) /\ Len(q) \in Nat /\ Len(new) \in Nat
          /\ DOMAIN rows' = 1 .. Len(q) + Len(new)
          /\ \A k \in 1 .. Len(q) + Len(new) :
                 rows'[k] = IF k <= Len(q) THEN q[k] ELSE new[k - Len(q)]
        <3>1. rows' = q \o new
            BY <1>8 DEF new
        <3>2. /\ q \o new \in Seq(Row) /\ Len(q \o new) = Len(q) + Len(new)
              /\ \A k \in 1 .. Len(q) + Len(new) :
                     (q \o new)[k] = IF k <= Len(q) THEN q[k] ELSE new[k - Len(q)]
            BY <1>4, <2>3, ConcatProperties
        <3>3. DOMAIN (q \o new) = 1 .. Len(q \o new) /\ Len(q) \in Nat /\ Len(new) \in Nat
            BY <1>4, <2>3, <3>2, LenProperties
        <3> QED
            BY <3>1, <3>2, <3>3
    <2>5. ASSUME NEW k \in DOMAIN rows'
          PROVE  ~rows'[k].running /\ FitsAfter(rows'[k])
        <3>1. CASE k <= Len(q)
            BY <1>5, <1>6, <2>4, <3>1
        <3>2. CASE ~(k <= Len(q))
            <4>1. k - Len(q) \in 1 .. Len(new) /\ rows'[k] = new[k - Len(q)]
                BY <2>4, <3>2
            <4>2. new[k - Len(q)] \in F
                BY <2>2, <4>1, ElementOfSeq
            <4> QED
                BY <2>2, <4>1, <4>2, FreshFits
        <3> QED
            BY <3>1, <3>2
    <2> QED
        BY <2>4, <2>5
<1>9. rows' \in Seq(Row) /\ \A k \in DOMAIN rows' : ~rows'[k].running /\ FitsAfter(rows'[k])
    BY <1>4, <1>5, <1>7, <1>8 DEF EnsureWarpCommand, EnsureBesideOverdue, QueuesWarp
<1>10. RowsFit' /\ RunningFirst'
    BY <1>9, AllFitAfter DEF RunningFirst
<1>11. HandlerHasRow' /\ PlaceFitsMode'
    BY <1>1 DEF HandlerHasRow, PlaceFitsMode
<1> QED
    BY <1>9, <1>10, <1>11 DEF RowsBase, RowsGoOn

(* The first row that does not run is claimed.                             *)
LEMMA ClaimRows ==
    ASSUME rows \in Seq(Row), RowsBase, Claim, RecordKept
    PROVE  RowsGoOn
<1>1. PICK i \in DOMAIN rows : /\ ~rows[i].running
                               /\ \A j \in DOMAIN rows : j < i => rows[j].running
                               /\ rows' = [rows EXCEPT ![i].running = TRUE]
    BY DEF Claim
<1>2. /\ DOMAIN rows = 1 .. Len(rows) /\ Len(rows) \in Nat /\ DOMAIN rows' = DOMAIN rows
      /\ \A j \in DOMAIN rows : rows[j] \in Row /\ RowFits(rows[j])
      /\ UNCHANGED <<session, handler>>
    BY <1>1, LenProperties, RowAt DEF RowsBase, RowsFit, Claim
<1>3. \A j \in DOMAIN rows : j # i => rows'[j] = rows[j]
    BY <1>1
<1>4. /\ rows'[i] \in Row /\ rows'[i].running /\ rows'[i].kind = rows[i].kind
      /\ rows'[i].mode = rows[i].mode /\ rows'[i].stored = rows[i].stored
      /\ rows'[i].found = rows[i].found
    <2>1. rows'[i] = [rows[i] EXCEPT !.running = TRUE]
        BY <1>1
    <2> QED
        BY <1>2, <2>1 DEF Row
<1>5. rows' \in Seq(Row)
    <2>1. rows' \in [1 .. Len(rows) -> Row]
        BY <1>1, <1>2, <1>3, <1>4
    <2> QED
        BY <1>2, <2>1, SeqDef
<1>6. ASSUME NEW j \in DOMAIN rows
      PROVE  FitsAfter(rows'[j])
    <2>1. FitsAfter(rows[j])
        BY <1>2, FitsOn
    <2> QED
        BY <1>3, <1>4, <2>1 DEF FitsAfter
<1>7. RowsFit'
    BY <1>2, <1>6, AllFitAfter
<1>8. RunningFirst'
    <2> SUFFICES ASSUME NEW k \in DOMAIN rows, NEW l \in DOMAIN rows, k < l, rows'[l].running
                 PROVE  rows'[k].running
        BY <1>2 DEF RunningFirst
    <2>1. CASE l = i
        BY <1>1, <1>3, <1>2, <2>1
    <2>2. CASE l # i
        BY <1>3, <1>4, <2>2 DEF RowsBase, RunningFirst
    <2> QED
        BY <2>1, <2>2
<1>9. HandlerHasRow'
    <2> SUFFICES ASSUME handler # Idle, ~handler.orphan
                 PROVE  \E l \in DOMAIN rows' : /\ Mine(l)' /\ rows'[l].mode = handler.mode
                                                /\ rows'[l].kind # "discover_host"
        BY <1>2 DEF RowsBase, HandlerHasRow
    <2>1. PICK m \in DOMAIN rows : /\ Mine(m) /\ rows[m].mode = handler.mode
                                   /\ rows[m].kind # "discover_host"
        BY DEF RowsBase, HandlerHasRow
    <2>2. m # i /\ rows[m].running
        BY <1>1, <2>1 DEF Mine
    <2>3. m < i
        BY <1>1, <1>2, <2>2 DEF RowsBase, RunningFirst
    <2>4. \A j \in DOMAIN rows : j < m => rows'[j] = rows[j]
        BY <1>2, <1>3, <2>3
    <2>5. rows'[m] = rows[m] /\ m \in DOMAIN rows'
        BY <1>2, <1>3, <2>2
    <2>6. Mine(m)'
        BY <1>2, <2>1, <2>4, <2>5 DEF Mine
    <2> QED
        BY <2>1, <2>5, <2>6
<1>10. PlaceFitsMode'
    BY <1>2 DEF RowsBase, PlaceFitsMode, RecordKept
<1> QED
    BY <1>5, <1>7, <1>8, <1>9, <1>10 DEF RowsBase, RowsGoOn

(* A row is gone, and the handler does not work for it any more.           *)
LEMMA WithoutRows ==
    ASSUME rows \in Seq(Row), RowsBase, RecordKept, UNCHANGED session,
           NEW i \in DOMAIN rows, rows' = Without(i),
           \/ handler' = handler /\ (handler # Idle => ~Mine(i))
           \/ /\ handler # Idle /\ DOMAIN handler = {"at", "mode", "orphan"}
              /\ handler' = [handler EXCEPT !.orphan = TRUE]
    PROVE  RowsGoOn
<1> DEFINE I == DOMAIN rows \ {i}
<1>1. Thinned(rows', I)
    BY ThinnedWithout
<1>2. Succession(I)
    BY <1>1, OnlyKept
<1>3. rows' \in Seq(Row)
    BY <1>2 DEF Succession
<1> QED
    BY <1>2, <1>3, RowsSucceed DEF RowsGoOn

LEMMA ResultRows ==
    ASSUME rows \in Seq(Row), RowsBase, Result, RecordKept
    PROVE  RowsGoOn
<1>1. PICK i \in DOMAIN rows : rows[i].stored # "nothing" /\ rows' = Without(i)
    BY DEF Result
<1>2. ~Mine(i) /\ UNCHANGED <<session, handler>>
    BY <1>1 DEF Mine, Result
<1> QED
    BY <1>1, <1>2, WithoutRows

LEMMA DeadlineRows ==
    ASSUME rows \in Seq(Row), RowsBase, HandlerHasPlace, DeadlineExceeded, RecordKept
    PROVE  RowsGoOn
<1>1. PICK i \in DOMAIN rows :
          /\ rows' = Without(i)
          /\ handler' = IF Mine(i) /\ handler # Idle THEN [handler EXCEPT !.orphan = TRUE]
                                                     ELSE handler
    BY DEF DeadlineExceeded
<1>2. UNCHANGED session
    BY DEF DeadlineExceeded
<1>3. CASE Mine(i) /\ handler # Idle
    <2>1. DOMAIN handler = {"at", "mode", "orphan"} /\ handler' = [handler EXCEPT !.orphan = TRUE]
        BY <1>1, <1>3 DEF HandlerHasPlace
    <2> QED
        BY <1>1, <1>2, <1>3, <2>1, WithoutRows
<1>4. CASE ~(Mine(i) /\ handler # Idle)
    BY <1>1, <1>2, <1>4, WithoutRows
<1> QED
    BY <1>3, <1>4

LEMMA DiscoverRows ==
    ASSUME rows \in Seq(Row), RowsBase, Discover, RecordKept
    PROVE  RowsGoOn
<1>1. PICK i \in DOMAIN rows :
          /\ Mine(i) /\ rows[i].kind = "discover_host"
          /\ \/ Stored("succeeded", IF plan[rows[i].plan].warp THEN Inspected
                                                               ELSE "NOT_REQUIRED")
             \/ Stored("failed", "unknown")
    BY DEF Discover
<1>2. handler' = Idle /\ UNCHANGED record
    BY DEF Discover, files
<1>3. PICK outcome \in {"succeeded", "failed"},
           found \in {Inspected, "NOT_REQUIRED", "unknown"} : Stored(outcome, found)
    BY <1>1
<1>4. /\ found \in Findings
      /\ found \in {"UNHEALTHY_MANAGED", "READY_MANAGED"} => record' \in Ours
    BY <1>2, <1>3 DEF Inspected, Findings
<1>5. \A j \in DOMAIN rows : Mine(j) => rows[j].kind = "discover_host"
    BY <1>1, MineIsOne
<1>6. outcome = "succeeded" =>
          \A j \in DOMAIN rows :
              Mine(j) /\ rows[j].kind # "discover_host" /\ rows[j].mode # "REUSE_EXTERNAL"
                  => record' \in Ours
    BY <1>5
<1>7. RowsBase' /\ rows' \in Seq(Row)
    BY <1>2, <1>3, <1>4, <1>6, RowsStored
<1> QED
    BY <1>7 DEF RowsGoOn

LEMMA BeginRows ==
    ASSUME rows \in Seq(Row), RowsBase, Begin, RecordKept
    PROVE  RowsGoOn
<1>1. PICK i \in DOMAIN rows :
          /\ Mine(i) /\ rows[i].kind # "discover_host"
          /\ handler' = [at |-> CASE rows[i].mode = "none" -> "adopt"
                                  [] rows[i].mode = "REUSE_EXTERNAL" -> "verify"
                                  [] OTHER -> "detect",
                         mode |-> rows[i].mode, orphan |-> FALSE]
    BY DEF Begin
<1>2. UNCHANGED <<rows, session>> /\ session
    BY DEF Begin
<1>3. RowsFit' /\ RunningFirst'
    <2>1. \A k \in DOMAIN rows : FitsAfter(rows[k])
        BY FitsOn DEF RowsBase, RowsFit
    <2> QED
        BY <1>2, <2>1, AllFitAfter DEF RowsBase, RunningFirst
<1>4. Mine(i)'
    BY <1>1, <1>2 DEF Mine
<1>5. handler'.mode = rows[i].mode /\ handler'.at \in {"adopt", "verify", "detect"}
      /\ (handler'.at = "adopt" <=> rows[i].mode = "none")
      /\ (handler'.at = "verify" <=> rows[i].mode = "REUSE_EXTERNAL")
    BY <1>1
<1>6. HandlerHasRow'
    BY <1>1, <1>2, <1>4, <1>5 DEF HandlerHasRow
<1>7. PlaceFitsMode'
    BY <1>5 DEF PlaceFitsMode
<1> QED
    BY <1>2, <1>3, <1>6, <1>7 DEF RowsBase, RowsGoOn

(* A handler that moves on, and one that ends.                             *)
LEMMA GotoRows ==
    ASSUME rows \in Seq(Row), RowsBase, HandlerHasPlace, RecordKept, UNCHANGED session,
           handler # Idle, NEW place, Goto(place),
           place \in {"adopt", "create", "fill"} <=> handler.at \in {"adopt", "create", "fill"},
           place # "verify",
           place = "relay" /\ handler.at # "verify" => record' \in Ours
    PROVE  RowsGoOn
<1>1. /\ UNCHANGED rows /\ handler'.at = place /\ handler'.mode = handler.mode
      /\ handler'.orphan = handler.orphan
    BY DEF Goto, HandlerHasPlace
<1>2. RowsFit' /\ RunningFirst'
    <2>1. \A k \in DOMAIN rows : FitsAfter(rows[k])
        BY FitsOn DEF RowsBase, RowsFit
    <2> QED
        BY <1>1, <2>1, AllFitAfter DEF RowsBase, RunningFirst
<1>3. HandlerHasRow' /\ PlaceFitsMode'
    BY <1>1 DEF RowsBase, HandlerHasRow, PlaceFitsMode, Mine
<1> QED
    BY <1>1, <1>2, <1>3 DEF RowsBase, RowsGoOn

LEMMA EndsRows ==
    ASSUME rows \in Seq(Row), RowsBase, RecordKept, handler # Idle,
           NEW outcome \in {"succeeded", "failed"}, Ends(outcome),
           outcome = "succeeded" /\ handler.mode # "REUSE_EXTERNAL" => record' \in Ours
    PROVE  RowsGoOn
<1>1. handler' = Idle /\ "unknown" \in Findings
    BY DEF Ends, Findings
<1>2. CASE handler.orphan
    <2>1. UNCHANGED rows /\ \A k \in DOMAIN rows : FitsAfter(rows[k])
        BY <1>2, FitsOn DEF Ends, RowsBase, RowsFit
    <2>2. RowsFit' /\ RunningFirst'
        BY <2>1, AllFitAfter DEF RowsBase, RunningFirst
    <2>3. HandlerHasRow' /\ PlaceFitsMode'
        BY <1>1 DEF HandlerHasRow, PlaceFitsMode
    <2> QED
        BY <2>1, <2>2, <2>3 DEF RowsBase, RowsGoOn
<1>3. CASE ~handler.orphan
    <2>1. PICK m \in DOMAIN rows : Mine(m) /\ rows[m].mode = handler.mode
        BY <1>3 DEF RowsBase, HandlerHasRow
    <2>2. \A i \in DOMAIN rows : Mine(i) => rows[i].mode = handler.mode
        BY <2>1, MineIsOne
    <2>3. Stored(outcome, "unknown")
        BY <1>3 DEF Ends
    <2>4. outcome = "succeeded" =>
              \A i \in DOMAIN rows :
                  Mine(i) /\ rows[i].kind # "discover_host" /\ rows[i].mode # "REUSE_EXTERNAL"
                      => record' \in Ours
        BY <2>2
    <2>5. RowsBase' /\ rows' \in Seq(Row)
        BY <1>1, <2>3, <2>4, RowsStored
    <2> QED
        BY <2>5 DEF RowsGoOn
<1> QED
    BY <1>2, <1>3

LEMMA HandlerRows ==
    ASSUME rows \in Seq(Row), RowsBase, IInv, HandlerSteps, RecordKept
    PROVE  RowsGoOn
<1>0. handler # Idle /\ HandlerHasPlace /\ UNCHANGED session
    BY DEF HandlerSteps, At, VerifyCompatibleExternal, Detect3XUI, CheckOwnership,
           EnsureInstalled, Configure, Persist, EnsureRelay, Adopt, CreateOwnership,
           FillOwnership, Fails, IInv
<1>1. CASE VerifyCompatibleExternal
    <2>1. Goto("relay") /\ handler.at = "verify"
        BY <1>1 DEF VerifyCompatibleExternal, At
    <2> QED
        BY <1>0, <2>1, GotoRows
<1>2. CASE Detect3XUI
    <2>1. Goto("own") /\ handler.at = "detect"
        BY <1>2 DEF Detect3XUI, At
    <2> QED
        BY <1>0, <2>1, GotoRows
<1>3. CASE CheckOwnership
    <2>1. Goto("install") /\ handler.at = "own"
        BY <1>3 DEF CheckOwnership, At
    <2> QED
        BY <1>0, <2>1, GotoRows
<1>4. CASE EnsureInstalled
    <2>1. Goto("configure") /\ handler.at = "install"
        BY <1>4 DEF EnsureInstalled, At
    <2> QED
        BY <1>0, <2>1, GotoRows
<1>5. CASE Configure
    <2>1. Goto("persist") /\ handler.at = "configure"
        BY <1>5 DEF Configure, At
    <2> QED
        BY <1>0, <2>1, GotoRows
<1>6. CASE Persist
    <2>1. Goto("relay") /\ handler.at = "persist" /\ record' \in Ours
        BY <1>6 DEF Persist, At, Ours
    <2> QED
        BY <1>0, <2>1, GotoRows
<1>7. CASE EnsureRelay
    <2>1. Ends("succeeded") /\ handler.at = "relay" /\ UNCHANGED record
        BY <1>7 DEF EnsureRelay, At
    <2>2. handler.mode # "REUSE_EXTERNAL" => record' \in Ours
        BY <1>0, <2>1 DEF RowsBase, PlaceFitsMode
    <2> QED
        BY <1>0, <2>1, <2>2, EndsRows
<1>8. CASE Adopt
    <2>1. handler.at = "adopt" /\ UNCHANGED record
        BY <1>8 DEF Adopt, At, files
    <2>2. CASE record \in {"MANAGED", "ADOPTED"} /\ Ends("succeeded")
        BY <1>0, <2>1, <2>2, EndsRows DEF Ours
    <2>3. CASE Goto("create")
        BY <1>0, <2>1, <2>3, GotoRows
    <2> QED
        BY <1>8, <2>2, <2>3 DEF Adopt
<1>9. CASE CreateOwnership
    <2>1. Goto("fill") /\ handler.at = "create"
        BY <1>9 DEF CreateOwnership, At
    <2> QED
        BY <1>0, <2>1, GotoRows
<1>10. CASE FillOwnership
    <2>1. Ends("succeeded") /\ record' \in Ours
        BY <1>10 DEF FillOwnership, Ours
    <2> QED
        BY <1>0, <2>1, EndsRows
<1>11. CASE Fails
    <2>1. Ends("failed")
        BY <1>11 DEF Fails
    <2> QED
        BY <1>0, <2>1, EndsRows
<1> QED
    BY <1>1, <1>2, <1>3, <1>4, <1>5, <1>6, <1>7, <1>8, <1>9, <1>10, <1>11 DEF HandlerSteps

LEMMA DisconnectRows ==
    ASSUME rows \in Seq(Row), RowsBase, Disconnect, RecordKept
    PROVE  RowsGoOn
<1>1. handler' = Idle /\ "unknown" \in Findings
    BY DEF Disconnect, Findings
<1>2. CASE Stored("failed", "unknown")
    BY <1>1, <1>2, RowsStored DEF RowsGoOn
<1>3. CASE UNCHANGED rows
    <2>1. \A k \in DOMAIN rows : FitsAfter(rows[k])
        BY FitsOn DEF RowsBase, RowsFit
    <2>2. RowsFit' /\ RunningFirst'
        BY <1>3, <2>1, AllFitAfter DEF RowsBase, RunningFirst
    <2>3. HandlerHasRow' /\ PlaceFitsMode'
        BY <1>1 DEF HandlerHasRow, PlaceFitsMode
    <2> QED
        BY <1>3, <2>2, <2>3 DEF RowsBase, RowsGoOn
<1> QED
    BY <1>2, <1>3 DEF Disconnect

-----------------------------------------------------------------------------
(* Types.                                                                  *)
PlanRecords == [status : {"none", "PENDING", "READY", "BLOCKED", "APPLIED", "EXPIRED", "FAILED"},
                node : Nodes, warp : BOOLEAN, takeover : BOOLEAN, late : BOOLEAN,
                found : Findings]
NodeRecords == [state : States, published : BOOLEAN, mode : Modes, busy : BOOLEAN]

PlansTyped == plan \in [Plans -> PlanRecords]
NodesTyped == node \in [Nodes -> NodeRecords]
WarpTyped ==
    /\ warpStatus \in {"DISABLED", "INSTALLING", "CONNECTED", "FAILED"}
    /\ warpOwnership \in {"UNASSESSED", "ABSENT", "EXTERNAL", "MANAGED", "CONFLICT", "ADOPTED"}
    /\ due \in BOOLEAN
PanelTyped == PlansTyped /\ NodesTyped /\ WarpTyped
AgentTyped ==
    /\ session \in BOOLEAN
    /\ handler \in Handling \cup {Idle}
    /\ record \in Ours \cup {"absent", "unreadable"}
    /\ cli \in BOOLEAN /\ works \in BOOLEAN /\ relay \in BOOLEAN /\ xui \in BOOLEAN
    /\ works => cli
CountersTyped ==
    /\ requests \in 0 .. MaxRequests /\ faults \in 0 .. MaxFaults
    /\ events \in 0 .. MaxEvents
HistoryTyped ==
    /\ theirs \in BOOLEAN /\ approved \in BOOLEAN /\ intruded \in BOOLEAN
    /\ swept \subseteq Plans

LEMMA TypeParts ==
    TypeOK <=> /\ PanelTyped /\ rows \in Seq(Row) /\ AgentTyped /\ CountersTyped /\ HistoryTyped
BY DEF TypeOK, PanelTyped, PlansTyped, PlanRecords, NodesTyped, NodeRecords, WarpTyped,
       AgentTyped, CountersTyped, HistoryTyped

(* The panel books the end of a command.                                   *)
LEMMA FailingTyped ==
    ASSUME TypeOK, NEW r \in Row, Failing(r)
    PROVE  PanelTyped'
<1>1. PlansTyped /\ NodesTyped /\ WarpTyped
    BY TypeParts DEF PanelTyped
<1>2. CASE r.kind = "reconcile_warp"
    <2>1. NodesTyped'
        BY <1>1, <1>2 DEF Failing, WarpFails, NodesTyped, NodeRecords, States
    <2> QED
        BY <1>1, <1>2, <2>1 DEF Failing, WarpFails, PlansTyped, WarpTyped, PanelTyped
<1>3. CASE r.kind # "reconcile_warp"
    <2>1. PlansTyped'
        <3>1. plan' = [plan EXCEPT ![r.plan].status = IF @ = "PENDING" THEN BackTo(r.kind) ELSE @]
            BY <1>3 DEF Failing, PlanFails
        <3>2. BackTo(r.kind) \in {"FAILED", "BLOCKED"}
            BY DEF BackTo
        <3> QED
            BY ZenonT(60), <1>1, <3>1, <3>2 DEF PlansTyped, PlanRecords
    <2> QED
        BY <1>1, <1>3, <2>1 DEF Failing, PlanFails, NodesTyped, WarpTyped, PanelTyped
<1> QED
    BY <1>2, <1>3

LEMMA SucceedsTyped ==
    ASSUME TypeOK, NEW r \in Row, Succeeds(r)
    PROVE  PanelTyped'
<1>1. PlansTyped /\ NodesTyped /\ WarpTyped
    BY TypeParts DEF PanelTyped
<1>2. CASE r.kind = "discover_host"
    <2>1. Discovered(r)
        BY <1>2 DEF Succeeds
    <2>2. PlansTyped'
        <3>1. r.found \in Findings
            BY DEF Row
        <3>2. \/ \E s \in {"READY", "BLOCKED"} :
                     plan' = [plan EXCEPT ![r.plan].status = s, ![r.plan].found = r.found]
              \/ plan' = [plan EXCEPT ![r.plan].status = IF @ = "PENDING" THEN "EXPIRED" ELSE @]
            BY <2>1 DEF Discovered
        <3>3. CASE \E s \in {"READY", "BLOCKED"} :
                     plan' = [plan EXCEPT ![r.plan].status = s, ![r.plan].found = r.found]
            <4>1. PICK s \in {"READY", "BLOCKED"} :
                     plan' = [plan EXCEPT ![r.plan].status = s, ![r.plan].found = r.found]
                BY <3>3
            <4>a. r.plan \in Plans => plan[r.plan] \in PlanRecords
                BY <1>1 DEF PlansTyped
            <4>2. r.plan \in Plans => [plan[r.plan] EXCEPT !.status = s, !.found = r.found]
                                            \in PlanRecords
                BY <3>1, <4>a DEF PlanRecords
            <4>3. plan' = [plan EXCEPT ![r.plan] = [plan[r.plan] EXCEPT !.status = s,
                                                                        !.found = r.found]]
                BY <1>1, <4>1 DEF PlansTyped
            <4> QED
                BY <1>1, <4>2, <4>3 DEF PlansTyped
        <3>4. CASE plan' = [plan EXCEPT ![r.plan].status = IF @ = "PENDING" THEN "EXPIRED" ELSE @]
            BY ZenonT(60), <1>1, <3>4 DEF PlansTyped, PlanRecords
        <3> QED
            BY <3>2, <3>3, <3>4
    <2>3. WarpTyped'
        BY <1>1, <2>1 DEF Discovered, Normalized, WarpTyped
    <2> QED
        BY <1>1, <2>1, <2>2, <2>3 DEF Discovered, NodesTyped, PanelTyped
<1>3. CASE r.kind = "authorize_warp_takeover"
    <2>1. TakenOver(r)
        BY <1>3 DEF Succeeds
    <2>2. PlansTyped'
        BY ZenonT(60), <1>1, <2>1 DEF TakenOver, PlansTyped, PlanRecords
    <2> QED
        BY <1>1, <2>1, <2>2 DEF TakenOver, NodesTyped, WarpTyped, PanelTyped
<1>4. CASE r.kind = "reconcile_warp"
    <2>1. WarpConnected(r)
        BY <1>4 DEF Succeeds
    <2>2. NodesTyped'
        BY <1>1, <2>1 DEF WarpConnected, NodesTyped, NodeRecords, States
    <2> QED
        BY <1>1, <2>1, <2>2 DEF WarpConnected, PlansTyped, WarpTyped, PanelTyped
<1> QED
    BY <1>2, <1>3, <1>4 DEF Row

LEMMA PanelStays ==
    ASSUME TypeOK, UNCHANGED panel
    PROVE  PanelTyped'
<1>1. PlansTyped /\ NodesTyped /\ WarpTyped
    BY TypeParts DEF PanelTyped
<1> QED
    BY <1>1 DEF panel, PanelTyped, PlansTyped, NodesTyped, WarpTyped

LEMMA PlanStepsTyped ==
    ASSUME TypeOK, NEW p \in Plans,
           \/ \E n \in Nodes, warp \in BOOLEAN : CreatePlan(p, n, warp)
           \/ PlanExpires(p) \/ GetPlan(p) \/ AuthorizeWarpTakeover(p) \/ Provision(p)
    PROVE  PanelTyped'
<1>1. PlansTyped /\ NodesTyped /\ WarpTyped
    BY TypeParts DEF PanelTyped
<1>2. ASSUME NEW n \in Nodes, NEW warp \in BOOLEAN, CreatePlan(p, n, warp)
      PROVE  PanelTyped'
    <2>1. PlansTyped'
        BY ZenonT(60), <1>1, <1>2 DEF CreatePlan, PlansTyped, PlanRecords
    <2> QED
        BY <1>1, <1>2, <2>1 DEF CreatePlan, NodesTyped, WarpTyped, PanelTyped
<1>3. CASE PlanExpires(p) \/ GetPlan(p)
    <2>1. PlansTyped'
        <3>1. CASE PlanExpires(p)
            BY <1>1, <3>1 DEF PlanExpires, PlansTyped, PlanRecords
        <3>2. CASE GetPlan(p)
            BY <1>1, <3>2 DEF GetPlan, PlansTyped, PlanRecords
        <3> QED
            BY <1>3, <3>1, <3>2
    <2> QED
        BY <1>1, <1>3, <2>1 DEF PlanExpires, GetPlan, NodesTyped, WarpTyped, PanelTyped
<1>4. CASE AuthorizeWarpTakeover(p)
    <2>1. PlansTyped'
        BY ZenonT(60), <1>1, <1>4 DEF AuthorizeWarpTakeover, PlansTyped, PlanRecords
    <2> QED
        BY <1>1, <1>4, <2>1 DEF AuthorizeWarpTakeover, NodesTyped, WarpTyped, PanelTyped
<1>5. CASE Provision(p)
    <2>1. PlansTyped'
        BY <1>1, <1>5 DEF Provision, PlansTyped, PlanRecords
    <2>2. NodesTyped'
        BY <1>1, <1>5, ModesOfPlans DEF Provision, NodesTyped, NodeRecords, States
    <2> QED
        BY <1>1, <1>5, <2>1, <2>2 DEF Provision, WarpTyped, PanelTyped
<1> QED
    BY <1>2, <1>3, <1>4, <1>5

LEMMA NodeStepsTyped ==
    ASSUME TypeOK,
           \/ \E S \in SUBSET Nodes : Retry(S)
           \/ \E n \in Nodes : Publish(n) \/ Reconfigure(n) \/ NodeSettles(n)
           \/ MachineFails
    PROVE  PanelTyped'
<1>1. PlansTyped /\ NodesTyped /\ WarpTyped
    BY TypeParts DEF PanelTyped
<1>2. ASSUME NEW S \in SUBSET Nodes, Retry(S)
      PROVE  PanelTyped'
    <2>1. NodesTyped'
        BY ZenonT(60), <1>1, <1>2 DEF Retry, NodesTyped, NodeRecords, States
    <2>2. WarpTyped'
        BY <1>1, <1>2 DEF Retry, WarpTyped
    <2> QED
        BY <1>1, <1>2, <2>1, <2>2 DEF Retry, PlansTyped, PanelTyped
<1>3. ASSUME NEW n \in Nodes, Publish(n) \/ Reconfigure(n)
      PROVE  PanelTyped'
    <2>1. NodesTyped'
        <3>1. CASE Publish(n)
            BY ZenonT(60), <1>1, <3>1 DEF Publish, NodesTyped, NodeRecords, States
        <3>2. CASE Reconfigure(n)
            BY <1>1, <3>2 DEF Reconfigure, NodesTyped, NodeRecords, States
        <3> QED
            BY <1>3, <3>1, <3>2
    <2> QED
        BY <1>1, <1>3, <2>1 DEF Publish, Reconfigure, PlansTyped, WarpTyped, PanelTyped
<1>4. ASSUME NEW n \in Nodes, NodeSettles(n)
      PROVE  PanelTyped'
    <2>1. PICK state \in {"PUBLISHED", "CONFIG_VALIDATED", "FAILED"} :
              node' = [node EXCEPT ![n].state = state, ![n].busy = FALSE]
        BY <1>4 DEF NodeSettles
    <2>2. NodesTyped'
        BY <1>1, <2>1 DEF NodesTyped, NodeRecords, States
    <2> QED
        BY <1>1, <1>4, <2>2 DEF NodeSettles, PlansTyped, WarpTyped, PanelTyped
<1>5. ASSUME MachineFails
      PROVE  PanelTyped'
    <2>1. PICK busy, S : node' = NodesAfter(busy, S)
        BY <1>5 DEF MachineFails
    <2>2. node' = [n \in Nodes |-> [node[n] EXCEPT
                       !.busy = n \in busy, !.state = IF n \in S THEN "FAILED" ELSE @]]
        BY <2>1 DEF NodesAfter
    <2>3. ASSUME NEW n \in Nodes
          PROVE  node'[n] \in NodeRecords
        <3>1. node[n] \in NodeRecords
            BY <1>1 DEF NodesTyped
        <3>2. PICK b \in BOOLEAN, state \in States :
                  node'[n] = [node[n] EXCEPT !.busy = b, !.state = state]
            <4> DEFINE b == n \in busy
                       state == IF n \in S THEN "FAILED" ELSE node[n].state
            <4>1. node'[n] = [node[n] EXCEPT !.busy = b, !.state = state]
                BY <2>2
            <4>2. b \in BOOLEAN
                OBVIOUS
            <4>3. state \in States
                BY <3>1 DEF NodeRecords, States
            <4> HIDE DEF b, state
            <4> QED
                BY <4>1, <4>2, <4>3
        <3> QED
            BY <3>1, <3>2 DEF NodeRecords
    <2>4. NodesTyped'
        BY <2>2, <2>3 DEF NodesTyped
    <2> QED
        BY <1>1, <1>5, <2>4 DEF MachineFails, PlansTyped, WarpTyped, PanelTyped
<1> QED
    BY <1>2, <1>3, <1>4, <1>5

LEMMA PanelTypes ==
    ASSUME TypeOK, [Next]_vars
    PROVE  PanelTyped'
<1>0. rows \in Seq(Row)
    BY TypeParts
<1>1. ASSUME Result
      PROVE  PanelTyped'
    <2>1. PICK i \in DOMAIN rows :
              IF rows[i].stored = "succeeded" THEN Succeeds(rows[i]) ELSE Failing(rows[i])
        BY <1>1 DEF Result
    <2>2. rows[i] \in Row
        BY <1>0, RowAt
    <2> QED
        BY <2>1, <2>2, SucceedsTyped, FailingTyped
<1>2. ASSUME DeadlineExceeded
      PROVE  PanelTyped'
    <2>1. PICK i \in DOMAIN rows : Failing(rows[i])
        BY <1>2 DEF DeadlineExceeded
    <2>2. rows[i] \in Row
        BY <1>0, RowAt
    <2> QED
        BY <2>1, <2>2, FailingTyped
<1>3. ASSUME CheckIsDue
      PROVE  PanelTyped'
    BY <1>3, TypeParts DEF CheckIsDue, PanelTyped, PlansTyped, NodesTyped, WarpTyped
<1>4. Hello \/ Heartbeat \/ OverdueHeartbeat \/ Claim \/ Discover \/ Begin \/ Disconnect
      \/ OthersInstall \/ OthersRemove \/ WarpChanges => UNCHANGED panel
    BY DEF Hello, Heartbeat, OverdueHeartbeat, Claim, Discover, Begin, Disconnect,
           OthersInstall, OthersRemove, WarpChanges
<1>5. HandlerSteps => UNCHANGED panel
    BY DEF HandlerSteps, VerifyCompatibleExternal, Detect3XUI, CheckOwnership,
           EnsureInstalled, Configure, Persist, EnsureRelay, Adopt, CreateOwnership,
           FillOwnership, Fails
<1>6. UNCHANGED vars => UNCHANGED panel
    BY DEF vars
<1> QED
    BY <1>1, <1>2, <1>3, <1>4, <1>5, <1>6, PanelStays, PlanStepsTyped, NodeStepsTyped DEF Next

LEMMA HandlerTypes ==
    ASSUME AgentTyped
    PROVE  /\ handler # Idle => handler \in Handling
           /\ \A place \in Places : handler # Idle /\ Goto(place) => handler' \in Handling
           /\ handler # Idle => [handler EXCEPT !.orphan = TRUE] \in Handling
<1>1. handler # Idle => handler \in Handling
    BY DEF AgentTyped
<1>2. \A h \in Handling, place \in Places : [h EXCEPT !.at = place] \in Handling
    BY DEF Handling
<1>3. \A h \in Handling : [h EXCEPT !.orphan = TRUE] \in Handling
    BY DEF Handling
<1> QED
    BY <1>1, <1>2, <1>3 DEF Goto

LEMMA HandlerStepsTyped ==
    ASSUME TypeOK, HandlerSteps
    PROVE  AgentTyped' /\ CountersTyped' /\ HistoryTyped'
<1>1. AgentTyped /\ CountersTyped /\ HistoryTyped
    BY TypeParts
<1>2. handler # Idle
    BY DEF HandlerSteps, At, VerifyCompatibleExternal, Detect3XUI, CheckOwnership,
           EnsureInstalled, Configure, Persist, EnsureRelay, Adopt, CreateOwnership,
           FillOwnership, Fails
<1>3. CountersTyped'
    <2>1. UNCHANGED counters
        BY DEF HandlerSteps, VerifyCompatibleExternal, Detect3XUI, CheckOwnership,
               EnsureInstalled, Configure, Persist, EnsureRelay, Adopt, CreateOwnership,
               FillOwnership, Fails
    <2> QED
        BY <1>1, <2>1 DEF counters, CountersTyped
<1>4. HistoryTyped'
    <2>1. UNCHANGED <<approved, intruded, swept>> /\ (UNCHANGED theirs \/ theirs' = (cli /\ theirs))
        BY DEF HandlerSteps, VerifyCompatibleExternal, Detect3XUI, CheckOwnership,
               EnsureInstalled, Configure, Persist, EnsureRelay, Adopt, CreateOwnership,
               FillOwnership, Fails, history
    <2> QED
        BY <1>1, <2>1 DEF HistoryTyped, Plans
<1>5. handler' \in Handling \cup {Idle}
    <2>1. ASSUME \A place \in Places : ~Goto(place)
          PROVE  handler' = Idle
        BY <2>1 DEF HandlerSteps, VerifyCompatibleExternal, Detect3XUI, CheckOwnership,
                    EnsureInstalled, Configure, Persist, EnsureRelay, Adopt, CreateOwnership,
                    FillOwnership, Fails, Ends, Places
    <2> QED
        BY <1>1, <1>2, <2>1, HandlerTypes
<1>6. record' \in Ours \cup {"absent", "unreadable"}
    BY <1>1 DEF HandlerSteps, VerifyCompatibleExternal, Detect3XUI, CheckOwnership,
                EnsureInstalled, Configure, Persist, EnsureRelay, Adopt, CreateOwnership,
                FillOwnership, Fails, files, AgentTyped, Ours
<1>7. /\ session' \in BOOLEAN
      /\ cli' \in BOOLEAN /\ works' \in BOOLEAN /\ relay' \in BOOLEAN /\ xui' \in BOOLEAN
      /\ works' => cli'
    <2>1. CASE VerifyCompatibleExternal \/ Detect3XUI \/ CheckOwnership \/ EnsureInstalled
               \/ Configure \/ Persist
        <3>1. CASE VerifyCompatibleExternal \/ Detect3XUI
            BY <1>1, <3>1 DEF VerifyCompatibleExternal, Detect3XUI, files, AgentTyped
        <3>2. CASE CheckOwnership \/ Persist
            BY <1>1, <3>2 DEF CheckOwnership, Persist, AgentTyped
        <3>3. CASE EnsureInstalled
            BY <1>1, <3>3 DEF EnsureInstalled, AgentTyped
        <3>4. CASE Configure
            BY <1>1, <3>4 DEF Configure, AgentTyped
        <3> QED
            BY <2>1, <3>1, <3>2, <3>3, <3>4
    <2>2. CASE EnsureRelay \/ Adopt \/ CreateOwnership \/ FillOwnership
        <3>1. CASE EnsureRelay
            BY <1>1, <3>1 DEF EnsureRelay, AgentTyped
        <3>2. CASE Adopt
            BY <1>1, <3>2 DEF Adopt, files, AgentTyped
        <3>3. CASE CreateOwnership \/ FillOwnership
            BY <1>1, <3>3 DEF CreateOwnership, FillOwnership, AgentTyped
        <3> QED
            BY <2>2, <3>1, <3>2, <3>3
    <2>3. CASE Fails
        BY <1>1, <2>3 DEF Fails, LeftWorking, AgentTyped
    <2> QED
        BY <2>1, <2>2, <2>3 DEF HandlerSteps
<1> QED
    BY <1>3, <1>4, <1>5, <1>6, <1>7 DEF AgentTyped

LEMMA CountersStep ==
    ASSUME CountersTyped, Request \/ Fault \/ Event \/ UNCHANGED counters
    PROVE  CountersTyped'
BY WarpBounds DEF CountersTyped, Request, Fault, Event, counters

LEMMA AgentStays ==
    ASSUME AgentTyped, HistoryTyped, UNCHANGED <<session, handler, files, history>>
    PROVE  AgentTyped' /\ HistoryTyped'
BY DEF AgentTyped, HistoryTyped, files, history, Plans

LEMMA AgentTypes ==
    ASSUME TypeOK, [Next]_vars
    PROVE  AgentTyped' /\ CountersTyped' /\ HistoryTyped'
<1>1. AgentTyped /\ CountersTyped /\ HistoryTyped /\ rows \in Seq(Row)
    BY TypeParts
<1>2. ASSUME NEW p \in Plans,
             \/ \E n \in Nodes, warp \in BOOLEAN : CreatePlan(p, n, warp)
             \/ PlanExpires(p) \/ GetPlan(p) \/ Provision(p)
      PROVE  UNCHANGED <<session, handler, files, history>> /\ (Fault \/ UNCHANGED counters)
    BY <1>2 DEF CreatePlan, PlanExpires, GetPlan, Provision
<1>3. ASSUME NEW p \in Plans, AuthorizeWarpTakeover(p)
      PROVE  AgentTyped' /\ CountersTyped' /\ HistoryTyped'
    <2>1. /\ Request /\ UNCHANGED <<session, handler, files, theirs, intruded, swept>>
          /\ approved' \in BOOLEAN
        BY <1>3 DEF AuthorizeWarpTakeover
    <2> QED
        BY <1>1, <2>1, CountersStep DEF AgentTyped, HistoryTyped, files, Plans
<1>4. ASSUME \/ \E S \in SUBSET Nodes : Retry(S)
             \/ \E n \in Nodes : Publish(n) \/ Reconfigure(n) \/ NodeSettles(n)
      PROVE  UNCHANGED <<session, handler, files, history>> /\ (Request \/ UNCHANGED counters)
    BY <1>4 DEF Retry, Publish, Reconfigure, NodeSettles
<1>5. ASSUME Heartbeat \/ CheckIsDue \/ Claim \/ Result \/ Discover \/ UNCHANGED vars
      PROVE  UNCHANGED <<session, handler, files, history>> /\ UNCHANGED counters
    BY <1>5 DEF Heartbeat, CheckIsDue, Claim, Result, Discover, vars
<1>5a. ASSUME OverdueHeartbeat
       PROVE  UNCHANGED <<session, handler, files, history>> /\ Fault
    BY <1>5a DEF OverdueHeartbeat
<1>5b. ASSUME MachineFails
       PROVE  AgentTyped' /\ CountersTyped' /\ HistoryTyped'
    <2>1. /\ Fault /\ UNCHANGED <<session, handler, files, theirs, approved, intruded>>
          /\ swept' \subseteq swept \cup Plans
        BY <1>5b DEF MachineFails
    <2>2. HistoryTyped'
        BY <1>1, <2>1 DEF HistoryTyped, Plans
    <2> QED
        BY <1>1, <2>1, <2>2, CountersStep DEF AgentTyped, files
<1>6. ASSUME Hello
      PROVE  AgentTyped' /\ CountersTyped' /\ HistoryTyped'
    <2>1. /\ session' = TRUE /\ UNCHANGED <<handler, files, history>>
          /\ Fault \/ UNCHANGED counters
        BY <1>6 DEF Hello
    <2> QED
        BY <1>1, <2>1, CountersStep DEF AgentTyped, HistoryTyped, files, history, Plans
<1>7. ASSUME DeadlineExceeded
      PROVE  AgentTyped' /\ CountersTyped' /\ HistoryTyped'
    <2>1. Fault /\ UNCHANGED <<session, files, history>>
        BY <1>7 DEF DeadlineExceeded
    <2>2. handler' = handler \/ (handler # Idle /\ handler' = [handler EXCEPT !.orphan = TRUE])
        BY <1>7 DEF DeadlineExceeded
    <2>3. handler' \in Handling \cup {Idle}
        BY <1>1, <2>2, HandlerTypes DEF AgentTyped
    <2> QED
        BY <1>1, <2>1, <2>3, CountersStep DEF AgentTyped, HistoryTyped, files, history, Plans
<1>8. ASSUME Begin
      PROVE  AgentTyped' /\ CountersTyped' /\ HistoryTyped'
    <2>1. PICK i \in DOMAIN rows :
              handler' = [at |-> CASE rows[i].mode = "none" -> "adopt"
                                   [] rows[i].mode = "REUSE_EXTERNAL" -> "verify"
                                   [] OTHER -> "detect",
                          mode |-> rows[i].mode, orphan |-> FALSE]
        BY <1>8 DEF Begin
    <2>2. rows[i].mode \in Modes
        BY <1>1, RowAt, RowFields DEF RowFieldsAre
    <2>3. handler' \in Handling
        BY <2>1, <2>2 DEF Handling, Places
    <2>4. UNCHANGED <<session, files, counters, history>>
        BY <1>8 DEF Begin
    <2> QED
        BY <1>1, <2>3, <2>4, CountersStep DEF AgentTyped, HistoryTyped, files, history, Plans
<1>9. ASSUME Disconnect
      PROVE  AgentTyped' /\ CountersTyped' /\ HistoryTyped'
    <2>1. /\ Fault /\ session' = FALSE /\ handler' = Idle /\ works' \in {works, FALSE}
          /\ relay' \in {relay, FALSE} /\ record' \in {record, "ADOPTED"}
          /\ UNCHANGED <<cli, xui, history>>
        BY <1>9 DEF Disconnect, LeftWorking
    <2> QED
        <3>1. CountersTyped'
            BY <1>1, <2>1, CountersStep
        <3>2. HistoryTyped'
            BY <1>1, <2>1 DEF HistoryTyped, history, Plans
        <3>3. works' \in BOOLEAN /\ (works' => cli')
            <4>1. CASE works' = works
                BY <1>1, <2>1, <4>1 DEF AgentTyped
            <4>2. CASE works' = FALSE
                BY <4>2
            <4> QED
                BY <2>1, <4>1, <4>2
        <3>4. relay' \in BOOLEAN
            BY <1>1, <2>1 DEF AgentTyped
        <3>5. AgentTyped'
            BY <1>1, <2>1, <3>3, <3>4 DEF AgentTyped, Ours
        <3> QED
            BY <3>1, <3>2, <3>5
<1>10. ASSUME OthersInstall \/ OthersRemove \/ WarpChanges
       PROVE  AgentTyped' /\ CountersTyped' /\ HistoryTyped'
    <2>1. Event
        BY <1>10 DEF OthersInstall, OthersRemove, WarpChanges
    <2>2. AgentTyped' /\ HistoryTyped'
        BY <1>1, <1>10 DEF OthersInstall, OthersRemove, WarpChanges, AgentTyped, HistoryTyped,
                           history, Plans
    <2> QED
        BY <1>1, <2>1, <2>2, CountersStep
<1>11. ASSUME UNCHANGED <<session, handler, files, history>>,
              Request \/ Fault \/ UNCHANGED counters
       PROVE  AgentTyped' /\ CountersTyped' /\ HistoryTyped'
    BY <1>1, <1>11, AgentStays, CountersStep
<1>12. ASSUME NEW p \in Plans,
              \/ \E n \in Nodes, warp \in BOOLEAN : CreatePlan(p, n, warp)
              \/ PlanExpires(p) \/ GetPlan(p) \/ AuthorizeWarpTakeover(p) \/ Provision(p)
       PROVE  AgentTyped' /\ CountersTyped' /\ HistoryTyped'
    <2>1. CASE AuthorizeWarpTakeover(p)
        BY <1>3, <2>1
    <2>2. CASE ~AuthorizeWarpTakeover(p)
        <3>1. UNCHANGED <<session, handler, files, history>> /\ (Fault \/ UNCHANGED counters)
            BY <1>2, <1>12, <2>2
        <3> QED
            BY <1>11, <3>1
    <2> QED
        BY <2>1, <2>2
<1>13. CASE \/ \E S \in SUBSET Nodes : Retry(S)
            \/ \E n \in Nodes : Publish(n) \/ Reconfigure(n) \/ NodeSettles(n)
    BY <1>4, <1>11, <1>13
<1>14. CASE Heartbeat \/ OverdueHeartbeat \/ CheckIsDue \/ Claim \/ Result \/ Discover
            \/ UNCHANGED vars
    BY <1>5, <1>5a, <1>11, <1>14
<1>15. CASE Hello \/ DeadlineExceeded \/ Begin \/ Disconnect \/ MachineFails
    BY <1>5b, <1>6, <1>7, <1>8, <1>9, <1>15
<1> QED
    BY <1>10, <1>12, <1>13, <1>14, <1>15, HandlerStepsTyped DEF Next

-----------------------------------------------------------------------------
(* The invariant of the rows and the handler.                              *)
LEMMA RowsOfSteps ==
    ASSUME TypeOK, IInv, RowsBase, [Next]_vars
    PROVE  RowsGoOn
<1>1. rows \in Seq(Row) /\ HandlerHasPlace
    BY TypeParts DEF IInv
<1>2. RecordKept
    BY RecordStays DEF RecordKept
<1>3. ASSUME NEW p \in Plans,
             \/ \E n \in Nodes, warp \in BOOLEAN : CreatePlan(p, n, warp)
             \/ PlanExpires(p) \/ GetPlan(p) \/ AuthorizeWarpTakeover(p) \/ Provision(p)
      PROVE  RowsGoOn
    <2>1. PlanExpires(p) \/ GetPlan(p) => UNCHANGED <<rows, session, handler>>
        BY DEF PlanExpires, GetPlan
    <2> QED
        BY <1>1, <1>2, <1>3, <2>1, CreatePlanRows, AuthorizeRows, ProvisionRows, RowsJustKept
<1>4. ASSUME NEW S \in SUBSET Nodes, Retry(S)
      PROVE  RowsGoOn
    BY <1>1, <1>2, <1>4, RetryRows
<1>5. ASSUME \/ \E n \in Nodes : Publish(n) \/ Reconfigure(n) \/ NodeSettles(n)
             \/ CheckIsDue \/ OthersInstall \/ OthersRemove \/ WarpChanges
             \/ UNCHANGED vars
      PROVE  RowsGoOn
    <2>1. UNCHANGED <<rows, session, handler>>
        BY <1>5 DEF Publish, Reconfigure, NodeSettles, CheckIsDue, OthersInstall, OthersRemove,
                    WarpChanges, vars
    <2> QED
        BY <1>1, <1>2, <2>1, RowsJustKept
<1>6. ASSUME \/ Hello \/ Heartbeat \/ OverdueHeartbeat \/ Claim \/ Result
             \/ DeadlineExceeded \/ MachineFails
      PROVE  RowsGoOn
    BY <1>1, <1>2, <1>6, HelloRows, HeartbeatRows, OverdueRows, ClaimRows, ResultRows,
       DeadlineRows, MachineFailsRows
<1>7. ASSUME Discover \/ Begin \/ HandlerSteps \/ Disconnect
      PROVE  RowsGoOn
    BY <1>1, <1>2, <1>7, DiscoverRows, BeginRows, HandlerRows, DisconnectRows
<1> QED
    BY <1>3, <1>4, <1>5, <1>6, <1>7 DEF Next

(* Base holds in every reachable state.                                    *)
THEOREM BaseHolds == Spec => []Base
<1>1. Init => Base
    <2> SUFFICES ASSUME Init
                 PROVE  Base
        OBVIOUS
    <2>1. IInv
        BY DEF Init, IInv, HandlerHasPlace, PlacesAreBacked, OwnInstallIsRecorded, At
    <2>2. RowsFit /\ RunningFirst /\ HandlerHasRow /\ PlaceFitsMode
        BY DEF Init, RowsFit, RunningFirst, HandlerHasRow, PlaceFitsMode
    <2>3. PlansTyped
        <3>1. (CHOOSE n \in Nodes : TRUE) \in Nodes
            BY NodesAssumption
        <3> HIDE DEF Init
        <3>2. PICK n \in Nodes :
                  plan = [p \in Plans |-> [status |-> "none", node |-> n, warp |-> FALSE,
                                           takeover |-> FALSE, late |-> FALSE,
                                           found |-> "unknown"]]
            BY <3>1 DEF Init
        <3> QED
            BY <3>2 DEF PlansTyped, PlanRecords, Findings
    <2>4. NodesTyped /\ WarpTyped
        BY DEF Init, NodesTyped, NodeRecords, WarpTyped, States, Modes
    <2>5. AgentTyped /\ HistoryTyped /\ rows \in Seq(Row)
        <3>1. rows \in Seq(Row)
            BY DEF Init
        <3>2. /\ session = TRUE /\ handler = Idle /\ record = "absent" /\ relay = FALSE
              /\ xui \in BOOLEAN /\ cli \in BOOLEAN /\ works \in {FALSE, cli} /\ theirs = cli
              /\ approved = FALSE /\ intruded = FALSE /\ swept = {}
            BY DEF Init
        <3>3. works \in BOOLEAN /\ (works => cli) /\ theirs \in BOOLEAN
            <4>1. CASE works = FALSE
                BY <3>2, <4>1
            <4>2. CASE works = cli
                BY <3>2, <4>2
            <4> QED
                BY <3>2, <4>1, <4>2
        <3> QED
            BY <3>1, <3>2, <3>3 DEF AgentTyped, HistoryTyped
    <2>6. CountersTyped
        BY WarpBounds DEF Init, CountersTyped
    <2>7. TypeOK
        BY <2>3, <2>4, <2>5, <2>6, TypeParts DEF PanelTyped
    <2> QED
        BY <2>1, <2>2, <2>7 DEF Base
<1>2. Base /\ IInv' /\ [Next]_vars => Base'
    <2> SUFFICES ASSUME Base, IInv', [Next]_vars
                 PROVE  Base'
        OBVIOUS
    <2>1. TypeOK /\ IInv /\ RowsBase
        BY DEF Base, RowsBase
    <2>2. RowsBase' /\ rows' \in Seq(Row)
        BY <2>1, RowsOfSteps DEF RowsGoOn
    <2>3. PanelTyped' /\ AgentTyped' /\ CountersTyped' /\ HistoryTyped'
        BY <2>1, PanelTypes, AgentTypes
    <2>4. TypeOK'
        BY <2>2, <2>3 DEF TypeOK, PanelTyped, PlansTyped, PlanRecords, NodesTyped, NodeRecords,
                          WarpTyped, AgentTyped, CountersTyped, HistoryTyped, Plans
    <2> QED
        BY <2>2, <2>4 DEF Base, RowsBase
<1> QED
    BY <1>1, <1>2, InvariantHolds, PTL DEF Spec

(* Every variable keeps its type.                                          *)
THEOREM WarpTypes == Spec => []TypeOK
<1>1. Base => TypeOK
    BY DEF Base
<1> QED
    BY <1>1, BaseHolds, PTL

-----------------------------------------------------------------------------
(* Ownership is booked from results only, and a result that says the       *)
(* Agent owns WARP is not older than the record (RowsFit).                 *)
LEMMA SuccessOwns ==
    ASSUME NEW r, r \in Row, RowFits(r), r.stored = "succeeded", Succeeds(r), UNCHANGED record,
           OwnershipAgrees
    PROVE  OwnershipAgrees'
<1>1. CASE r.kind = "discover_host"
    <2>1. warpOwnership' \in {warpOwnership, Normalized(r.found)}
        BY <1>1 DEF Succeeds, Discovered
    <2>2. Normalized(r.found) \in {"MANAGED", "ADOPTED"} =>
              \/ r.found \in {"UNHEALTHY_MANAGED", "READY_MANAGED"}
              \/ Normalized(r.found) = warpOwnership
        BY DEF Normalized
    <2> QED
        BY <2>1, <2>2 DEF RowFits, OwnershipAgrees
<1>2. CASE r.kind = "authorize_warp_takeover"
    <2>1. r.mode # "REUSE_EXTERNAL"
        BY <1>2 DEF RowFits
    <2> QED
        BY <1>2, <2>1 DEF RowFits, OwnershipAgrees
<1>3. CASE r.kind = "reconcile_warp"
    <2>1. WarpConnected(r)
        BY <1>3 DEF Succeeds
    <2>2. warpOwnership' = IF r.mode = "REUSE_EXTERNAL" THEN "EXTERNAL" ELSE "MANAGED"
        BY <2>1 DEF WarpConnected
    <2>3. CASE r.mode = "REUSE_EXTERNAL"
        BY <2>2, <2>3 DEF OwnershipAgrees
    <2>4. CASE r.mode # "REUSE_EXTERNAL"
        BY <1>3, <2>4 DEF RowFits, OwnershipAgrees
    <2> QED
        BY <2>3, <2>4
<1> QED
    BY <1>1, <1>2, <1>3 DEF Row

LEMMA OwnershipSteps ==
    ASSUME TypeOK, IInv, RowsFit, OwnershipAgrees, [Next]_vars
    PROVE  OwnershipAgrees'
<1>1. rows \in Seq(Row) /\ (record \in Ours => record' \in Ours)
    BY RecordStays, TypeParts
<1>2. ASSUME Result
      PROVE  OwnershipAgrees'
    <2>1. PICK i \in DOMAIN rows :
              IF rows[i].stored = "succeeded" THEN Succeeds(rows[i]) ELSE Failing(rows[i])
        BY <1>2 DEF Result
    <2>2. rows[i] \in Row /\ RowFits(rows[i]) /\ UNCHANGED record
        BY <1>1, <1>2, RowAt DEF RowsFit, Result, files
    <2>3. CASE rows[i].stored = "succeeded"
        BY <2>1, <2>2, <2>3, SuccessOwns
    <2>4. CASE rows[i].stored # "succeeded"
        BY <2>1, <2>2, <2>4 DEF Failing, WarpFails, PlanFails, OwnershipAgrees
    <2> QED
        BY <2>3, <2>4
<1>3. ASSUME UNCHANGED warpOwnership
      PROVE  OwnershipAgrees'
    BY <1>1, <1>3 DEF OwnershipAgrees
<1>4. ASSUME NEW p \in Plans,
             \/ \E n \in Nodes, warp \in BOOLEAN : CreatePlan(p, n, warp)
             \/ PlanExpires(p) \/ GetPlan(p) \/ AuthorizeWarpTakeover(p) \/ Provision(p)
      PROVE  UNCHANGED warpOwnership
    BY <1>4 DEF CreatePlan, PlanExpires, GetPlan, AuthorizeWarpTakeover, Provision
<1>5. ASSUME \/ \E S \in SUBSET Nodes : Retry(S)
             \/ \E n \in Nodes : Publish(n) \/ Reconfigure(n) \/ NodeSettles(n)
             \/ MachineFails \/ OverdueHeartbeat
      PROVE  UNCHANGED warpOwnership
    BY <1>5 DEF Retry, Publish, Reconfigure, NodeSettles, MachineFails, OverdueHeartbeat, panel
<1>6. ASSUME DeadlineExceeded
      PROVE  UNCHANGED warpOwnership
    BY <1>6 DEF DeadlineExceeded, Failing, WarpFails, PlanFails
<1>7. ASSUME \/ Hello \/ Heartbeat \/ CheckIsDue \/ Claim \/ Discover \/ Begin \/ Disconnect
             \/ OthersInstall \/ OthersRemove \/ WarpChanges \/ UNCHANGED vars
      PROVE  UNCHANGED warpOwnership
    BY <1>7 DEF Hello, Heartbeat, CheckIsDue, Claim, Discover, Begin, Disconnect,
                OthersInstall, OthersRemove, WarpChanges, panel, vars
<1>8. ASSUME HandlerSteps
      PROVE  UNCHANGED warpOwnership
    BY <1>8 DEF HandlerSteps, VerifyCompatibleExternal, Detect3XUI, CheckOwnership,
                EnsureInstalled, Configure, Persist, EnsureRelay, Adopt, CreateOwnership,
                FillOwnership, Fails, panel
<1> QED
    BY <1>2, <1>3, <1>4, <1>5, <1>6, <1>7, <1>8 DEF Next

(* The panel shows WARP as owned only if the host has a record of it.      *)
THEOREM OwnershipNeverDisagrees == Spec => []OwnershipAgrees
<1>1. Init => OwnershipAgrees
    BY DEF Init, OwnershipAgrees
<1>2. Base /\ OwnershipAgrees /\ [Next]_vars => OwnershipAgrees'
    BY OwnershipSteps DEF Base
<1> QED
    BY <1>1, <1>2, BaseHolds, PTL DEF Spec

-----------------------------------------------------------------------------
(* What is not the Agent's.                                                *)
TakenAfter == approved' \/ intruded'

LEMMA OthersStay ==
    ASSUME OthersAreNotTaken, UNCHANGED <<handler, record, cli, theirs, intruded>>,
           approved => approved'
    PROVE  OthersAreNotTaken'
BY DEF OthersAreNotTaken, At

(* A handler that moves on.                                                *)
LEMMA OthersGoto ==
    ASSUME OthersAreNotTaken, HandlerHasPlace, handler # Idle, NEW place, Goto(place),
           UNCHANGED <<approved, intruded>>,
           cli' /\ theirs' /\ record' \in Ours => approved \/ intruded,
           place \in {"adopt", "create", "fill"} => approved,
           place = "configure" /\ theirs' => approved \/ intruded
    PROVE  OthersAreNotTaken'
<1>1. handler'.at = place
    BY DEF Goto, HandlerHasPlace
<1> QED
    BY <1>1 DEF OthersAreNotTaken, At

LEMMA OthersIdle ==
    ASSUME handler' = Idle, cli' /\ theirs' /\ record' \in Ours => approved' \/ intruded'
    PROVE  OthersAreNotTaken'
BY DEF OthersAreNotTaken, At

LEMMA OthersHandler ==
    ASSUME IInv, OthersAreNotTaken, HandlerSteps
    PROVE  OthersAreNotTaken'
<1>. USE DEF files, history, Ours
<1>0. handler # Idle /\ HandlerHasPlace
    BY DEF HandlerSteps, At, VerifyCompatibleExternal, Detect3XUI, CheckOwnership,
           EnsureInstalled, Configure, Persist, EnsureRelay, Adopt, CreateOwnership,
           FillOwnership, Fails, IInv
<1>1. CASE VerifyCompatibleExternal
    <2>1. Goto("relay") /\ UNCHANGED <<cli, record, theirs, approved, intruded>>
        BY <1>1 DEF VerifyCompatibleExternal
    <2> QED
        BY <1>0, <2>1, OthersGoto DEF OthersAreNotTaken
<1>2. CASE Detect3XUI
    <2>1. Goto("own") /\ UNCHANGED <<cli, record, theirs, approved, intruded>>
        BY <1>2 DEF Detect3XUI
    <2> QED
        BY <1>0, <2>1, OthersGoto DEF OthersAreNotTaken
<1>3. CASE CheckOwnership
    <2>1. Goto("install") /\ UNCHANGED <<cli, theirs, approved, intruded>>
          /\ (UNCHANGED record \/ ~cli)
        BY <1>3 DEF CheckOwnership
    <2> QED
        BY <1>0, <2>1, OthersGoto DEF OthersAreNotTaken
<1>4. CASE EnsureInstalled
    <2>1. Goto("configure") /\ UNCHANGED <<record, approved, intruded>> /\ theirs' = (cli /\ theirs)
        BY <1>4 DEF EnsureInstalled
    <2>2. record \in Ours
        BY <1>4 DEF EnsureInstalled, IInv, PlacesAreBacked
    <2> QED
        BY <1>0, <2>1, <2>2, OthersGoto DEF OthersAreNotTaken
<1>5. CASE Configure
    <2>1. Goto("persist") /\ UNCHANGED <<cli, record, theirs, approved, intruded>>
        BY <1>5 DEF Configure
    <2> QED
        BY <1>0, <2>1, OthersGoto DEF OthersAreNotTaken
<1>6. CASE Persist
    <2>1. Goto("relay") /\ UNCHANGED <<cli, theirs, approved, intruded>>
        BY <1>6 DEF Persist
    <2>2. record \in Ours
        BY <1>6 DEF Persist, IInv, PlacesAreBacked
    <2> QED
        BY <1>0, <2>1, <2>2, OthersGoto DEF OthersAreNotTaken
<1>7. CASE EnsureRelay \/ Fails
    <2>1. /\ handler' = Idle /\ UNCHANGED <<cli, theirs, approved, intruded>>
          /\ UNCHANGED record \/ record' = "absent"
        BY <1>7 DEF EnsureRelay, Fails, Ends
    <2> QED
        BY <2>1, OthersIdle DEF OthersAreNotTaken
<1>8. CASE Adopt
    <2>1. UNCHANGED <<cli, record, theirs, approved, intruded>> /\ approved
        BY <1>8 DEF Adopt, OthersAreNotTaken
    <2>2. Goto("create") \/ handler' = Idle
        BY <1>8 DEF Adopt, Ends
    <2> QED
        BY <1>0, <2>1, <2>2, OthersGoto, OthersIdle DEF OthersAreNotTaken
<1>9. CASE CreateOwnership
    <2>1. Goto("fill") /\ UNCHANGED <<cli, theirs, approved, intruded>> /\ approved
        BY <1>9 DEF CreateOwnership, OthersAreNotTaken
    <2> QED
        BY <1>0, <2>1, OthersGoto
<1>10. CASE FillOwnership
    <2>1. handler' = Idle /\ approved'
        BY <1>10 DEF FillOwnership, Ends, OthersAreNotTaken
    <2> QED
        BY <2>1, OthersIdle
<1> QED
    BY <1>1, <1>2, <1>3, <1>4, <1>5, <1>6, <1>7, <1>8, <1>9, <1>10 DEF HandlerSteps

LEMMA OthersBegin ==
    ASSUME rows \in Seq(Row), RowsFit, OthersAreNotTaken, Begin
    PROVE  OthersAreNotTaken'
<1>1. PICK i \in DOMAIN rows :
          /\ rows[i].kind # "discover_host"
          /\ handler' = [at |-> CASE rows[i].mode = "none" -> "adopt"
                                  [] rows[i].mode = "REUSE_EXTERNAL" -> "verify"
                                  [] OTHER -> "detect",
                         mode |-> rows[i].mode, orphan |-> FALSE]
    BY DEF Begin
<1>2. /\ handler'.at \in {"adopt", "verify", "detect"}
      /\ handler'.at = "adopt" <=> rows[i].mode = "none"
    BY <1>1
<1>3. UNCHANGED <<record, cli, theirs, approved, intruded>>
    BY DEF Begin, files, history
<1>4. ASSUME rows[i].mode = "none"
      PROVE  approved
    <2>1. rows[i] \in Row /\ RowFits(rows[i])
        BY RowAt DEF RowsFit
    <2> QED
        BY <1>1, <1>4, <2>1 DEF RowFits, Row
<1>5. /\ At("adopt")' => approved'
      /\ ~At("create")' /\ ~At("fill")' /\ ~At("configure")'
    BY <1>2, <1>3, <1>4 DEF At
<1> QED
    BY <1>3, <1>5 DEF OthersAreNotTaken

LEMMA OthersSteps ==
    ASSUME TypeOK, IInv, RowsFit, OthersAreNotTaken, [Next]_vars
    PROVE  OthersAreNotTaken'
<1>0. rows \in Seq(Row)
    BY TypeParts
<1>1. ASSUME NEW p \in Plans,
             \/ \E n \in Nodes, warp \in BOOLEAN : CreatePlan(p, n, warp)
             \/ PlanExpires(p) \/ GetPlan(p) \/ Provision(p)
      PROVE  OthersAreNotTaken'
    <2>1. UNCHANGED <<handler, files, history>>
        BY <1>1 DEF CreatePlan, PlanExpires, GetPlan, Provision
    <2> QED
        BY <2>1, OthersStay DEF files, history
<1>2. ASSUME NEW p \in Plans, AuthorizeWarpTakeover(p)
      PROVE  OthersAreNotTaken'
    <2>1. UNCHANGED <<handler, files, theirs, intruded>> /\ approved'
        BY <1>2 DEF AuthorizeWarpTakeover, TakeoverAllowed
    <2> QED
        BY <2>1, OthersStay DEF files
<1>3. ASSUME \/ \E S \in SUBSET Nodes : Retry(S)
             \/ \E n \in Nodes : Publish(n) \/ Reconfigure(n) \/ NodeSettles(n)
             \/ MachineFails \/ OverdueHeartbeat
             \/ Hello \/ Heartbeat \/ CheckIsDue \/ Claim \/ Result \/ Discover \/ UNCHANGED vars
      PROVE  OthersAreNotTaken'
    <2>1. UNCHANGED <<handler, files, theirs, approved, intruded>>
        BY <1>3 DEF Retry, Publish, Reconfigure, NodeSettles, MachineFails, OverdueHeartbeat,
                    Hello, Heartbeat, CheckIsDue, Claim, Result, Discover, vars, history
    <2> QED
        BY <2>1, OthersStay DEF files
<1>4. ASSUME DeadlineExceeded
      PROVE  OthersAreNotTaken'
    <2>1. UNCHANGED <<record, cli, theirs, approved, intruded>>
        BY <1>4 DEF DeadlineExceeded, files, history
    <2>2. CASE handler' = handler
        BY <2>1, <2>2, OthersStay
    <2>3. CASE handler # Idle /\ handler' = [handler EXCEPT !.orphan = TRUE]
        <3>1. handler'.at = handler.at /\ handler' # Idle
            BY <2>3 DEF IInv, HandlerHasPlace, Idle
        <3> QED
            BY <2>1, <2>3, <3>1 DEF OthersAreNotTaken, At
    <2> QED
        BY <1>4, <2>2, <2>3 DEF DeadlineExceeded
<1>5. ASSUME Begin
      PROVE  OthersAreNotTaken'
    BY <1>0, <1>5, OthersBegin
<1>6. ASSUME Disconnect
      PROVE  OthersAreNotTaken'
    <2>1. /\ handler' = Idle /\ UNCHANGED <<cli, theirs, approved, intruded>>
          /\ UNCHANGED record \/ approved
        BY <1>6 DEF Disconnect, OthersAreNotTaken, history
    <2> QED
        BY <2>1, OthersIdle DEF OthersAreNotTaken
<1>7. ASSUME OthersInstall
      PROVE  OthersAreNotTaken'
    <2>1. /\ UNCHANGED <<handler, record, approved>> /\ intruded' = (intruded \/ record \in Ours)
        BY <1>7 DEF OthersInstall
    <2>2. At("configure") => record \in Ours
        BY DEF IInv, PlacesAreBacked
    <2> QED
        BY <2>1, <2>2 DEF OthersAreNotTaken, At
<1>8. ASSUME OthersRemove \/ WarpChanges
      PROVE  OthersAreNotTaken'
    <2>1. UNCHANGED <<handler, record, theirs, approved, intruded>> /\ (cli' => cli)
        BY <1>8 DEF OthersRemove, WarpChanges, history
    <2> QED
        BY <2>1 DEF OthersAreNotTaken, At
<1> QED
    BY <1>1, <1>2, <1>3, <1>4, <1>5, <1>6, <1>7, <1>8, OthersHandler DEF Next

THEOREM OthersAreNeverTaken == Spec => []OthersAreNotTaken
<1>1. Init => OthersAreNotTaken
    BY DEF Init, OthersAreNotTaken, At, Ours, Idle
<1>2. Base /\ OthersAreNotTaken /\ [Next]_vars => OthersAreNotTaken'
    BY OthersSteps DEF Base
<1> QED
    BY <1>1, <1>2, BaseHolds, PTL DEF Spec

(* A WARP that others installed is never reconfigured without an allowed   *)
(* takeover, unless it replaced the Agent's own, and never by a 3X-UI.     *)
THEOREM OthersWarpStaysUntouched == Spec => OthersWarpIsUntouched
<1>1. Base /\ OthersAreNotTaken /\ [Next]_vars =>
          [Configures /\ theirs => (approved \/ intruded) /\ ~xui]_vars
    BY DEF Base, IInv, PlacesAreBacked, OthersAreNotTaken, Configures, At, Mutates
<1> QED
    BY <1>1, BaseHolds, OthersAreNeverTaken, PTL DEF Spec, OthersWarpIsUntouched

-----------------------------------------------------------------------------
(* A plan that waits has its command.                                      *)
UnusedPlansAreFresh == \A p \in Plans : plan[p].status = "none" => ~plan[p].takeover

KindFor(p) == IF plan[p].takeover THEN "authorize_warp_takeover" ELSE "discover_host"
WorkedOn(p) == \E i \in DOMAIN rows : rows[i].plan = p /\ rows[i].kind = KindFor(p)
Waits(p) == p \notin swept /\ plan[p].status = "PENDING" /\ ~plan[p].late

(* A plan whose command was cancelled with the Machine's stays that.       *)
SweptKept == \A p \in Plans : p \in swept => p \in swept'

LEMMA SweptStays ==
    ASSUME [Next]_vars
    PROVE  SweptKept
<1>. USE DEF history
<1>1. ASSUME NEW p \in Plans,
             \/ \E n \in Nodes, warp \in BOOLEAN : CreatePlan(p, n, warp)
             \/ PlanExpires(p) \/ GetPlan(p) \/ AuthorizeWarpTakeover(p) \/ Provision(p)
      PROVE  UNCHANGED swept
    BY <1>1 DEF CreatePlan, PlanExpires, GetPlan, AuthorizeWarpTakeover, Provision
<1>2. ASSUME \/ \E S \in SUBSET Nodes : Retry(S)
             \/ \E n \in Nodes : Publish(n) \/ Reconfigure(n) \/ NodeSettles(n)
      PROVE  UNCHANGED swept
    BY <1>2 DEF Retry, Publish, Reconfigure, NodeSettles
<1>3. ASSUME \/ Hello \/ Heartbeat \/ OverdueHeartbeat \/ CheckIsDue \/ Claim \/ Result
             \/ DeadlineExceeded \/ Discover \/ Begin \/ Disconnect
             \/ OthersInstall \/ OthersRemove \/ WarpChanges \/ UNCHANGED vars
      PROVE  UNCHANGED swept
    BY <1>3 DEF Hello, Heartbeat, OverdueHeartbeat, CheckIsDue, Claim, Result, DeadlineExceeded,
                Discover, Begin, Disconnect, OthersInstall, OthersRemove, WarpChanges, vars
<1>4. ASSUME HandlerSteps
      PROVE  UNCHANGED swept
    BY <1>4 DEF HandlerSteps, VerifyCompatibleExternal, Detect3XUI, CheckOwnership,
                EnsureInstalled, Configure, Persist, EnsureRelay, Adopt, CreateOwnership,
                FillOwnership, Fails
<1>5. ASSUME MachineFails
      PROVE  SweptKept
    BY <1>5 DEF MachineFails, SweptKept
<1>6. UNCHANGED swept => SweptKept
    BY DEF SweptKept
<1> QED
    BY <1>1, <1>2, <1>3, <1>4, <1>5, <1>6 DEF Next

PlansInv == UnusedPlansAreFresh /\ PendingPlanIsWorkedOn

LEMMA PendingIsWorkedOn ==
    PendingPlanIsWorkedOn <=> \A p \in Plans : Waits(p) => WorkedOn(p)
BY DEF PendingPlanIsWorkedOn, Waits, WorkedOn, KindFor

(* The rows I have successors for the same plan and of the same kind.      *)
Carried(I) ==
    \A i \in I : \E l \in DOMAIN rows' :
        rows'[l].plan = rows[i].plan /\ rows'[l].kind = rows[i].kind

LEMMA SuccessionCarries ==
    ASSUME NEW I, Succession(I)
    PROVE  Carried(I)
BY DEF Succession, Carried

LEMMA WarpRowCarries ==
    ASSUME rows \in Seq(Row), NEW mode \in Modes, rows' = rows \o WarpRow(mode)
    PROVE  Carried(DOMAIN rows)
BY WarpRowAppended, SuccessionCarries

LEMMA StoredCarries ==
    ASSUME rows \in Seq(Row), NEW outcome, NEW found, Stored(outcome, found)
    PROVE  Carried(DOMAIN rows)
<1>1. DOMAIN rows' = DOMAIN rows
    BY DEF Stored
<1>2. ASSUME NEW i \in DOMAIN rows
      PROVE  rows'[i].plan = rows[i].plan /\ rows'[i].kind = rows[i].kind
    <2>1. rows'[i] \in {rows[i], [rows[i] EXCEPT !.stored = outcome, !.found = found]}
        BY DEF Stored
    <2>2. rows[i] \in Row
        BY RowAt
    <2> QED
        BY <2>1, <2>2 DEF Row
<1> QED
    BY <1>1, <1>2 DEF Carried

LEMMA SameRowsCarry == UNCHANGED rows => Carried(DOMAIN rows)
BY DEF Carried

(* Steps that leave the plans alone, and carry every row.                  *)
LEMMA PlansStay ==
    ASSUME PlansInv, SweptKept, UNCHANGED plan, Carried(DOMAIN rows)
    PROVE  PlansInv'
<1>1. UnusedPlansAreFresh'
    BY DEF PlansInv, UnusedPlansAreFresh, Plans
<1>2. \A p \in Plans : Waits(p) => WorkedOn(p)
    BY PendingIsWorkedOn DEF PlansInv
<1>3. ASSUME NEW p \in Plans, Waits(p)'
      PROVE  WorkedOn(p)'
    <2>1. Waits(p) /\ KindFor(p)' = KindFor(p)
        BY <1>3 DEF Waits, KindFor, SweptKept
    <2>2. PICK i \in DOMAIN rows : rows[i].plan = p /\ rows[i].kind = KindFor(p)
        BY <1>2, <2>1 DEF WorkedOn
    <2>3. PICK l \in DOMAIN rows' : rows'[l].plan = rows[i].plan /\ rows'[l].kind = rows[i].kind
        BY DEF Carried
    <2> QED
        BY <2>1, <2>2, <2>3 DEF WorkedOn
<1>4. PendingPlanIsWorkedOn'
    BY <1>3 DEF PendingPlanIsWorkedOn, Waits, WorkedOn, KindFor, Plans
<1> QED
    BY <1>1, <1>4 DEF PlansInv

(* A plan that does not wait any more.                                     *)
LEMMA OnePlanMoves ==
    ASSUME PlansInv, SweptKept, Carried(DOMAIN rows), NEW p,
           \A q \in Plans : q # p => plan'[q] = plan[q],
           p \in Plans => plan'[p].status # "none" /\ ~Waits(p)'
    PROVE  PlansInv'
<1>1. UnusedPlansAreFresh'
    BY DEF PlansInv, UnusedPlansAreFresh, Plans
<1>2. \A q \in Plans : Waits(q) => WorkedOn(q)
    BY PendingIsWorkedOn DEF PlansInv
<1>3. ASSUME NEW q \in Plans, Waits(q)'
      PROVE  WorkedOn(q)'
    <2>1. q # p /\ plan'[q] = plan[q]
        BY <1>3
    <2>2. Waits(q) /\ KindFor(q)' = KindFor(q)
        BY <1>3, <2>1 DEF Waits, KindFor, SweptKept
    <2>3. PICK i \in DOMAIN rows : rows[i].plan = q /\ rows[i].kind = KindFor(q)
        BY <1>2, <2>2 DEF WorkedOn
    <2>4. PICK l \in DOMAIN rows' : rows'[l].plan = rows[i].plan /\ rows'[l].kind = rows[i].kind
        BY DEF Carried
    <2> QED
        BY <2>2, <2>3, <2>4 DEF WorkedOn
<1>4. PendingPlanIsWorkedOn'
    BY <1>3 DEF PendingPlanIsWorkedOn, Waits, WorkedOn, KindFor, Plans
<1> QED
    BY <1>1, <1>4 DEF PlansInv

(* A command ends and its row goes: if a plan waited for it, the plan is   *)
(* decided.                                                                *)
LEMMA RowEnds ==
    ASSUME TypeOK, PlansInv, SweptKept, NEW i \in DOMAIN rows, rows' = Without(i),
           \/ rows[i].kind = "reconcile_warp" /\ UNCHANGED plan
           \/ /\ rows[i].kind # "reconcile_warp"
              /\ \E s \in {"READY", "BLOCKED", "EXPIRED", "FAILED"}, f \in Findings :
                    \/ plan' = [plan EXCEPT ![rows[i].plan].status = s, ![rows[i].plan].found = f]
                       /\ plan[rows[i].plan].status = "PENDING"
                    \/ plan' = [plan EXCEPT ![rows[i].plan].status =
                                                IF @ = "PENDING" THEN s ELSE @]
    PROVE  PlansInv'
<1> DEFINE I == DOMAIN rows \ {i}
           p == rows[i].plan
<1>1. rows \in Seq(Row) /\ PlansTyped
    BY TypeParts DEF PanelTyped
<1>2. Carried(I)
    <2>1. Thinned(rows', I)
        BY <1>1, ThinnedWithout
    <2> QED
        BY <2>1, OnlyKept, SuccessionCarries
<1>3. UnusedPlansAreFresh /\ \A q \in Plans : Waits(q) => WorkedOn(q)
    BY PendingIsWorkedOn DEF PlansInv
<1>4. ASSUME NEW q \in Plans
      PROVE  /\ plan'[q].status = "none" => plan[q].status = "none"
             /\ plan'[q].takeover = plan[q].takeover
             /\ Waits(q)' => Waits(q) /\ (q = p => rows[i].kind = "reconcile_warp")
    <2>1. CASE UNCHANGED plan /\ rows[i].kind = "reconcile_warp"
        BY <2>1 DEF Waits, SweptKept
    <2>2. ASSUME NEW s \in {"READY", "BLOCKED", "EXPIRED", "FAILED"}, NEW f \in Findings,
                 plan' = [plan EXCEPT ![p].status = s, ![p].found = f]
          PROVE  /\ plan'[q].status = "none" => plan[q].status = "none"
                 /\ plan'[q].takeover = plan[q].takeover
                 /\ Waits(q)' => Waits(q) /\ q # p
        <3>1. /\ plan[q] \in PlanRecords
              /\ plan'[q] = IF q = p THEN [plan[q] EXCEPT !.status = s, !.found = f] ELSE plan[q]
            BY <1>1, <2>2 DEF PlansTyped
        <3> QED
            BY <3>1 DEF PlanRecords, Waits, SweptKept
    <2>3. ASSUME NEW s \in {"READY", "BLOCKED", "EXPIRED", "FAILED"},
                 plan' = [plan EXCEPT ![p].status = IF @ = "PENDING" THEN s ELSE @]
          PROVE  /\ plan'[q].status = "none" => plan[q].status = "none"
                 /\ plan'[q].takeover = plan[q].takeover
                 /\ Waits(q)' => Waits(q) /\ q # p
        <3>1. plan[q] \in PlanRecords
              /\ plan'[q] = IF q = p THEN [plan[q] EXCEPT !.status = IF plan[q].status = "PENDING"
                                                                     THEN s ELSE plan[q].status]
                                     ELSE plan[q]
            BY <1>1, <2>3 DEF PlansTyped
        <3> QED
            BY <3>1 DEF PlanRecords, Waits, SweptKept
    <2> QED
        BY <2>1, <2>2, <2>3
<1>5. ASSUME NEW q \in Plans, Waits(q)'
      PROVE  WorkedOn(q)'
    <2>1. Waits(q) /\ (q = p => rows[i].kind = "reconcile_warp") /\ KindFor(q)' = KindFor(q)
        BY <1>4, <1>5 DEF KindFor
    <2>2. PICK j \in DOMAIN rows : rows[j].plan = q /\ rows[j].kind = KindFor(q)
        BY <1>3, <2>1 DEF WorkedOn
    <2>3. j # i
        BY <2>1, <2>2 DEF KindFor
    <2>4. PICK l \in DOMAIN rows' : rows'[l].plan = rows[j].plan /\ rows'[l].kind = rows[j].kind
        BY <1>2, <2>3 DEF Carried
    <2> QED
        BY <2>1, <2>2, <2>4 DEF WorkedOn
<1>6. PendingPlanIsWorkedOn'
    BY <1>5 DEF PendingPlanIsWorkedOn, Waits, WorkedOn, KindFor, Plans
<1>7. UnusedPlansAreFresh'
    BY <1>3, <1>4 DEF UnusedPlansAreFresh, Plans
<1> QED
    BY <1>6, <1>7 DEF PlansInv

LEMMA FailingPlans ==
    ASSUME NEW r \in Row, Failing(r)
    PROVE  \/ r.kind = "reconcile_warp" /\ UNCHANGED plan
           \/ /\ r.kind # "reconcile_warp"
              /\ \E s \in {"BLOCKED", "FAILED"} :
                    plan' = [plan EXCEPT ![r.plan].status = IF @ = "PENDING" THEN s ELSE @]
<1>1. CASE r.kind = "reconcile_warp"
    BY <1>1 DEF Failing, WarpFails
<1>2. CASE r.kind # "reconcile_warp"
    <2>1. plan' = [plan EXCEPT ![r.plan].status = IF @ = "PENDING" THEN BackTo(r.kind) ELSE @]
        BY <1>2 DEF Failing, PlanFails
    <2>2. BackTo(r.kind) \in {"BLOCKED", "FAILED"}
        BY DEF BackTo
    <2> QED
        BY <1>2, <2>1, <2>2
<1> QED
    BY <1>1, <1>2

LEMMA SucceedsPlans ==
    ASSUME NEW r \in Row, Succeeds(r)
    PROVE  \/ r.kind = "reconcile_warp" /\ UNCHANGED plan
           \/ /\ r.kind # "reconcile_warp"
              /\ \/ plan' = [plan EXCEPT ![r.plan].status = IF @ = "PENDING" THEN "EXPIRED" ELSE @]
                 \/ /\ plan[r.plan].status = "PENDING"
                    /\ \E s \in {"READY", "BLOCKED"} :
                          plan' = [plan EXCEPT ![r.plan].status = s, ![r.plan].found = r.found]
<1>1. CASE r.kind = "discover_host"
    BY <1>1 DEF Succeeds, Discovered
<1>2. CASE r.kind = "authorize_warp_takeover"
    BY <1>2 DEF Succeeds, TakenOver
<1>3. CASE r.kind = "reconcile_warp"
    BY <1>3 DEF Succeeds, WarpConnected
<1> QED
    BY <1>1, <1>2, <1>3 DEF Row

LEMMA FailingEnds ==
    ASSUME TypeOK, PlansInv, SweptKept, NEW i \in DOMAIN rows, rows' = Without(i), Failing(rows[i])
    PROVE  PlansInv'
<1>1. rows[i] \in Row
    BY RowAt, TypeParts
<1>2. "unknown" \in Findings
    BY DEF Findings
<1> QED
    BY <1>1, <1>2, FailingPlans, RowEnds

LEMMA SucceedsEnds ==
    ASSUME TypeOK, PlansInv, SweptKept, NEW i \in DOMAIN rows, rows' = Without(i), Succeeds(rows[i])
    PROVE  PlansInv'
<1>1. rows[i] \in Row /\ rows[i].found \in Findings
    BY RowAt, RowFields, TypeParts DEF RowFieldsAre
<1> QED
    BY <1>1, SucceedsPlans, RowEnds

LEMMA PlanStepsWait ==
    ASSUME TypeOK, PlansInv, SweptKept, NEW p \in Plans,
           PlanExpires(p) \/ GetPlan(p) \/ Provision(p)
    PROVE  PlansInv'
<1>1. PlansTyped /\ rows \in Seq(Row)
    BY TypeParts DEF PanelTyped
<1>2. Carried(DOMAIN rows)
    <2>1. PlanExpires(p) \/ GetPlan(p) => UNCHANGED rows
        BY DEF PlanExpires, GetPlan
    <2>2. Provision(p) => rows' = rows \o WarpRow(ModeFor(p))
        BY DEF Provision
    <2> QED
        BY <1>1, <2>1, <2>2, ModesOfPlans, WarpRowCarries, SameRowsCarry
<1>3. \A q \in Plans : q # p => plan'[q] = plan[q]
    BY <1>1 DEF PlanExpires, GetPlan, Provision, PlansTyped
<1>4. plan'[p].status # "none" /\ (plan'[p].status # "PENDING" \/ plan'[p].late)
    <2>1. CASE PlanExpires(p)
        BY <1>1, <2>1 DEF PlanExpires, Live, PlansTyped, PlanRecords
    <2>2. CASE GetPlan(p)
        BY <1>1, <2>2 DEF GetPlan, PlansTyped, PlanRecords
    <2>3. CASE Provision(p)
        BY <1>1, <2>3 DEF Provision, PlansTyped, PlanRecords
    <2> QED
        BY <2>1, <2>2, <2>3
<1>5. plan'[p].status # "none" /\ ~Waits(p)'
    BY <1>4 DEF Waits
<1> QED
    BY <1>2, <1>3, <1>5, OnePlanMoves

(* The command of a new plan is put behind the rows, and no other plan     *)
(* waits any more; that of a takeover too, and the others wait as before.  *)
LEMMA CreatePlanWaits ==
    ASSUME TypeOK, PlansInv, NEW p \in Plans, NEW n \in Nodes, NEW warp \in BOOLEAN,
           CreatePlan(p, n, warp)
    PROVE  PlansInv'
<1> DEFINE c == Command("discover_host", p, "none")
<1>1. PlansTyped /\ rows \in Seq(Row)
    BY TypeParts DEF PanelTyped
<1>2. PICK q \in Seq(Row) : rows' = Append(q, c)
    <2> DEFINE Kept(r) == r.running \/ r.plan = 0 \/ ~Live(r.plan)
               I == {i \in DOMAIN rows : Kept(rows[i])}
    <2>1. rows' = Append(Subsequence(rows, I), c)
        BY DEF CreatePlan
    <2>2. Thinned(Subsequence(rows, I), I)
        BY <1>1, ThinnedSubsequence
    <2>3. Subsequence(rows, I) \in Seq(Row)
        BY <2>2 DEF Thinned
    <2> QED
        BY <2>1, <2>3
<1>3. /\ Len(q) + 1 \in DOMAIN rows' /\ rows'[Len(q) + 1] = c
    <2> HIDE DEF c
    <2> QED
        BY <1>2
<1>4. c.plan = p /\ c.kind = "discover_host"
    BY DEF Command
<1> HIDE DEF c
<1>5. /\ ~plan[p].takeover
      /\ \A m \in Plans : plan'[m] = IF m = p THEN [plan[p] EXCEPT !.status = "PENDING", !.node = n,
                                                                   !.warp = warp]
                                     ELSE IF Live(m) THEN [plan[m] EXCEPT !.status = "EXPIRED"]
                                     ELSE plan[m]
    BY DEF CreatePlan, PlansInv, UnusedPlansAreFresh
<1>6. ASSUME NEW m \in Plans
      PROVE  /\ m # p => ~Waits(m)'
             /\ m = p => KindFor(m)' = "discover_host"
             /\ plan'[m].status = "none" => ~plan'[m].takeover
    <2>1. plan[m] \in PlanRecords
        BY <1>1 DEF PlansTyped
    <2>2. CASE m = p
        BY <1>5, <2>1, <2>2 DEF PlanRecords, KindFor
    <2>3. CASE m # p /\ Live(m)
        BY <1>5, <2>1, <2>3 DEF PlanRecords, Waits
    <2>4. CASE m # p /\ ~Live(m)
        BY <1>5, <2>1, <2>4 DEF Waits, Live, PlansInv, UnusedPlansAreFresh
    <2> QED
        BY <2>2, <2>3, <2>4
<1>7. ASSUME NEW m \in Plans, Waits(m)'
      PROVE  WorkedOn(m)'
    BY <1>3, <1>4, <1>6, <1>7 DEF WorkedOn
<1>8. PendingPlanIsWorkedOn'
    BY <1>7 DEF PendingPlanIsWorkedOn, Waits, WorkedOn, KindFor, Plans
<1>9. UnusedPlansAreFresh'
    BY <1>6 DEF UnusedPlansAreFresh, Plans
<1> QED
    BY <1>8, <1>9 DEF PlansInv

LEMMA AuthorizeWaits ==
    ASSUME TypeOK, PlansInv, SweptKept, NEW p \in Plans, AuthorizeWarpTakeover(p)
    PROVE  PlansInv'
<1> DEFINE c == Command("authorize_warp_takeover", p, "none")
<1>1. PlansTyped /\ rows \in Seq(Row)
    BY TypeParts DEF PanelTyped
<1>2. rows' = Append(rows, c)
    BY DEF AuthorizeWarpTakeover
<1>3. c.plan = p /\ c.kind = "authorize_warp_takeover"
    BY DEF Command
<1> HIDE DEF c
<1>4. /\ Len(rows) + 1 \in DOMAIN rows' /\ rows'[Len(rows) + 1] = c
      /\ \A i \in DOMAIN rows : i \in DOMAIN rows' /\ rows'[i] = rows[i]
    BY <1>1, <1>2
<1>5. \A q \in Plans : /\ q # p => plan'[q] = plan[q]
                       /\ q = p => plan'[q].takeover /\ plan'[q].status = "PENDING"
    BY <1>1 DEF AuthorizeWarpTakeover, PlansTyped, PlanRecords
<1>6. \A q \in Plans : Waits(q) => WorkedOn(q)
    BY PendingIsWorkedOn DEF PlansInv
<1>7. ASSUME NEW q \in Plans, Waits(q)'
      PROVE  WorkedOn(q)'
    <2>1. CASE q = p
        <3>1. KindFor(q)' = "authorize_warp_takeover"
            BY <1>5, <2>1 DEF KindFor
        <3> QED
            BY <1>3, <1>4, <2>1, <3>1 DEF WorkedOn
    <2>2. CASE q # p
        <3>1. plan'[q] = plan[q]
            BY <1>5, <2>2
        <3>2. Waits(q) /\ KindFor(q)' = KindFor(q)
            BY <1>7, <3>1 DEF Waits, KindFor, SweptKept
        <3>3. PICK i \in DOMAIN rows : rows[i].plan = q /\ rows[i].kind = KindFor(q)
            BY <1>6, <3>2 DEF WorkedOn
        <3> QED
            BY <1>4, <3>2, <3>3 DEF WorkedOn
    <2> QED
        BY <2>1, <2>2
<1>8. PendingPlanIsWorkedOn'
    BY <1>7 DEF PendingPlanIsWorkedOn, Waits, WorkedOn, KindFor, Plans
<1>9. UnusedPlansAreFresh'
    BY <1>5 DEF PlansInv, UnusedPlansAreFresh, Plans
<1> QED
    BY <1>8, <1>9 DEF PlansInv

(* Retries, hellos and heartbeats put commands behind the rows; claims and *)
(* handlers mark rows.                                                     *)
LEMMA RetryWaits ==
    ASSUME TypeOK, PlansInv, SweptKept, NEW S \in SUBSET Nodes, Retry(S)
    PROVE  PlansInv'
<1>1. rows \in Seq(Row) /\ UNCHANGED plan
    BY TypeParts DEF Retry
<1>2. UNCHANGED rows \/ \E n \in S : rows' = rows \o WarpRow(node[n].mode)
    BY DEF Retry
<1>3. \A n \in S : node[n].mode \in Modes
    BY DEF TypeOK
<1> QED
    BY <1>1, <1>2, <1>3, WarpRowCarries, SameRowsCarry, PlansStay

LEMMA HeartbeatWaits ==
    ASSUME TypeOK, PlansInv, SweptKept, Heartbeat \/ OverdueHeartbeat
    PROVE  PlansInv'
<1>1. /\ rows \in Seq(Row) /\ UNCHANGED plan
      /\ EnsureWarpCommand(rows, FALSE) \/ EnsureBesideOverdue(rows, FALSE)
    BY TypeParts DEF Heartbeat, OverdueHeartbeat, panel
<1> QED
    BY <1>1, EnsureAdds, SuccessionCarries, PlansStay

LEMMA HelloWaits ==
    ASSUME TypeOK, PlansInv, SweptKept, Hello
    PROVE  PlansInv'
<1> DEFINE q == [i \in DOMAIN rows |-> [rows[i] EXCEPT !.running = FALSE]]
<1>1. rows \in Seq(Row) /\ UNCHANGED plan
    BY TypeParts DEF Hello, panel
<1>2. /\ DOMAIN rows = 1 .. Len(rows) /\ Len(rows) \in Nat
      /\ \A i \in DOMAIN rows : rows[i] \in Row
    BY <1>1, LenProperties, RowAt
<1>3. \A i \in DOMAIN rows : q[i] \in Row /\ q[i].kind = rows[i].kind /\ q[i].plan = rows[i].plan
    BY <1>2 DEF Row
<1>4. q \in Seq(Row) /\ DOMAIN q = DOMAIN rows
    <2>1. q \in [1 .. Len(rows) -> Row]
        BY <1>2, <1>3
    <2> QED
        BY <1>2, <2>1, SeqDef
<1>5. EnsureWarpCommand(q, TRUE) \/ EnsureBesideOverdue(q, TRUE)
    BY DEF Hello
<1> HIDE DEF q
<1>6. ASSUME NEW n \in WarpNodes, rows' = q \o WarpRow(node[n].mode)
      PROVE  \A i \in DOMAIN q : i \in DOMAIN rows' /\ rows'[i] = q[i]
    <2> DEFINE new == WarpRow(node[n].mode)
    <2>1. node[n].mode \in Modes
        BY DEF TypeOK, WarpNodes
    <2>2. PICK F : new \in Seq(F)
        BY <2>1, WarpRowIsFresh
    <2>3. rows' = q \o new
        BY <1>6
    <2> HIDE DEF new
    <2> QED
        BY <1>4, <2>2, <2>3
<1>7. \A i \in DOMAIN q : i \in DOMAIN rows' /\ rows'[i] = q[i]
    BY <1>5, <1>6 DEF EnsureWarpCommand, EnsureBesideOverdue, QueuesWarp
<1>8. Carried(DOMAIN rows)
    BY <1>3, <1>4, <1>7 DEF Carried
<1> QED
    BY <1>1, <1>8, PlansStay

LEMMA ClaimWaits ==
    ASSUME TypeOK, PlansInv, SweptKept, Claim
    PROVE  PlansInv'
<1>1. PICK i \in DOMAIN rows : rows' = [rows EXCEPT ![i].running = TRUE]
    BY DEF Claim
<1>2. UNCHANGED plan /\ \A j \in DOMAIN rows : rows[j] \in Row
    BY RowAt, TypeParts DEF Claim, panel
<1>3. \A j \in DOMAIN rows : /\ j \in DOMAIN rows'
                             /\ rows'[j].plan = rows[j].plan /\ rows'[j].kind = rows[j].kind
    BY <1>1, <1>2 DEF Row
<1>4. Carried(DOMAIN rows)
    BY <1>3 DEF Carried
<1> QED
    BY <1>2, <1>4, PlansStay

LEMMA AgentWaits ==
    ASSUME TypeOK, PlansInv, SweptKept, Discover \/ HandlerSteps \/ Disconnect
    PROVE  PlansInv'
<1>1. rows \in Seq(Row) /\ UNCHANGED plan
    BY TypeParts DEF Discover, HandlerSteps, Disconnect, VerifyCompatibleExternal, Detect3XUI,
                     CheckOwnership, EnsureInstalled, Configure, Persist, EnsureRelay, Adopt,
                     CreateOwnership, FillOwnership, Fails, panel
<1>2. UNCHANGED rows \/ \E outcome, found : Stored(outcome, found)
    <2>1. CASE Discover
        BY <2>1 DEF Discover
    <2>2. CASE HandlerSteps
        <3>1. \/ \E place \in Places : Goto(place)
              \/ \E outcome \in {"succeeded", "failed"} : Ends(outcome)
            BY <2>2 DEF HandlerSteps, VerifyCompatibleExternal, Detect3XUI, CheckOwnership,
                        EnsureInstalled, Configure, Persist, EnsureRelay, Adopt,
                        CreateOwnership, FillOwnership, Fails, Places
        <3> QED
            BY <3>1 DEF Goto, Ends
    <2>3. CASE Disconnect
        BY <2>3 DEF Disconnect
    <2> QED
        BY <2>1, <2>2, <2>3
<1>3. CASE UNCHANGED rows
    BY <1>1, <1>3, SameRowsCarry, PlansStay
<1>4. ASSUME NEW outcome, NEW found, Stored(outcome, found)
      PROVE  PlansInv'
    BY <1>1, <1>4, StoredCarries, PlansStay
<1> QED
    BY <1>2, <1>3, <1>4

(* A plan that is not swept keeps its command when the Machine fails,      *)
(* because it runs.                                                        *)
LEMMA MachineFailsWaits ==
    ASSUME TypeOK, PlansInv, SweptKept, MachineFails
    PROVE  PlansInv'
<1>1. rows \in Seq(Row) /\ UNCHANGED plan
    BY TypeParts DEF MachineFails
<1>2. Carried(Runs)
    BY <1>1, MachineFailsKeeps, SuccessionCarries
<1>3. UnusedPlansAreFresh /\ \A p \in Plans : Waits(p) => WorkedOn(p)
    BY PendingIsWorkedOn DEF PlansInv
<1>4. ASSUME NEW p \in Plans, Waits(p)'
      PROVE  WorkedOn(p)'
    <2>1. Waits(p) /\ KindFor(p)' = KindFor(p)
        BY <1>1, <1>4 DEF Waits, KindFor, SweptKept
    <2>2. PICK i \in DOMAIN rows : rows[i].plan = p /\ rows[i].kind = KindFor(p)
        BY <1>3, <2>1 DEF WorkedOn
    <2>3. i \in Runs
        BY <1>4, <2>2 DEF MachineFails, Waits, Runs
    <2>4. PICK l \in DOMAIN rows' : rows'[l].plan = rows[i].plan /\ rows'[l].kind = rows[i].kind
        BY <1>2, <2>3 DEF Carried
    <2> QED
        BY <2>1, <2>2, <2>4 DEF WorkedOn
<1>5. PendingPlanIsWorkedOn'
    BY <1>4 DEF PendingPlanIsWorkedOn, Waits, WorkedOn, KindFor, Plans
<1>6. UnusedPlansAreFresh'
    BY <1>1, <1>3 DEF UnusedPlansAreFresh, Plans
<1> QED
    BY <1>5, <1>6 DEF PlansInv

LEMMA PlansSteps ==
    ASSUME TypeOK, PlansInv, [Next]_vars
    PROVE  PlansInv'
<1>0. SweptKept
    BY SweptStays
<1>1. ASSUME NEW p \in Plans,
             \/ \E n \in Nodes, warp \in BOOLEAN : CreatePlan(p, n, warp)
             \/ PlanExpires(p) \/ GetPlan(p) \/ AuthorizeWarpTakeover(p) \/ Provision(p)
      PROVE  PlansInv'
    BY <1>0, <1>1, CreatePlanWaits, PlanStepsWait, AuthorizeWaits
<1>2. ASSUME NEW S \in SUBSET Nodes, Retry(S)
      PROVE  PlansInv'
    BY <1>0, <1>2, RetryWaits
<1>3. ASSUME \/ \E n \in Nodes : Publish(n) \/ Reconfigure(n) \/ NodeSettles(n)
             \/ CheckIsDue \/ Begin \/ OthersInstall \/ OthersRemove \/ WarpChanges
             \/ UNCHANGED vars
      PROVE  PlansInv'
    <2>1. UNCHANGED <<plan, rows>>
        BY <1>3 DEF Publish, Reconfigure, NodeSettles, CheckIsDue, Begin, OthersInstall,
                    OthersRemove, WarpChanges, panel, vars
    <2> QED
        BY <1>0, <2>1, SameRowsCarry, PlansStay
<1>4. ASSUME Hello \/ Heartbeat \/ OverdueHeartbeat \/ Claim \/ MachineFails
      PROVE  PlansInv'
    BY <1>0, <1>4, HelloWaits, HeartbeatWaits, ClaimWaits, MachineFailsWaits
<1>5. ASSUME Result
      PROVE  PlansInv'
    <2>1. PICK i \in DOMAIN rows :
              /\ rows' = Without(i)
              /\ IF rows[i].stored = "succeeded" THEN Succeeds(rows[i]) ELSE Failing(rows[i])
        BY <1>5 DEF Result
    <2>2. Succeeds(rows[i]) \/ Failing(rows[i])
        BY <2>1
    <2> QED
        BY <1>0, <2>1, <2>2, SucceedsEnds, FailingEnds
<1>6. ASSUME DeadlineExceeded
      PROVE  PlansInv'
    <2>1. PICK i \in DOMAIN rows : rows' = Without(i) /\ Failing(rows[i])
        BY <1>6 DEF DeadlineExceeded
    <2> QED
        BY <1>0, <2>1, FailingEnds
<1> QED
    BY <1>0, <1>1, <1>2, <1>3, <1>4, <1>5, <1>6, AgentWaits DEF Next

(* A plan that waits for a discovery or a takeover has a command for it,   *)
(* unless its time is over or that command was cancelled with all others   *)
(* when the Machine failed, for any number of plans, requests, faults and  *)
(* events.                                                                 *)
THEOREM PendingPlansAreWorkedOn == Spec => []PendingPlanIsWorkedOn
<1>1. Init => PlansInv
    <2> SUFFICES ASSUME Init
                 PROVE  PlansInv
        OBVIOUS
    <2>1. \A p \in Plans : plan[p].status = "none" /\ plan[p].takeover = FALSE
        BY DEF Init
    <2> QED
        BY <2>1 DEF PlansInv, UnusedPlansAreFresh, PendingPlanIsWorkedOn
<1>2. Base /\ PlansInv /\ [Next]_vars => PlansInv'
    BY PlansSteps DEF Base
<1>3. PlansInv => PendingPlanIsWorkedOn
    BY DEF PlansInv
<1> QED
    BY <1>1, <1>2, <1>3, BaseHolds, PTL DEF Spec
=============================================================================
