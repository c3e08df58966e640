------------------------ MODULE AgentInstanceProofs ------------------------
(***************************************************************************)
(* The invariants of AgentInstance, for any number of instances, ports,    *)
(* versions, commands and interruptions.                                   *)
(*                                                                         *)
(* Each concern has an inductive invariant of its own over the types and   *)
(* the places of the handler (Handled): what the handler has established   *)
(* by the place where it is, and what an interruption there leaves.        *)
(***************************************************************************)
EXTENDS AgentInstance, TLAPS

ReconcilePlaces == {"inspect", "material", "writeKey", "writeShort", "pull", "start",
                    "stop", "remove", "create", "bind", "cleanup"}
BeforeRemoval == {"inspect", "material", "writeKey", "writeShort", "pull", "start",
                  "stop", "remove"}

Made == {"created", "running", "stopped"}       \* states of the Agent's containers

(* The places of a command, and what its handler has by then.              *)
Handled ==
    handler # Idle =>
        /\ handler.at \in ReconcilePlaces => handler.kind = "reconcile"
        /\ At("lifecycle") => handler.kind \in {"start", "stop"}
        /\ At("readPair") \/ At("writeChain") \/ At("writePrivate")
              => handler.kind = "certificate"
        /\ At("post") \/ At("rollback") \/ At("persist") \/ At("reportRollback")
              => handler.kind = "apply"
        /\ handler.kind = "reconcile" =>
              /\ handler.asked \in Ports /\ handler.version \in Versions
              /\ ~At("inspect") => handler.port \in Ports
        /\ At("inspect") => ~handler.existed
        /\ handler.kind = "apply" => handler.revision \in Revisions
        /\ commands \in 1 .. MaxCommands
        /\ At("writeKey") \/ At("writeShort") \/ At("writeChain") \/ At("writePrivate")
              => handler.drawn \in 1 .. MaxCommands
        /\ At("material") \/ At("writeKey") \/ At("writeShort") \/ At("pull")
              => (handler.existed => Mine.state \in Made)
        /\ At("start") \/ At("stop") => Mine.state \in Made
        /\ At("bind") => Mine.state = "created"

Base == TypeOK /\ Handled

(* A command that may start the instance has withdrawn what was said of    *)
(* its being stopped.                                                      *)
StoppedInv ==
    /\ StoppedStaysStopped
    /\ handler # Idle => /\ handler.kind \in {"reconcile", "start"} => ~stopped[I]
                         /\ At("report") /\ handler.kind = "stop" => Mine.state # "running"

(* Both files of a pair are of one drawing when the command ends, and a    *)
(* command that has found no pair leaves them as they were.                *)
CertificateInv ==
    /\ CertificateHasItsKey
    /\ At("readPair") => chain[I] = private[I] \/ <<I, "certificate">> \in cut
    /\ At("writePrivate") => chain[I] = handler.drawn
    /\ At("report") /\ handler.kind = "certificate" => chain[I] = private[I]

(* The key is written only where there is none and none was reported.      *)
MaterialInv ==
    /\ MaterialIsKept
    /\ \A i \in Instances : known[i] # Unknown => Whole(i)
    /\ At("writeKey") => I \in Reality /\ key[I] = Nothing
    /\ At("writeShort") => I \in Reality /\ key[I] = handler.drawn /\ short[I] = Nothing
    /\ At("pull") \/ At("start") \/ At("stop") \/ At("remove") \/ At("create")
         \/ At("bind") \/ At("cleanup") \/ (At("report") /\ handler.kind = "reconcile")
           => Whole(I)

(* What a reconciliation reports is the container it started.              *)
ServedInv ==
    /\ ReportedIsServed
    /\ handler # Idle =>
          /\ handler.kind = "reconcile" => ~served[I]
          /\ At("start") => Same
          /\ At("bind") => Mine.port = handler.port /\ Mine.version = handler.version
          /\ At("report") /\ handler.kind = "reconcile" => Same /\ Mine.state = "running"

(* A container that never ran was there before the command, or is the      *)
(* command's own.                                                          *)
RaceInv ==
    /\ RaceLeavesNothing
    /\ handler # Idle /\ handler.at \in BeforeRemoval =>
          (Mine.state = "created" => <<I, "reconcile">> \in cut \/ I \in crowded)
    /\ At("report") /\ handler.kind = "reconcile" => Mine.state # "created"

(* The last good configuration is the last applied one, unless an          *)
(* application ended between the two.                                      *)
ApplyInv ==
    /\ RolledBackToApplied
    /\ \A i \in Instances :
          \/ <<i, "apply">> \in cut
          \/ At("report") /\ I = i /\ handler.kind = "apply"
          \/ lastGood[i] = applied[i]
    /\ handler # Idle /\ handler.kind = "apply" => ~rolledBack[I]
    /\ At("report") /\ handler.kind = "apply" => lastGood[I] = handler.revision
    /\ At("reportRollback") => active[I] = lastGood[I]

IInv == Base /\ StoppedInv /\ CertificateInv /\ MaterialInv /\ ServedInv /\ RaceInv /\ ApplyInv

-----------------------------------------------------------------------------
(* What the steps do to a container, and what a command begins with.       *)
LEMMA ContainerShape ==
    ASSUME TypeOK, NEW i \in Instances
    PROVE  /\ container[i].state \in Made \cup {"none", "foreign"}
           /\ container[i].state \in Made =>
                 container[i] \in [state : Made, port : Ports, version : Versions]
<1>1. container[i] \in Container
    BY DEF TypeOK
<1>2. Absent.state = "none" /\ Foreign.state = "foreign"
    BY DEF Absent, Foreign
<1> QED
    BY <1>1, <1>2 DEF Container, Made

(* A state of a container is set, and nothing else of any.                 *)
LEMMA StateIsSet ==
    ASSUME TypeOK, NEW i \in Instances, container[i].state \in Made, NEW state \in Made,
           container' = [container EXCEPT ![i].state = state]
    PROVE  /\ container' \in [Instances -> Container]
           /\ container'[i].state = state
           /\ container'[i].port = container[i].port
           /\ container'[i].version = container[i].version
           /\ \A j \in Instances \ {i} : container'[j] = container[j]
<1>1. container[i] \in [state : Made, port : Ports, version : Versions]
    BY ContainerShape
<1>2. container \in [Instances -> Container]
    BY DEF TypeOK
<1>3. container' = [container EXCEPT ![i] = [container[i] EXCEPT !.state = state]]
    OBVIOUS
<1>4. [container[i] EXCEPT !.state = state] \in [state : Made, port : Ports, version : Versions]
    BY <1>1
<1>5. container'[i] = [container[i] EXCEPT !.state = state]
    BY <1>2, <1>3
<1> QED
    BY <1>1, <1>2, <1>3, <1>4, <1>5 DEF Container, Made

(* The container of the handler takes a state.                             *)
Turns(state) == /\ container' \in [Instances -> Container] /\ container'[I].state = state
                /\ container'[I].port = Mine.port /\ container'[I].version = Mine.version
                /\ \A j \in Instances \ {I} : container'[j] = container[j]

(* The handler at work, and its container.                                 *)
LEMMA Handles ==
    ASSUME Base, handler # Idle
    PROVE  /\ handler \in Handling /\ I \in Instances /\ handler.kind \in Kinds
           /\ Mine.state \in Made \cup {"none", "foreign"}
<1>1. handler \in Handling /\ I \in Instances /\ handler.kind \in Kinds
    BY DEF Base, TypeOK, Handling, I
<1> QED
    BY <1>1, ContainerShape DEF Base, Mine

(* Its state is set.                                                       *)
LEMMA Turned ==
    ASSUME Base, handler # Idle, Mine.state \in Made, NEW state \in Made,
           container' = [container EXCEPT ![I].state = state]
    PROVE  Turns(state)
BY Handles, StateIsSet DEF Base, Mine, Turns

(* What was reported of a container stays so when it starts or stops.      *)
LEMMA TurnedIsServed ==
    ASSUME Base, ReportedIsServed, handler # Idle, NEW state \in {"running", "stopped"},
           Turns(state), UNCHANGED <<served, known>>
    PROVE  ReportedIsServed'
<1>1. I \in Instances
    BY Handles
<1>2. ASSUME NEW i \in Instances, served[i]
      PROVE  /\ container'[i].state \in {"running", "stopped"}
             /\ container'[i].port = known[i].port
             /\ container'[i].version = known[i].version
    <2>1. CASE i = I
        BY <1>1, <1>2, <2>1 DEF ReportedIsServed, Turns, Mine
    <2>2. CASE i # I
        BY <1>2, <2>2 DEF ReportedIsServed, Turns
    <2> QED
        BY <2>1, <2>2
<1> QED
    BY <1>2 DEF ReportedIsServed

(* A start ends with the container running, or refused by its port.        *)
LEMMA Starts ==
    ASSUME Base, StartSame \/ StartInstance
    PROVE  /\ handler # Idle /\ I \in Instances /\ handler.kind \in {"reconcile", "start"}
           /\ At("start") \/ handler.kind = "start"
           /\ \/ Goto("report") /\ Turns("running")
              \/ Done /\ UNCHANGED container
           /\ active' \in {active, Blank(I)}
           /\ UNCHANGED <<taken, files, budget, told, history>>
<1>1. handler # Idle /\ I \in Instances /\ handler.kind \in {"reconcile", "start"}
    BY Handles DEF Base, Handled, StartSame, StartInstance, At, ReconcilePlaces
<1>0. /\ At("start") \/ handler.kind = "start"
      /\ UNCHANGED <<taken, files, budget, told, history>>
    BY DEF StartSame, StartInstance
<1>2. CASE Mine.state = "running" /\ Goto("report") /\ UNCHANGED <<container, active>>
    <2>1. Turns("running")
        BY <1>1, <1>2 DEF Turns, Mine, Base, TypeOK
    <2> QED
        BY <1>0, <1>1, <1>2, <2>1
<1>3. CASE /\ Mine.state \in Made /\ Goto("report") /\ container' = Runs(I)
           /\ active' = Blank(I)
    <2>0. container' = [container EXCEPT ![I].state = "running"] /\ "running" \in Made
        BY <1>3 DEF Runs, Made
    <2>1. Turns("running")
        BY <1>1, <1>3, <2>0, Turned
    <2> QED
        BY <1>0, <1>1, <1>3, <2>1
<1>4. CASE Done /\ UNCHANGED <<container, active>>
    BY <1>0, <1>1, <1>4
<1> QED
    BY <1>2, <1>3, <1>4 DEF StartSame, StartInstance, Base, Handled, Made, At

(* A stop finds it, or makes it, not running.                              *)
LEMMA Stops ==
    ASSUME Base, StopInstance
    PROVE  /\ handler # Idle /\ I \in Instances /\ handler.kind = "stop"
           /\ \/ Goto("report") /\ Turns("stopped")
              \/ Goto("report") /\ Mine.state # "running" /\ UNCHANGED container
              \/ Done /\ UNCHANGED container
           /\ active' \in {active, Blank(I)}
           /\ UNCHANGED <<taken, files, budget, told, history>>
<1>1. handler # Idle /\ I \in Instances
    BY Handles DEF StopInstance, At
<1>2. CASE /\ Mine.state = "running" /\ Goto("report")
           /\ container' = [container EXCEPT ![I].state = "stopped"] /\ active' = Blank(I)
    <2>0. Mine.state \in Made /\ "stopped" \in Made
        BY <1>2 DEF Made
    <2>1. Turns("stopped")
        BY <1>1, <1>2, <2>0, Turned
    <2> QED
        BY <1>1, <1>2, <2>1 DEF StopInstance
<1>3. CASE Mine.state = "foreign" /\ Done /\ UNCHANGED <<container, active>>
    BY <1>1, <1>3 DEF StopInstance
<1>4. CASE /\ Mine.state \in {"none", "created", "stopped"} /\ Goto("report")
           /\ UNCHANGED <<container, active>>
    BY <1>1, <1>4 DEF StopInstance
<1> QED
    BY <1>2, <1>3, <1>4 DEF StopInstance

(* A container that is replaced is stopped first.                          *)
LEMMA StopsOld ==
    ASSUME Base, StopOld
    PROVE  /\ At("stop") /\ I \in Instances /\ Goto("remove") /\ handler.kind = "reconcile"
           /\ \/ Turns("stopped")
              \/ Mine.state # "running" /\ UNCHANGED container
           /\ active' = Blank(I)
           /\ UNCHANGED <<taken, files, budget, told, history>>
<1>1. handler # Idle /\ I \in Instances /\ handler.kind = "reconcile"
    BY Handles DEF StopOld, At, Base, Handled, ReconcilePlaces
<1>2. CASE Mine.state = "running" /\ container' = [container EXCEPT ![I].state = "stopped"]
    <2>0. Mine.state \in Made /\ "stopped" \in Made
        BY <1>2 DEF Made
    <2>1. Turns("stopped")
        BY <1>1, <1>2, <2>0, Turned
    <2> QED
        BY <1>1, <1>2, <2>1 DEF StopOld
<1>3. CASE Mine.state # "running" /\ UNCHANGED container
    BY <1>1, <1>3 DEF StopOld
<1> QED
    BY <1>2, <1>3 DEF StopOld

(* A bind ends with the container running, or with what its conflict left. *)
LEMMA Binds ==
    ASSUME Base, Bind
    PROVE  /\ At("bind") /\ I \in Instances /\ handler.kind = "reconcile"
           /\ \/ Goto("report") /\ Turns("running") /\ UNCHANGED crowded
              \/ Done /\ crowded' = crowded \cup {I} /\ UNCHANGED container
              \/ Goto("cleanup") /\ UNCHANGED <<container, crowded>>
           /\ UNCHANGED <<taken, files, active, budget, told, cut>>
<1>1. handler # Idle /\ I \in Instances /\ handler.kind = "reconcile"
    BY Handles DEF Bind, At, Base, Handled, ReconcilePlaces
<1>2. CASE Goto("report") /\ container' = Runs(I) /\ UNCHANGED crowded
    <2>0. container' = [container EXCEPT ![I].state = "running"] /\ "running" \in Made
        BY <1>2 DEF Runs, Made
    <2>2. Mine.state \in Made
        BY <1>1 DEF Bind, Base, Handled, Made
    <2>1. Turns("running")
        BY <1>1, <2>0, <2>2, Turned
    <2> QED
        BY <1>1, <1>2, <2>1 DEF Bind
<1>3. CASE Done /\ crowded' = crowded \cup {I} /\ UNCHANGED container
    BY <1>1, <1>3 DEF Bind
<1>4. CASE Goto("cleanup") /\ UNCHANGED <<container, crowded>>
    BY <1>1, <1>4 DEF Bind
<1> QED
    BY <1>2, <1>3, <1>4 DEF Bind

(* What a command begins with.                                             *)
LEMMA BeginHandler ==
    ASSUME TypeOK, NEW i \in Instances, Begin(i)
    PROVE  /\ handler = Idle /\ handler' \in Handling /\ handler' # Idle
           /\ handler'.instance = i /\ commands' \in 1 .. MaxCommands
           /\ ~handler'.existed
           /\ \/ /\ handler'.kind = "reconcile" /\ handler'.at = "inspect"
                 /\ handler'.asked \in Ports /\ handler'.version \in Versions
                 /\ served' = [served EXCEPT ![i] = FALSE]
                 /\ stopped' = [stopped EXCEPT ![i] = FALSE]
                 /\ UNCHANGED rolledBack
              \/ /\ handler'.kind = "start" /\ handler'.at = "lifecycle"
                 /\ stopped' = [stopped EXCEPT ![i] = FALSE]
                 /\ UNCHANGED <<served, rolledBack>>
              \/ /\ \/ handler'.kind = "stop" /\ handler'.at = "lifecycle"
                    \/ handler'.kind = "certificate" /\ handler'.at = "readPair"
                 /\ UNCHANGED <<served, stopped, rolledBack>>
              \/ /\ handler'.kind = "apply" /\ handler'.at = "post"
                 /\ handler'.revision \in Revisions
                 /\ rolledBack' = [rolledBack EXCEPT ![i] = FALSE]
                 /\ UNCHANGED <<served, stopped>>
           /\ UNCHANGED <<container, taken, key, short, chain, private, lastGood, active,
                          faults, known, applied, cut, crowded>>
<1>. USE InstanceBounds, InstanceAssumption
<1>1. commands' \in 1 .. MaxCommands /\ handler = Idle
    BY DEF Begin, TypeOK
<1>2. ASSUME NEW k \in Kinds, NEW p \in Ports \cup {Nothing}, NEW v \in Versions \cup {Nothing},
             NEW r \in 0 .. MaxRevision, NEW place \in Places
      PROVE  Command(k, i, p, v, r, place) \in Handling
    BY <1>2 DEF Command, Handling, Nothing
<1>3. Nothing \in 0 .. MaxRevision /\ Revisions \subseteq 0 .. MaxRevision
    BY DEF Nothing, Revisions
<1>4. \A h \in Handling : h # Idle
    BY DEF Handling, Idle, Places
<1>8. ~handler'.existed
    BY DEF Begin, Command
<1>0. UNCHANGED <<container, taken, key, short, chain, private, lastGood, active,
                  faults, known, applied, cut, crowded>>
    BY DEF Begin, docker, files, history
<1>5. CASE \E p \in Ports, v \in Versions : /\ handler' = Command("reconcile", i, p, v, Nothing, "inspect")
                                         /\ served' = [served EXCEPT ![i] = FALSE]
                                         /\ stopped' = [stopped EXCEPT ![i] = FALSE]
                                         /\ UNCHANGED rolledBack
    <2>1. PICK p \in Ports, v \in Versions :
              handler' = Command("reconcile", i, p, v, Nothing, "inspect")
        BY <1>5
    <2>2. handler' \in Handling
        BY <1>2, <1>3, <2>1 DEF Kinds, Places
    <2>3. /\ handler'.kind = "reconcile" /\ handler'.at = "inspect" /\ handler'.instance = i
          /\ handler'.asked \in Ports /\ handler'.version \in Versions
        BY <2>1 DEF Command
    <2> QED
        BY <1>0, <1>1, <1>4, <1>5, <1>8, <2>2, <2>3
<1>6. CASE handler' \in {Command("start", i, Nothing, Nothing, Nothing, "lifecycle"),
                         Command("stop", i, Nothing, Nothing, Nothing, "lifecycle"),
                         Command("certificate", i, Nothing, Nothing, Nothing, "readPair")}
    <2>1. handler' \in Handling
        BY <1>2, <1>3, <1>6 DEF Kinds, Places
    <2> QED
        BY <1>1, <1>4, <1>6, <1>8, <2>1 DEF Begin, Command, docker, files, history
<1>7. CASE /\ \E r \in Revisions : handler' = Command("apply", i, Nothing, Nothing, r, "post")
           /\ rolledBack' = [rolledBack EXCEPT ![i] = FALSE]
           /\ UNCHANGED <<served, stopped>>
    <2>1. PICK r \in Revisions : handler' = Command("apply", i, Nothing, Nothing, r, "post")
        BY <1>7
    <2>2. handler' \in Handling
        BY <1>2, <1>3, <2>1 DEF Kinds, Places
    <2>3. /\ handler'.kind = "apply" /\ handler'.at = "post" /\ handler'.instance = i
          /\ handler'.revision \in Revisions
        BY <2>1 DEF Command
    <2> QED
        BY <1>0, <1>1, <1>4, <1>7, <1>8, <2>2, <2>3
<1> QED
    BY <1>5, <1>6, <1>7 DEF Begin

-----------------------------------------------------------------------------
(* What is left of the types when a step has told its part of them.        *)
LEMMA Typed ==
    ASSUME TypeOK,
           container' \in [Instances -> Container],
           active' \in [Instances -> Revisions \cup {Nothing}],
           handler' \in Handling \cup {Idle},
           served' \in [Instances -> BOOLEAN], stopped' \in [Instances -> BOOLEAN],
           rolledBack' \in [Instances -> BOOLEAN], crowded' \subseteq Instances,
           commands' \in 0 .. MaxCommands, faults' \in 0 .. MaxFaults,
           cut' \subseteq Instances \X Kinds,
           UNCHANGED <<taken, key, short, chain, private, lastGood, known, applied>>
    PROVE  TypeOK'
BY DEF TypeOK

(* A command begins.                                                       *)
LEMMA BeginBase ==
    ASSUME Base, NEW i \in Instances, Begin(i)
    PROVE  Base'
<1>. USE DEF Base
<1>1. /\ served' \in [Instances -> BOOLEAN] /\ stopped' \in [Instances -> BOOLEAN]
      /\ rolledBack' \in [Instances -> BOOLEAN]
    BY BeginHandler DEF TypeOK
<1>2. commands' \in 0 .. MaxCommands
    BY BeginHandler, InstanceBounds
<1>3. TypeOK'
    BY <1>1, <1>2, BeginHandler, Typed DEF TypeOK
<1>4. handler'.at \in {"inspect", "lifecycle", "readPair", "post"} /\ handler'.kind \in Kinds
    BY BeginHandler DEF Kinds
<1>5. Handled'
    BY <1>4, BeginHandler DEF Handled, At, ReconcilePlaces
<1> QED
    BY <1>3, <1>5

(* A step that leaves its place for one where nothing more is established. *)
LEMMA MovesBase ==
    ASSUME Base, handler # Idle, ~At("inspect"),
           NEW place \in {"remove", "cleanup", "rollback", "persist", "report",
                          "reportRollback"},
           Done \/ Goto(place),
           place \in {"remove", "cleanup"} => handler.kind = "reconcile",
           place \in {"rollback", "persist", "reportRollback"} => handler.kind = "apply",
           container' \in [Instances -> Container],
           active' \in [Instances -> Revisions \cup {Nothing}],
           UNCHANGED <<taken, files, budget, told, cut>>, crowded' \subseteq Instances
    PROVE  Base'
<1>1. handler \in Handling
    BY DEF Base, TypeOK
<1>2. handler' \in Handling \cup {Idle}
    BY <1>1 DEF Done, Goto, Handling, Places
<1>3. TypeOK'
    BY <1>2, Typed DEF Base, TypeOK, files, budget, told
<1>4. CASE Done
    BY <1>3, <1>4 DEF Done, Handled, Base
<1>5. CASE Goto(place)
    <2>1. /\ handler'.at = place /\ handler'.kind = handler.kind
          /\ handler'.asked = handler.asked /\ handler'.version = handler.version
          /\ handler'.port = handler.port /\ handler'.revision = handler.revision
          /\ commands' = commands
        BY <1>1, <1>5 DEF Goto, Handling, budget
    <2>2. /\ handler.kind = "reconcile" => /\ handler.asked \in Ports
                                           /\ handler.version \in Versions
                                           /\ handler.port \in Ports
          /\ handler.kind = "apply" => handler.revision \in Revisions
          /\ commands \in 1 .. MaxCommands
        BY DEF Base, Handled
    <2>3. Handled'
        BY <2>1, <2>2 DEF Handled, At, ReconcilePlaces
    <2> QED
        BY <1>3, <2>3 DEF Base
<1> QED
    BY <1>3, <1>4, <1>5 DEF Base

(* start_instance, stop_instance, and a container that is kept.            *)
LEMMA TurnsBase ==
    ASSUME Base, StartSame \/ StartInstance \/ StopInstance
    PROVE  Base'
<1>1. /\ handler # Idle /\ I \in Instances
      /\ Done \/ Goto("report")
      /\ container' \in [Instances -> Container] /\ active' \in {active, Blank(I)}
      /\ UNCHANGED <<taken, files, budget, told, history>>
    BY Starts, Stops DEF Turns, Base, TypeOK
<1>2. ~At("inspect")
    BY DEF StartSame, StartInstance, StopInstance, At
<1>3. active' \in [Instances -> Revisions \cup {Nothing}]
    BY <1>1 DEF Blank, Base, TypeOK
<1>4. UNCHANGED cut /\ crowded' \subseteq Instances
    BY <1>1 DEF history, Base, TypeOK
<1> QED
    BY <1>1, <1>2, <1>3, <1>4, MovesBase

(* A container that is replaced.                                           *)
LEMMA StopOldBase ==
    ASSUME Base, StopOld
    PROVE  Base'
<1>1. /\ At("stop") /\ I \in Instances /\ Goto("remove") /\ handler.kind = "reconcile"
      /\ container' \in [Instances -> Container] /\ active' = Blank(I)
      /\ UNCHANGED <<taken, files, budget, told, history>>
    BY StopsOld DEF Turns, Base, TypeOK
<1>2. active' \in [Instances -> Revisions \cup {Nothing}]
    BY <1>1 DEF Blank, Base, TypeOK
<1>3. UNCHANGED cut /\ crowded' \subseteq Instances /\ handler # Idle /\ ~At("inspect")
    BY <1>1 DEF history, Base, TypeOK, At
<1> QED
    BY <1>1, <1>2, <1>3, MovesBase

(* A container that binds its port.                                        *)
LEMMA BindBase ==
    ASSUME Base, Bind
    PROVE  Base'
<1>1. /\ At("bind") /\ I \in Instances /\ handler.kind = "reconcile"
      /\ container' \in [Instances -> Container]
      /\ \/ Done \/ Goto("report")
         \/ Goto("cleanup")
      /\ UNCHANGED <<taken, files, active, budget, told, cut>>
    BY Binds DEF Turns, Base, TypeOK
<1>2. crowded' \subseteq Instances
    BY <1>1, Binds DEF Base, TypeOK
<1>3. handler # Idle /\ ~At("inspect") /\ active' \in [Instances -> Revisions \cup {Nothing}]
    BY <1>1 DEF At, Base, TypeOK
<1> QED
    BY <1>1, <1>2, <1>3, MovesBase

(* The requests to a Node, and to a Node again.                            *)
LEMMA RequestBase ==
    ASSUME Base, Post \/ Rollback
    PROVE  Base'
<1>1. handler # Idle /\ ~At("inspect") /\ handler.kind = "apply" /\ I \in Instances
    BY Handles DEF Post, Rollback, At, Base, Handled
<1>2. /\ active \in [Instances -> Revisions \cup {Nothing}]
      /\ handler.revision \in Revisions
      /\ lastGood[I] \in Revisions \cup {Nothing}
    BY <1>1 DEF Base, TypeOK, Handled
<1>3. active' \in [Instances -> Revisions \cup {Nothing}]
    BY <1>1, <1>2 DEF Post, Rollback, After
<1>4. \/ Done \/ Goto("persist")
      \/ Goto("rollback") \/ Goto("reportRollback")
    BY DEF Post, Rollback
<1>5. /\ container' \in [Instances -> Container] /\ crowded' \subseteq Instances
      /\ UNCHANGED <<taken, files, budget, told, cut>>
    BY DEF Post, Rollback, docker, history, Base, TypeOK
<1> QED
    BY <1>1, <1>3, <1>4, <1>5, MovesBase

(* What docker says of the container.                                      *)
LEMMA InspectBase ==
    ASSUME Base, Inspect
    PROVE  Base'
<1>. USE DEF Inspect
<1>1. /\ handler # Idle /\ handler \in Handling /\ I \in Instances
      /\ handler.kind = "reconcile" /\ handler.asked \in Ports /\ handler.version \in Versions
      /\ commands \in 1 .. MaxCommands /\ ~handler.existed
    BY Handles DEF At, Base, Handled, ReconcilePlaces
<1>2. \/ Done
      \/ \E p \in Ports : handler' = [handler EXCEPT !.at = "material", !.port = p]
      \/ /\ Mine.state \in Made
         /\ handler' = [handler EXCEPT !.at = "material", !.existed = TRUE,
                                       !.port = handler.asked]
    BY <1>1, Handles DEF Selectable
<1>3. handler' \in Handling \cup {Idle}
    <2>1. \A p \in Ports : /\ [handler EXCEPT !.at = "material", !.port = p] \in Handling
                           /\ [handler EXCEPT !.at = "material", !.existed = TRUE,
                                              !.port = p] \in Handling
        BY <1>1 DEF Handling, Places
    <2> QED
        BY <1>1, <1>2, <2>1 DEF Done
<1>4. TypeOK'
    BY <1>3, Typed DEF Base, TypeOK, docker, files, budget, told, history
<1>5. Handled'
    <2>1. CASE Done
        BY <2>1 DEF Done, Handled
    <2>2. CASE \E p \in Ports : handler' = [handler EXCEPT !.at = "material", !.port = p]
        <3>1. PICK p \in Ports : handler' = [handler EXCEPT !.at = "material", !.port = p]
            BY <2>2
        <3>2. /\ handler'.at = "material" /\ handler'.kind = "reconcile" /\ handler'.port = p
              /\ handler'.asked \in Ports /\ handler'.version \in Versions
              /\ handler'.existed = handler.existed
            BY <1>1, <3>1 DEF Handling
        <3> QED
            BY <1>1, <3>2 DEF Handled, At, ReconcilePlaces, budget
    <2>3. CASE /\ Mine.state \in Made
               /\ handler' = [handler EXCEPT !.at = "material", !.existed = TRUE,
                                             !.port = handler.asked]
        <3>1. /\ handler'.at = "material" /\ handler'.kind = "reconcile"
              /\ handler'.port \in Ports /\ I' = I /\ Mine' = Mine
              /\ handler'.asked \in Ports /\ handler'.version \in Versions
            BY <1>1, <2>3 DEF Handling, I, Mine, docker
        <3> QED
            BY <1>1, <2>3, <3>1 DEF Handled, At, ReconcilePlaces, budget
    <2> QED
        BY <1>2, <2>1, <2>2, <2>3
<1> QED
    BY <1>4, <1>5 DEF Base

(* A reboot.                                                               *)
LEMMA RebootBase ==
    ASSUME Base, Reboot
    PROVE  Base'
<1>1. container' = container
    <2>1. ASSUME NEW i \in Instances, container[i].state = "running"
          PROVE  [container[i] EXCEPT !.state = "running"] = container[i]
        BY <2>1, ContainerShape DEF Base, Made
    <2> QED
        BY <2>1 DEF Reboot, ComesBack, Base, TypeOK
<1>2. cut' \subseteq Instances \X Kinds
    BY Handles DEF Reboot, Base, TypeOK
<1>3. /\ rolledBack' \in [Instances -> BOOLEAN] /\ faults' \in 0 .. MaxFaults
      /\ active' \in [Instances -> Revisions \cup {Nothing}]
    BY InstanceBounds DEF Reboot, Base, TypeOK
<1>4. TypeOK'
    BY <1>1, <1>2, <1>3, Typed DEF Reboot, Base, TypeOK, files
<1> QED
    BY <1>4 DEF Reboot, Base, Handled

(* The types, and the places of the handler.                               *)
LEMMA BaseNext ==
    ASSUME Base, [Next]_vars
    PROVE  Base'
<1>. USE InstanceAssumption, InstanceBounds
       DEF Base, Handled, TypeOK, ReconcilePlaces, Idle, Handling,
       At, I, Mine, Goto, Done, docker, files, budget, told, history
<1>. USE DEF Places, Kinds, Container, Absent, Made, Nothing, Revisions, Keys, Certificates, Unknown
<1>1. ASSUME NEW i \in Instances, Begin(i)
      PROVE  Base'
    BY <1>1, BeginBase
<1>2. CASE Interrupted
    BY <1>2 DEF Interrupted
<1>3. CASE Report
    BY <1>3 DEF Report, ResultPort
<1>4. CASE ReportRollback
    BY <1>4 DEF ReportRollback
<1>5. CASE Inspect
    BY <1>5, InspectBase
<1>6. CASE Material
    BY ZenonT(60), <1>6 DEF Material
<1>7. CASE WriteKey
    BY <1>7 DEF WriteKey
<1>8. CASE WriteShort
    BY <1>8 DEF WriteShort
<1>9. CASE Pull
    BY ZenonT(60), <1>9 DEF Pull, Same
<1>10. CASE StartSame
    BY <1>10, TurnsBase
<1>11. CASE StopOld
    BY <1>11, StopOldBase
<1>12. CASE RemoveOld
    BY <1>12 DEF RemoveOld
<1>13. CASE Create
    BY <1>13 DEF Create
<1>14. CASE Bind
    BY <1>14, BindBase
<1>15. CASE Cleanup
    BY ZenonT(60), <1>15 DEF Cleanup, Selectable
<1>16. CASE StartInstance
    BY <1>16, TurnsBase
<1>17. CASE StopInstance
    BY <1>17, TurnsBase
<1>18. CASE ReadPair
    BY ZenonT(60), <1>18 DEF ReadPair
<1>19. CASE WriteChain
    BY <1>19 DEF WriteChain
<1>20. CASE WritePrivate
    BY <1>20 DEF WritePrivate
<1>21. CASE Post
    BY <1>21, RequestBase
<1>22. CASE Rollback
    BY <1>22, RequestBase
<1>23. CASE Persist
    BY <1>23 DEF Persist
<1>24. ASSUME NEW p \in Ports, OtherProgram(p)
      PROVE  Base'
    BY <1>24 DEF OtherProgram
<1>25. CASE Reboot
    BY <1>25, RebootBase
<1>26. CASE UNCHANGED vars
    BY <1>26 DEF vars
<1> QED
    BY <1>1, <1>2, <1>3, <1>4, <1>5, <1>6, <1>7, <1>8, <1>9, <1>10, <1>11, <1>12, <1>13,
       <1>14, <1>15, <1>16, <1>17, <1>18, <1>19, <1>20, <1>21, <1>22, <1>23, <1>24, <1>25, <1>26 DEF Next

-----------------------------------------------------------------------------
(* The invariant of the stopped instances.                                 *)
LEMMA StoppedNext ==
    ASSUME Base, StoppedInv, [Next]_vars
    PROVE  StoppedInv'
<1>. USE InstanceAssumption, InstanceBounds
       DEF Base, Handled, TypeOK, ReconcilePlaces, Idle, Handling,
       At, I, Mine, Goto, Done, docker, files, budget, told, history
<1>. USE DEF StoppedInv, StoppedStaysStopped
<1>1. ASSUME NEW i \in Instances, Begin(i)
      PROVE  StoppedInv'
    <2>1. /\ handler' # Idle /\ I' = i /\ UNCHANGED container /\ handler'.at # "report"
        BY <1>1, BeginHandler
    <2>2. \A j \in Instances : stopped'[j] => stopped[j]
        BY <1>1, BeginHandler
    <2>3. handler'.kind \in {"reconcile", "start"} => ~stopped'[i]
        BY <1>1, BeginHandler
    <2> QED
        BY <2>1, <2>2, <2>3
<1>2. CASE Interrupted
    BY <1>2 DEF Interrupted
<1>3. CASE Report
    BY <1>3 DEF Report, ResultPort
<1>4. CASE ReportRollback
    BY <1>4 DEF ReportRollback
<1>5. CASE Inspect
    BY <1>5 DEF Inspect, Selectable
<1>6. CASE Material
    BY <1>6 DEF Material
<1>7. CASE WriteKey
    BY <1>7 DEF WriteKey
<1>8. CASE WriteShort
    BY <1>8 DEF WriteShort
<1>9. CASE Pull
    BY <1>9 DEF Pull, Same
<1>10. CASE StartSame
    BY ZenonT(60), <1>10 DEF StartSame, Runs, Blank
<1>11. CASE StopOld
    BY <1>11 DEF StopOld, Blank
<1>12. CASE RemoveOld
    BY <1>12 DEF RemoveOld
<1>13. CASE Create
    BY <1>13 DEF Create
<1>14. CASE Bind
    BY ZenonT(60), <1>14 DEF Bind, Runs
<1>15. CASE Cleanup
    BY <1>15 DEF Cleanup, Selectable
<1>16. CASE StartInstance
    BY ZenonT(60), <1>16 DEF StartInstance, Runs, Blank
<1>17. CASE StopInstance
    <2>1. handler \in Handling /\ I \in Instances
        BY <1>17, Stops, Handles
    <2> QED
        BY ZenonT(60), <1>17, <2>1, Stops DEF Turns
<1>18. CASE ReadPair
    BY <1>18 DEF ReadPair
<1>19. CASE WriteChain
    BY <1>19 DEF WriteChain
<1>20. CASE WritePrivate
    BY <1>20 DEF WritePrivate
<1>21. CASE Post
    BY <1>21 DEF Post, After
<1>22. CASE Rollback
    BY <1>22 DEF Rollback, After, Previous
<1>23. CASE Persist
    BY <1>23 DEF Persist
<1>24. ASSUME NEW p \in Ports, OtherProgram(p)
      PROVE  StoppedInv'
    BY <1>24 DEF OtherProgram
<1>25. CASE Reboot
    BY <1>25 DEF Reboot, ComesBack
<1>26. CASE UNCHANGED vars
    BY <1>26 DEF vars
<1> QED
    BY <1>1, <1>2, <1>3, <1>4, <1>5, <1>6, <1>7, <1>8, <1>9, <1>10, <1>11, <1>12, <1>13,
       <1>14, <1>15, <1>16, <1>17, <1>18, <1>19, <1>20, <1>21, <1>22, <1>23, <1>24, <1>25, <1>26 DEF Next

(* The invariant of the certificates.                                      *)
LEMMA CertificateNext ==
    ASSUME Base, CertificateInv, [Next]_vars
    PROVE  CertificateInv'
<1>. USE InstanceAssumption, InstanceBounds
       DEF Base, Handled, TypeOK, ReconcilePlaces, Idle, Handling,
       At, I, Mine, Goto, Done, docker, files, budget, told, history
<1>. USE DEF CertificateInv, CertificateHasItsKey, Busy
<1>1. ASSUME NEW i \in Instances, Begin(i)
      PROVE  CertificateInv'
    BY <1>1, BeginHandler
<1>2. CASE Interrupted
    BY <1>2 DEF Interrupted
<1>3. CASE Report
    BY <1>3 DEF Report, ResultPort
<1>4. CASE ReportRollback
    BY <1>4 DEF ReportRollback
<1>5. CASE Inspect
    BY <1>5 DEF Inspect, Selectable
<1>6. CASE Material
    BY <1>6 DEF Material
<1>7. CASE WriteKey
    BY <1>7 DEF WriteKey
<1>8. CASE WriteShort
    BY <1>8 DEF WriteShort
<1>9. CASE Pull
    BY <1>9 DEF Pull, Same
<1>10. CASE StartSame
    BY <1>10 DEF StartSame, Runs, Blank
<1>11. CASE StopOld
    BY <1>11 DEF StopOld, Blank
<1>12. CASE RemoveOld
    BY <1>12 DEF RemoveOld
<1>13. CASE Create
    BY <1>13 DEF Create
<1>14. CASE Bind
    BY <1>14 DEF Bind, Runs
<1>15. CASE Cleanup
    BY <1>15 DEF Cleanup, Selectable
<1>16. CASE StartInstance
    BY <1>16 DEF StartInstance, Runs, Blank
<1>17. CASE StopInstance
    BY <1>17 DEF StopInstance, Blank
<1>18. CASE ReadPair
    BY <1>18 DEF ReadPair
<1>19. CASE WriteChain
    BY <1>19 DEF WriteChain
<1>20. CASE WritePrivate
    BY <1>20 DEF WritePrivate
<1>21. CASE Post
    BY <1>21 DEF Post, After
<1>22. CASE Rollback
    BY <1>22 DEF Rollback, After, Previous
<1>23. CASE Persist
    BY <1>23 DEF Persist
<1>24. ASSUME NEW p \in Ports, OtherProgram(p)
      PROVE  CertificateInv'
    BY <1>24 DEF OtherProgram
<1>25. CASE Reboot
    BY <1>25 DEF Reboot, ComesBack
<1>26. CASE UNCHANGED vars
    BY <1>26 DEF vars
<1> QED
    BY <1>1, <1>2, <1>3, <1>4, <1>5, <1>6, <1>7, <1>8, <1>9, <1>10, <1>11, <1>12, <1>13,
       <1>14, <1>15, <1>16, <1>17, <1>18, <1>19, <1>20, <1>21, <1>22, <1>23, <1>24, <1>25, <1>26 DEF Next

(* The invariant of the Reality material.                                  *)
LEMMA MaterialNext ==
    ASSUME Base, MaterialInv, [Next]_vars
    PROVE  MaterialInv'
<1>. USE InstanceAssumption, InstanceBounds
       DEF Base, Handled, TypeOK, ReconcilePlaces, Idle, Handling,
       At, I, Mine, Goto, Done, docker, files, budget, told, history
<1>. USE DEF MaterialInv, MaterialIsKept, Whole, Nothing, Keys, Unknown
<1>1. ASSUME NEW i \in Instances, Begin(i)
      PROVE  MaterialInv'
    BY SMTT(40), <1>1, BeginHandler
<1>2. CASE Interrupted
    BY <1>2 DEF Interrupted
<1>3. CASE Report
    BY <1>3 DEF Report, ResultPort
<1>4. CASE ReportRollback
    BY <1>4 DEF ReportRollback
<1>5. CASE Inspect
    BY ZenonT(60), <1>5 DEF Inspect, Selectable
<1>6. CASE Material
    BY ZenonT(60), <1>6 DEF Material
<1>7. CASE WriteKey
    BY <1>7 DEF WriteKey
<1>8. CASE WriteShort
    BY <1>8 DEF WriteShort
<1>9. CASE Pull
    BY <1>9 DEF Pull, Same
<1>10. CASE StartSame
    BY <1>10 DEF StartSame, Runs, Blank
<1>11. CASE StopOld
    BY <1>11 DEF StopOld, Blank
<1>12. CASE RemoveOld
    BY <1>12 DEF RemoveOld
<1>13. CASE Create
    BY <1>13 DEF Create
<1>14. CASE Bind
    BY <1>14 DEF Bind, Runs
<1>15. CASE Cleanup
    BY <1>15 DEF Cleanup, Selectable
<1>16. CASE StartInstance
    BY <1>16 DEF StartInstance, Runs, Blank
<1>17. CASE StopInstance
    BY <1>17 DEF StopInstance, Blank
<1>18. CASE ReadPair
    BY <1>18 DEF ReadPair
<1>19. CASE WriteChain
    BY <1>19 DEF WriteChain
<1>20. CASE WritePrivate
    BY <1>20 DEF WritePrivate
<1>21. CASE Post
    BY <1>21 DEF Post, After
<1>22. CASE Rollback
    BY <1>22 DEF Rollback, After, Previous
<1>23. CASE Persist
    BY <1>23 DEF Persist
<1>24. ASSUME NEW p \in Ports, OtherProgram(p)
      PROVE  MaterialInv'
    BY <1>24 DEF OtherProgram
<1>25. CASE Reboot
    BY <1>25 DEF Reboot, ComesBack
<1>26. CASE UNCHANGED vars
    BY <1>26 DEF vars
<1> QED
    BY <1>1, <1>2, <1>3, <1>4, <1>5, <1>6, <1>7, <1>8, <1>9, <1>10, <1>11, <1>12, <1>13,
       <1>14, <1>15, <1>16, <1>17, <1>18, <1>19, <1>20, <1>21, <1>22, <1>23, <1>24, <1>25, <1>26 DEF Next

(* The invariant of what was reported.                                     *)
LEMMA ServedNext ==
    ASSUME Base, ServedInv, [Next]_vars
    PROVE  ServedInv'
<1>. USE InstanceAssumption, InstanceBounds
       DEF Base, Handled, TypeOK, ReconcilePlaces, Idle, Handling,
       At, I, Mine, Goto, Done, docker, files, budget, told, history
<1>. USE DEF ServedInv, ReportedIsServed, Same, Nothing, Made, Absent
<1>1. ASSUME NEW i \in Instances, Begin(i)
      PROVE  ServedInv'
    <2>1. /\ handler' # Idle /\ I' = i /\ UNCHANGED <<container, known>>
          /\ handler'.at \in {"inspect", "lifecycle", "readPair", "post"}
        BY <1>1, BeginHandler
    <2>2. \A j \in Instances : served'[j] => served[j]
        BY SMTT(40), <1>1, BeginHandler
    <2>3. handler'.kind = "reconcile" => ~served'[i]
        BY <1>1, BeginHandler
    <2> QED
        BY <2>1, <2>2, <2>3
<1>2. CASE Interrupted
    BY <1>2 DEF Interrupted
<1>3. CASE Report
    BY <1>3 DEF Report, ResultPort
<1>4. CASE ReportRollback
    BY <1>4 DEF ReportRollback
<1>5. CASE Inspect
    BY ZenonT(60), <1>5 DEF Inspect, Selectable
<1>6. CASE Material
    BY <1>6 DEF Material
<1>7. CASE WriteKey
    BY <1>7 DEF WriteKey
<1>8. CASE WriteShort
    BY <1>8 DEF WriteShort
<1>9. CASE Pull
    BY <1>9 DEF Pull, Same
<1>10. CASE StartSame
    <2>1. handler \in Handling /\ I \in Instances
        BY <1>10, Starts, Handles
    <2>2. CASE Goto("report") /\ Turns("running")
        <3>1. ReportedIsServed'
            BY <1>10, <2>1, <2>2, Starts, TurnedIsServed
        <3>2. Mine.port = handler.port /\ Mine.version = handler.version
            BY <1>10, Starts DEF StartSame
        <3>3. /\ handler' # Idle /\ I' = I /\ handler'.kind = handler.kind
              /\ handler'.port = handler.port /\ handler'.version = handler.version
              /\ handler'.at = "report" /\ UNCHANGED <<known, served>>
            BY <1>10, <2>1, <2>2, Starts
        <3>4. ~served[I]
            BY <1>10, Starts DEF StartSame
        <3>5. /\ container'[I].state = "running" /\ container'[I].port = handler.port
              /\ container'[I].version = handler.version
            BY <2>2, <3>2 DEF Turns
        <3> QED
            BY <3>1, <3>3, <3>4, <3>5
    <2>3. CASE Done /\ UNCHANGED container
        BY <1>10, <2>3, Starts
    <2> QED
        BY <1>10, <2>2, <2>3, Starts
<1>11. CASE StopOld
    BY <1>11 DEF StopOld, Blank
<1>12. CASE RemoveOld
    BY <1>12 DEF RemoveOld
<1>13. CASE Create
    BY <1>13 DEF Create
<1>14. CASE Bind
    <2>1. handler \in Handling /\ I \in Instances
        BY <1>14, Binds, Handles
    <2>2. CASE Goto("report") /\ Turns("running")
        <3>1. ReportedIsServed'
            BY <1>14, <2>1, <2>2, Binds, TurnedIsServed
        <3>2. Mine.port = handler.port /\ Mine.version = handler.version
            BY <1>14, Binds DEF Bind
        <3>3. /\ handler' # Idle /\ I' = I /\ handler'.kind = handler.kind
              /\ handler'.port = handler.port /\ handler'.version = handler.version
              /\ handler'.at = "report" /\ UNCHANGED <<known, served>>
            BY ZenonT(60), <1>14, <2>1, <2>2, Binds
        <3>4. ~served[I]
            BY <1>14, Binds DEF Bind
        <3>5. /\ container'[I].state = "running" /\ container'[I].port = handler.port
              /\ container'[I].version = handler.version
            BY <2>2, <3>2 DEF Turns
        <3> QED
            BY <3>1, <3>3, <3>4, <3>5
    <2>3. CASE Done /\ UNCHANGED container
        BY <1>14, <2>3, Binds
    <2>4. CASE Goto("cleanup") /\ UNCHANGED container
        <3>1. ReportedIsServed'
            BY <1>14, <2>4, Binds
        <3>2. /\ handler' # Idle /\ I' = I /\ handler'.kind = handler.kind
              /\ handler'.port = handler.port /\ handler'.version = handler.version
              /\ handler'.at = "cleanup" /\ UNCHANGED <<known, served>>
            BY ZenonT(60), <1>14, <2>1, <2>4, Binds
        <3> QED
            BY <1>14, <3>1, <3>2, Binds
    <2> QED
        BY <1>14, <2>2, <2>3, <2>4, Binds
<1>15. CASE Cleanup
    <2>1. handler \in Handling /\ I \in Instances /\ handler.kind = "reconcile" /\ ~served[I]
        BY <1>15, Handles DEF Cleanup
    <2>2. \/ handler' = Idle
          \/ I' = I /\ handler'.at = "create" /\ handler'.kind = handler.kind
        BY ZenonT(60), <1>15, <2>1 DEF Cleanup
    <2>3. \A j \in Instances \ {I} : container'[j] = container[j]
        BY ZenonT(60), <1>15, <2>1 DEF Cleanup
    <2>4. UNCHANGED <<served, known>>
        BY <1>15 DEF Cleanup
    <2>5. ReportedIsServed'
        BY <2>1, <2>3, <2>4
    <2> QED
        BY <2>1, <2>2, <2>4, <2>5
<1>16. CASE StartInstance
    <2>1. handler \in Handling /\ I \in Instances
        BY <1>16, Starts, Handles
    <2>2. CASE Goto("report") /\ Turns("running")
        <3>1. ReportedIsServed'
            BY <1>16, <2>1, <2>2, Starts, TurnedIsServed
        <3>2. handler.kind # "reconcile"
            BY <1>16, Starts DEF StartInstance
        <3>3. /\ handler' # Idle /\ I' = I /\ handler'.kind = handler.kind
              /\ handler'.port = handler.port /\ handler'.version = handler.version
              /\ handler'.at = "report" /\ UNCHANGED <<known, served>>
            BY <1>16, <2>1, <2>2, Starts
        <3> QED
            BY <3>1, <3>2, <3>3
    <2>3. CASE Done /\ UNCHANGED container
        BY <1>16, <2>3, Starts
    <2> QED
        BY <1>16, <2>2, <2>3, Starts
<1>17. CASE StopInstance
    <2>1. handler \in Handling /\ I \in Instances
        BY <1>17, Stops, Handles
    <2>2. CASE Goto("report") /\ Turns("stopped")
        <3>1. ReportedIsServed'
            BY <1>17, <2>1, <2>2, Stops, TurnedIsServed
        <3>2. handler.kind # "reconcile"
            BY <1>17, Stops DEF StopInstance
        <3>3. /\ handler' # Idle /\ I' = I /\ handler'.kind = handler.kind
              /\ handler'.port = handler.port /\ handler'.version = handler.version
              /\ handler'.at = "report" /\ UNCHANGED <<known, served>>
            BY <1>17, <2>1, <2>2, Stops
        <3> QED
            BY <3>1, <3>2, <3>3
    <2>3. CASE Done /\ UNCHANGED container
        BY <1>17, <2>3, Stops
    <2>4. CASE Goto("report") /\ UNCHANGED container
        <3>1. ReportedIsServed'
            BY <1>17, <2>4, Stops
        <3>2. /\ handler' # Idle /\ I' = I /\ handler'.kind = handler.kind
              /\ handler'.port = handler.port /\ handler'.version = handler.version
              /\ handler'.at = "report" /\ UNCHANGED <<known, served>>
            BY <1>17, <2>1, <2>4, Stops
        <3> QED
            BY <1>17, <3>1, <3>2, Stops
    <2> QED
        BY <1>17, <2>2, <2>3, <2>4, Stops
<1>18. CASE ReadPair
    BY <1>18 DEF ReadPair
<1>19. CASE WriteChain
    BY <1>19 DEF WriteChain
<1>20. CASE WritePrivate
    BY <1>20 DEF WritePrivate
<1>21. CASE Post
    BY <1>21 DEF Post, After
<1>22. CASE Rollback
    BY <1>22 DEF Rollback, After, Previous
<1>23. CASE Persist
    BY <1>23 DEF Persist
<1>24. ASSUME NEW p \in Ports, OtherProgram(p)
      PROVE  ServedInv'
    BY <1>24 DEF OtherProgram
<1>25. CASE Reboot
    BY <1>25 DEF Reboot, ComesBack
<1>26. CASE UNCHANGED vars
    BY <1>26 DEF vars
<1> QED
    BY <1>1, <1>2, <1>3, <1>4, <1>5, <1>6, <1>7, <1>8, <1>9, <1>10, <1>11, <1>12, <1>13,
       <1>14, <1>15, <1>16, <1>17, <1>18, <1>19, <1>20, <1>21, <1>22, <1>23, <1>24, <1>25, <1>26 DEF Next

(* The invariant of the bind races.                                        *)
LEMMA RaceNext ==
    ASSUME Base, RaceInv, [Next]_vars
    PROVE  RaceInv'
<1>. USE InstanceAssumption, InstanceBounds
       DEF Base, Handled, TypeOK, ReconcilePlaces, Idle, Handling,
       At, I, Mine, Goto, Done, docker, files, budget, told, history
<1>. USE DEF RaceInv, RaceLeavesNothing, BeforeRemoval, Busy, Made, Absent
<1>1. ASSUME NEW i \in Instances, Begin(i)
      PROVE  RaceInv'
    <2>1. /\ handler = Idle /\ handler' # Idle /\ I' = i /\ handler'.kind \in Kinds
          /\ UNCHANGED <<container, cut, crowded>>
        BY <1>1, BeginHandler
    <2>2. handler'.at \in {"inspect", "lifecycle", "readPair", "post"}
        BY <1>1, BeginHandler
    <2> QED
        BY <2>1, <2>2
<1>2. CASE Interrupted
    BY <1>2 DEF Interrupted
<1>3. CASE Report
    BY <1>3 DEF Report, ResultPort
<1>4. CASE ReportRollback
    BY <1>4 DEF ReportRollback
<1>5. CASE Inspect
    BY ZenonT(60), <1>5 DEF Inspect, Selectable
<1>6. CASE Material
    BY ZenonT(60), <1>6 DEF Material
<1>7. CASE WriteKey
    BY <1>7 DEF WriteKey
<1>8. CASE WriteShort
    BY <1>8 DEF WriteShort
<1>9. CASE Pull
    BY <1>9 DEF Pull, Same
<1>10. CASE StartSame
    <2>1. handler \in Handling /\ I \in Instances
        BY <1>10, Starts, Handles
    <2>2. CASE Goto("report") /\ Turns("running")
        <3>1. RaceLeavesNothing'
            <4>1. ASSUME NEW j \in Instances, container'[j].state = "created"
                  PROVE  j # I /\ container[j].state = "created"
                BY <2>2, <4>1 DEF Turns
            <4> QED
                BY <1>10, <2>1, <2>2, <4>1, Starts
        <3>2. handler' # Idle /\ I' = I /\ handler'.at = "report" /\ container'[I].state = "running"
            BY <2>1, <2>2 DEF Turns
        <3> QED
            BY <3>1, <3>2
    <2>3. CASE Done /\ UNCHANGED container
        BY <1>10, <2>1, <2>3, Starts DEF StartSame
    <2> QED
        BY <1>10, <2>2, <2>3, Starts
<1>11. CASE StopOld
    BY <1>11 DEF StopOld, Blank
<1>12. CASE RemoveOld
    BY <1>12 DEF RemoveOld
<1>13. CASE Create
    BY <1>13 DEF Create
<1>14. CASE Bind
    <2>1. handler \in Handling /\ I \in Instances
        BY <1>14, Binds, Handles
    <2>2. CASE Goto("report") /\ Turns("running")
        <3>1. RaceLeavesNothing'
            <4>1. ASSUME NEW j \in Instances, container'[j].state = "created"
                  PROVE  j # I /\ container[j].state = "created"
                BY <2>2, <4>1 DEF Turns
            <4> QED
                BY <1>14, <2>1, <2>2, <4>1, Binds
        <3>2. handler' # Idle /\ I' = I /\ handler'.at = "report" /\ container'[I].state = "running"
            BY <2>1, <2>2 DEF Turns
        <3> QED
            BY <3>1, <3>2
    <2>3. CASE Done /\ UNCHANGED container
        BY <1>14, <2>1, <2>3, Binds
    <2>4. CASE Goto("cleanup") /\ UNCHANGED container
        BY <1>14, <2>1, <2>4, Binds
    <2> QED
        BY <1>14, <2>2, <2>3, <2>4, Binds
<1>15. CASE Cleanup
    BY <1>15 DEF Cleanup, Selectable
<1>16. CASE StartInstance
    <2>1. handler \in Handling /\ I \in Instances
        BY <1>16, Starts, Handles
    <2>2. CASE Goto("report") /\ Turns("running")
        <3>1. RaceLeavesNothing'
            <4>1. ASSUME NEW j \in Instances, container'[j].state = "created"
                  PROVE  j # I /\ container[j].state = "created"
                BY <2>2, <4>1 DEF Turns
            <4> QED
                BY <1>16, <2>1, <2>2, <4>1, Starts
        <3>2. handler' # Idle /\ I' = I /\ handler'.at = "report" /\ container'[I].state = "running"
            BY <2>1, <2>2 DEF Turns
        <3> QED
            BY <3>1, <3>2
    <2>3. CASE Done /\ UNCHANGED container
        BY <1>16, <2>1, <2>3, Starts DEF StartInstance
    <2> QED
        BY <1>16, <2>2, <2>3, Starts
<1>17. CASE StopInstance
    <2>1. handler \in Handling /\ I \in Instances
        BY <1>17, Stops, Handles
    <2>2. CASE Goto("report") /\ Turns("stopped")
        <3>1. RaceLeavesNothing'
            <4>1. ASSUME NEW j \in Instances, container'[j].state = "created"
                  PROVE  j # I /\ container[j].state = "created"
                BY <2>2, <4>1 DEF Turns
            <4> QED
                BY <1>17, <2>1, <2>2, <4>1, Stops
        <3>2. handler' # Idle /\ I' = I /\ handler'.at = "report" /\ container'[I].state = "stopped"
            BY <2>1, <2>2 DEF Turns
        <3> QED
            BY <3>1, <3>2
    <2>3. CASE Done /\ UNCHANGED container
        BY <1>17, <2>1, <2>3, Stops
    <2>4. CASE Goto("report") /\ UNCHANGED container
        BY <1>17, <2>1, <2>4, Stops
    <2> QED
        BY <1>17, <2>2, <2>3, <2>4, Stops
<1>18. CASE ReadPair
    BY <1>18 DEF ReadPair
<1>19. CASE WriteChain
    BY <1>19 DEF WriteChain
<1>20. CASE WritePrivate
    BY <1>20 DEF WritePrivate
<1>21. CASE Post
    BY <1>21 DEF Post, After
<1>22. CASE Rollback
    BY <1>22 DEF Rollback, After, Previous
<1>23. CASE Persist
    BY <1>23 DEF Persist
<1>24. ASSUME NEW p \in Ports, OtherProgram(p)
      PROVE  RaceInv'
    BY <1>24 DEF OtherProgram
<1>25. CASE Reboot
    BY <1>25 DEF Reboot, ComesBack
<1>26. CASE UNCHANGED vars
    BY <1>26 DEF vars
<1> QED
    BY <1>1, <1>2, <1>3, <1>4, <1>5, <1>6, <1>7, <1>8, <1>9, <1>10, <1>11, <1>12, <1>13,
       <1>14, <1>15, <1>16, <1>17, <1>18, <1>19, <1>20, <1>21, <1>22, <1>23, <1>24, <1>25, <1>26 DEF Next

(* The invariant of the configurations.                                    *)
LEMMA ApplyNext ==
    ASSUME Base, ApplyInv, [Next]_vars
    PROVE  ApplyInv'
<1>. USE InstanceAssumption, InstanceBounds
       DEF Base, Handled, TypeOK, ReconcilePlaces, Idle, Handling,
       At, I, Mine, Goto, Done, docker, files, budget, told, history
<1>. USE DEF ApplyInv, RolledBackToApplied, Nothing
<1>1. ASSUME NEW i \in Instances, Begin(i)
      PROVE  ApplyInv'
    <2>1. /\ handler = Idle /\ handler' # Idle /\ I' = i /\ handler'.kind \in Kinds
          /\ UNCHANGED <<cut, lastGood, applied, active>>
        BY <1>1, BeginHandler
    <2>2. handler'.at \in {"inspect", "lifecycle", "readPair", "post"}
        BY <1>1, BeginHandler
    <2>3. \A j \in Instances : rolledBack'[j] => rolledBack[j]
        BY <1>1, BeginHandler
    <2>4. handler'.kind = "apply" => ~rolledBack'[i]
        BY <1>1, BeginHandler
    <2> QED
        BY <2>1, <2>2, <2>3, <2>4
<1>2. CASE Interrupted
    BY <1>2 DEF Interrupted
<1>3. CASE Report
    BY <1>3 DEF Report, ResultPort
<1>4. CASE ReportRollback
    BY <1>4 DEF ReportRollback
<1>5. CASE Inspect
    BY <1>5 DEF Inspect, Selectable
<1>6. CASE Material
    BY <1>6 DEF Material
<1>7. CASE WriteKey
    BY <1>7 DEF WriteKey
<1>8. CASE WriteShort
    BY <1>8 DEF WriteShort
<1>9. CASE Pull
    BY <1>9 DEF Pull, Same
<1>10. CASE StartSame
    BY <1>10 DEF StartSame, Runs, Blank
<1>11. CASE StopOld
    BY <1>11 DEF StopOld, Blank
<1>12. CASE RemoveOld
    BY <1>12 DEF RemoveOld
<1>13. CASE Create
    BY <1>13 DEF Create
<1>14. CASE Bind
    BY <1>14 DEF Bind, Runs
<1>15. CASE Cleanup
    BY <1>15 DEF Cleanup, Selectable
<1>16. CASE StartInstance
    BY <1>16 DEF StartInstance, Runs, Blank
<1>17. CASE StopInstance
    BY ZenonT(60), <1>17 DEF StopInstance, Blank
<1>18. CASE ReadPair
    BY <1>18 DEF ReadPair
<1>19. CASE WriteChain
    BY <1>19 DEF WriteChain
<1>20. CASE WritePrivate
    BY <1>20 DEF WritePrivate
<1>21. CASE Post
    BY ZenonT(60), <1>21 DEF Post, After
<1>22. CASE Rollback
    <2>1. /\ handler \in Handling /\ I \in Instances /\ handler.kind = "apply"
          /\ handler.at = "rollback" /\ ~rolledBack[I]
        BY <1>22, Handles DEF Rollback
    <2>2. /\ \A j \in Instances \ {I} : active'[j] = active[j]
          /\ UNCHANGED <<cut, lastGood, applied, rolledBack>>
        BY <1>22, <2>1 DEF Rollback, After
    <2>3. \/ Goto("reportRollback") /\ active'[I] = lastGood[I]
          \/ Done
        BY <1>22, <2>1 DEF Rollback
    <2>4. RolledBackToApplied'
        BY <2>1, <2>2
    <2>5. \A j \in Instances : <<j, "apply">> \in cut \/ lastGood[j] = applied[j]
        BY <2>1
    <2> QED
        BY <2>1, <2>2, <2>3, <2>4, <2>5
<1>23. CASE Persist
    BY <1>23 DEF Persist
<1>24. ASSUME NEW p \in Ports, OtherProgram(p)
      PROVE  ApplyInv'
    BY <1>24 DEF OtherProgram
<1>25. CASE Reboot
    BY <1>25 DEF Reboot, ComesBack
<1>26. CASE UNCHANGED vars
    BY <1>26 DEF vars
<1> QED
    BY <1>1, <1>2, <1>3, <1>4, <1>5, <1>6, <1>7, <1>8, <1>9, <1>10, <1>11, <1>12, <1>13,
       <1>14, <1>15, <1>16, <1>17, <1>18, <1>19, <1>20, <1>21, <1>22, <1>23, <1>24, <1>25, <1>26 DEF Next

-----------------------------------------------------------------------------
(* The initial states satisfy it: nothing runs, and nothing was said.      *)
LEMMA InitIInv ==
    ASSUME Init
    PROVE  IInv
<1>. USE InstanceAssumption, InstanceBounds DEF Init, Empty, At
<1>1. /\ Absent \in Container /\ Foreign \in Container
      /\ Absent.state = "none" /\ Foreign.state = "foreign"
    BY DEF Container, Absent, Foreign
<1>2. \A i \in Instances : container[i].state \in {"none", "foreign"}
    BY <1>1
<1>3. TypeOK
    BY <1>1 DEF TypeOK, Nothing, Keys, Certificates, Revisions, Unknown
<1>4. Base /\ StoppedInv
    BY <1>2, <1>3 DEF Base, Handled, StoppedInv, StoppedStaysStopped
<1>5. CertificateInv /\ MaterialInv
    BY DEF CertificateInv, CertificateHasItsKey, MaterialInv, MaterialIsKept, Nothing
<1>6. ServedInv /\ RaceInv
    BY <1>2 DEF ServedInv, ReportedIsServed, RaceInv, RaceLeavesNothing
<1>7. ApplyInv
    BY DEF ApplyInv, RolledBackToApplied
<1> QED
    BY <1>4, <1>5, <1>6, <1>7 DEF IInv

(* Every step preserves it.                                                *)
LEMMA NextIInv ==
    ASSUME IInv, [Next]_vars
    PROVE  IInv'
BY BaseNext, StoppedNext, CertificateNext, MaterialNext, ServedNext, RaceNext, ApplyNext
   DEF IInv

(* The inductive invariant holds in every reachable state.                 *)
THEOREM InvariantHolds == Spec => []IInv
<1>1. Init => IInv
    BY InitIInv
<1>2. IInv /\ [Next]_vars => IInv'
    BY NextIInv
<1> QED
    BY <1>1, <1>2, PTL DEF Spec

(* Every variable has its type, for any number of instances, ports,        *)
(* commands and interruptions of the Agent.                                *)
THEOREM TypesHold == Spec => []TypeOK
<1>1. IInv => TypeOK
    BY DEF IInv, Base
<1> QED
    BY <1>1, InvariantHolds, PTL

(* An instance that stop_instance stopped does not run until it is asked   *)
(* to, whatever its handlers and reboots of the host do.                   *)
THEOREM StoppedInstancesStayStopped == Spec => []StoppedStaysStopped
<1>1. IInv => StoppedStaysStopped
    BY DEF IInv, StoppedInv
<1> QED
    BY <1>1, InvariantHolds, PTL

(* The installed chain and private key are of one pair, unless a renewal   *)
(* was cut off between the two writes.                                     *)
THEOREM CertificatesMatch == Spec => []CertificateHasItsKey
<1>1. IInv => CertificateHasItsKey
    BY DEF IInv, CertificateInv
<1> QED
    BY <1>1, InvariantHolds, PTL

(* No command, error or retry replaces the Reality material that was       *)
(* reported, nor pairs a short id with the key of another drawing.         *)
THEOREM RealityMaterialIsKept == Spec => []MaterialIsKept
<1>1. IInv => MaterialIsKept
    BY DEF IInv, MaterialInv
<1> QED
    BY <1>1, InvariantHolds, PTL

(* Until the next reconcile_instance the container has the port and the    *)
(* version that the last one reported.                                     *)
THEOREM ReportsAreServed == Spec => []ReportedIsServed
<1>1. IInv => ReportedIsServed
    BY DEF IInv, ServedInv
<1> QED
    BY <1>1, InvariantHolds, PTL

(* A container that lost its port in a bind race is gone when the command  *)
(* ends, unless it replaced one or was cut off.                            *)
THEOREM RacesLeaveNothing == Spec => []RaceLeavesNothing
<1>1. IInv => RaceLeavesNothing
    BY DEF IInv, RaceInv
<1> QED
    BY <1>1, InvariantHolds, PTL

(* A configuration that was reported as rolled back is the last one that   *)
(* was reported as applied.                                                *)
THEOREM RollbacksAreToTheApplied == Spec => []RolledBackToApplied
<1>1. IInv => RolledBackToApplied
    BY DEF IInv, ApplyInv
<1> QED
    BY <1>1, InvariantHolds, PTL
=============================================================================
