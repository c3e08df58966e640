--------------------------- MODULE AgentInstance ---------------------------
(***************************************************************************)
(* The host under an Agent: the containers of its instances, their files   *)
(* and what runs in them, while the handlers of reconcile_instance,        *)
(* start_instance, stop_instance, reconcile_certificate and apply_config   *)
(* work on them.                                                           *)
(*                                                                         *)
(* Each docker command, each rename of a file and each request to a Node   *)
(* is one action, and the Agent can be interrupted between any two: its    *)
(* process dies, or its session ends and the next command it starts is     *)
(* refused by the cancelled context.  The panel then does not know, and    *)
(* sends the command again or another one.                                 *)
(***************************************************************************)
EXTENDS Integers

CONSTANTS
    Instances,
    Reality,        \* those that serve VLESS with Reality
    Ports,          \* ports a request names: the external one and fallbacks
    Versions,       \* image and secret of a request
    MaxRevision,    \* bound: revisions of the configuration of an instance
    MaxCommands,    \* bound: commands executed
    MaxFaults       \* bound: interruptions, errors of docker and of the disk

ASSUME InstanceAssumption == Reality \subseteq Instances /\ 0 \notin Ports
ASSUME InstanceBounds == MaxRevision \in Nat /\ MaxCommands \in Nat /\ MaxFaults \in Nat

Nothing == 0        \* no port, version, key, certificate or configuration
Kinds == {"reconcile", "start", "stop", "certificate", "apply"}
Revisions == 1 .. MaxRevision
Keys == 1 .. MaxCommands        \* pairs of Reality key and short id ever made
Certificates == 1 .. MaxCommands

VARIABLES
    \* ---- docker
    container,      \* per instance: its state, port and version
    taken,          \* ports held by other programs of the host
    \* ---- the managed directory and the Nodes
    key, short,     \* reality.key and reality.short-id
    chain, private, \* fullchain.pem and privkey.pem
    active,         \* the configuration the Node runs
    lastGood,       \* last-good-config.json
    handler,        \* the handler that runs: its place, command and variables
    commands, faults,
    \* ---- what the panel was told
    known,          \* per instance: the last result of reconcile_instance
    served,         \* no reconcile_instance began since
    stopped,        \* stop_instance succeeded and nothing began since that starts it
    applied,        \* the revision that succeeded last
    rolledBack,     \* the last apply_config was rolled back
    \* ---- history
    cut,            \* kinds that failed by a fault since they last succeeded
    crowded         \* instances whose replacement did not get its port

docker == <<container, taken>>
files == <<key, short, chain, private, lastGood>>
budget == <<commands, faults>>
told == <<known, served, stopped, applied, rolledBack>>
history == <<cut, crowded>>
vars == <<docker, files, active, handler, budget, told, history>>

Absent == [state |-> "none", port |-> Nothing, version |-> Nothing]
Foreign == [Absent EXCEPT !.state = "foreign"]
Container == [state : {"created", "running", "stopped"}, port : Ports, version : Versions]
                \cup {Absent, Foreign}

Places == {"inspect", "material", "writeKey", "writeShort", "pull", "start", "stop",
           "remove", "create", "bind", "cleanup", "lifecycle", "readPair", "writeChain",
           "writePrivate", "post", "rollback", "persist", "report", "reportRollback"}
Idle == [at |-> "idle"]

(* asked, version and revision are of the command; existed, port, retried  *)
(* and drawn (the key or certificate to write) are the handler's.          *)
Handling == [at : Places, kind : Kinds, instance : Instances,
             asked : Ports \cup {Nothing}, version : Versions \cup {Nothing},
             revision : 0 .. MaxRevision, existed : BOOLEAN,
             port : Ports \cup {Nothing}, retried : BOOLEAN, drawn : 0 .. MaxCommands]
Unknown == [port |-> Nothing, version |-> Nothing, key |-> Nothing, short |-> Nothing]

TypeOK ==
    /\ container \in [Instances -> Container] /\ taken \subseteq Ports
    /\ key \in [Instances -> Keys \cup {Nothing}]
    /\ short \in [Instances -> Keys \cup {Nothing}]
    /\ chain \in [Instances -> Certificates \cup {Nothing}]
    /\ private \in [Instances -> Certificates \cup {Nothing}]
    /\ active \in [Instances -> Revisions \cup {Nothing}]
    /\ lastGood \in [Instances -> Revisions \cup {Nothing}]
    /\ handler \in Handling \cup {Idle}
    /\ commands \in 0 .. MaxCommands /\ faults \in 0 .. MaxFaults
    /\ known \in [Instances -> [port : Ports \cup {Nothing},
                                version : Versions \cup {Nothing},
                                key : Keys \cup {Nothing}, short : Keys \cup {Nothing}]]
    /\ served \in [Instances -> BOOLEAN] /\ stopped \in [Instances -> BOOLEAN]
    /\ applied \in [Instances -> Revisions \cup {Nothing}]
    /\ rolledBack \in [Instances -> BOOLEAN]
    /\ cut \subseteq Instances \X Kinds /\ crowded \subseteq Instances

Empty(S, x) == [i \in S |-> x]

(* Another program may have ports, and a container of another owner a name. *)
Init ==
    /\ container \in [Instances -> {Absent, Foreign}]
    /\ taken \in SUBSET Ports
    /\ key = Empty(Instances, Nothing) /\ short = Empty(Instances, Nothing)
    /\ chain = Empty(Instances, Nothing) /\ private = Empty(Instances, Nothing)
    /\ active = Empty(Instances, Nothing) /\ lastGood = Empty(Instances, Nothing)
    /\ handler = Idle
    /\ commands = 0 /\ faults = MaxFaults
    /\ known = Empty(Instances, Unknown)
    /\ served = Empty(Instances, FALSE) /\ stopped = Empty(Instances, FALSE)
    /\ applied = Empty(Instances, Nothing) /\ rolledBack = Empty(Instances, FALSE)
    /\ cut = {} /\ crowded = {}

(***************************************************************************)
(* A command begins and ends.                                              *)
(***************************************************************************)
Command(k, i, p, v, r, place) ==
    [at |-> place, kind |-> k, instance |-> i, asked |-> p, version |-> v, revision |-> r,
     existed |-> FALSE, port |-> Nothing, retried |-> FALSE, drawn |-> Nothing]

(* Execute calls the handler of the command's kind; the panel may ask for  *)
(* any of them, also for what it asked for before.                         *)
Begin(i) ==
    /\ handler = Idle /\ commands < MaxCommands
    /\ commands' = commands + 1
    /\ \/ /\ \E p \in Ports, v \in Versions :
                handler' = Command("reconcile", i, p, v, Nothing, "inspect")
          /\ served' = [served EXCEPT ![i] = FALSE]
          /\ stopped' = [stopped EXCEPT ![i] = FALSE]
          /\ UNCHANGED rolledBack
       \/ /\ handler' = Command("start", i, Nothing, Nothing, Nothing, "lifecycle")
          /\ stopped' = [stopped EXCEPT ![i] = FALSE]
          /\ UNCHANGED <<served, rolledBack>>
       \/ /\ handler' \in {Command("stop", i, Nothing, Nothing, Nothing, "lifecycle"),
                           Command("certificate", i, Nothing, Nothing, Nothing, "readPair")}
          /\ UNCHANGED <<served, stopped, rolledBack>>
       \/ /\ \E r \in Revisions : handler' = Command("apply", i, Nothing, Nothing, r, "post")
          /\ rolledBack' = [rolledBack EXCEPT ![i] = FALSE]
          /\ UNCHANGED <<served, stopped>>
    /\ UNCHANGED <<docker, files, active, faults, known, applied, history>>

At(place) == handler # Idle /\ handler.at = place
I == handler.instance
Mine == container[I]
Goto(place) == handler' = [handler EXCEPT !.at = place]

Done == handler' = Idle

(* The Agent dies, or a cancelled context refuses the next docker command  *)
(* or request; docker, the disk or the image registry fail.  What was done *)
(* stays done, and the handler ends there.                                 *)
Interrupted ==
    /\ handler # Idle /\ faults > 0
    /\ faults' = faults - 1
    /\ Done
    /\ cut' = cut \cup {<<I, handler.kind>>}
    /\ UNCHANGED <<docker, files, active, commands, told, crowded>>

MutResultPort == handler.asked
ResultPort == handler.port

(* persist: the result is in the store, from where the panel gets it.      *)
Report ==
    /\ At("report") /\ Done
    /\ known' = IF handler.kind # "reconcile" THEN known
                ELSE [known EXCEPT ![I] = [port |-> ResultPort,
                                           version |-> handler.version,
                                           key |-> key[I], short |-> short[I]]]
    /\ served' = [served EXCEPT ![I] = @ \/ handler.kind = "reconcile"]
    /\ stopped' = [stopped EXCEPT ![I] = @ \/ handler.kind = "stop"]
    /\ applied' = [applied EXCEPT ![I] = IF handler.kind = "apply" THEN handler.revision
                                                                   ELSE @]
    /\ cut' = cut \ {<<I, handler.kind>>}
    /\ crowded' = IF handler.kind = "reconcile" THEN crowded \ {I} ELSE crowded
    /\ UNCHANGED <<docker, files, active, budget, rolledBack>>

ReportRollback ==
    /\ At("reportRollback") /\ Done
    /\ rolledBack' = [rolledBack EXCEPT ![I] = TRUE]
    /\ UNCHANGED <<docker, files, active, budget, known, served, stopped, applied, history>>

(***************************************************************************)
(* reconcile_instance.                                                     *)
(***************************************************************************)
Free(p) == /\ p \notin taken
           /\ \A i \in Instances : container[i].state = "running" => container[i].port # p

(* selectExternalPort: the external port if it is free, else a fallback.   *)
Selectable(excluded) ==
    {p \in Ports \ excluded : /\ Free(p)
                              /\ Free(handler.asked) /\ handler.asked \notin excluded
                                     => p = handler.asked}

Inspect ==
    /\ At("inspect")
    /\ \/ Mine.state = "foreign" /\ Done
       \/ /\ Mine.state = "none"
          /\ \/ \E p \in Selectable({}) :
                   handler' = [handler EXCEPT !.at = "material", !.port = p]
             \/ Selectable({}) = {} /\ Done
       \/ /\ Mine.state \notin {"foreign", "none"}
          /\ handler' = [handler EXCEPT !.at = "material", !.existed = TRUE,
                                        !.port = handler.asked]
    /\ UNCHANGED <<docker, files, active, budget, told, history>>

Whole(i) == i \notin Reality \/ (key[i] # Nothing /\ short[i] # Nothing)

(* ensureRealityMaterial: what is there is used, if it is whole.           *)
MutMaterial ==
    /\ At("material")
    /\ handler' = [handler EXCEPT !.at = "writeKey", !.drawn = commands]
    /\ UNCHANGED <<docker, files, active, budget, told, history>>

Material ==
    /\ At("material")
    /\ \/ Whole(I) /\ Goto("pull")
       \/ /\ ~Whole(I) /\ key[I] = Nothing
          /\ handler' = [handler EXCEPT !.at = "writeKey", !.drawn = commands]
       \/ ~Whole(I) /\ key[I] # Nothing /\ Done
    /\ UNCHANGED <<docker, files, active, budget, told, history>>

WriteKey ==
    /\ At("writeKey") /\ Goto("writeShort")
    /\ key' = [key EXCEPT ![I] = handler.drawn]
    /\ UNCHANGED <<docker, short, chain, private, lastGood, active, budget, told, history>>

WriteShort ==
    /\ At("writeShort") /\ Goto("pull")
    /\ short' = [short EXCEPT ![I] = handler.drawn]
    /\ UNCHANGED <<docker, key, chain, private, lastGood, active, budget, told, history>>

(* The container's hash label is that of the port and the version.         *)
Same == Mine.port = handler.port /\ Mine.version = handler.version

Pull ==
    /\ At("pull")
    /\ Goto(IF ~handler.existed THEN "create" ELSE IF Same THEN "start" ELSE "stop")
    /\ UNCHANGED <<docker, files, active, budget, told, history>>

Runs(i) == [container EXCEPT ![i].state = "running"]
Blank(i) == [active EXCEPT ![i] = Nothing]      \* a process that starts or stops

StartSame ==
    /\ At("start")
    /\ \/ Mine.state = "running" /\ Goto("report") /\ UNCHANGED <<container, active>>
       \/ /\ Mine.state # "running" /\ Free(Mine.port) /\ Goto("report")
          /\ container' = Runs(I) /\ active' = Blank(I)
       \/ /\ Mine.state # "running" /\ ~Free(Mine.port) /\ Done
          /\ UNCHANGED <<container, active>>
    /\ UNCHANGED <<taken, files, budget, told, history>>

StopOld ==
    /\ At("stop") /\ Goto("remove")
    /\ container' = IF Mine.state = "running"
                    THEN [container EXCEPT ![I].state = "stopped"] ELSE container
    /\ active' = Blank(I)
    /\ UNCHANGED <<taken, files, budget, told, history>>

RemoveOld ==
    /\ At("remove") /\ Goto("create")
    /\ container' = [container EXCEPT ![I] = Absent]
    /\ UNCHANGED <<taken, files, active, budget, told, history>>

(* docker run makes the container ...                                      *)
Create ==
    /\ At("create") /\ Goto("bind")
    /\ container' = [container EXCEPT ![I] = [state |-> "created", port |-> handler.port,
                                              version |-> handler.version]]
    /\ UNCHANGED <<taken, files, active, budget, told, history>>

(* ... and then binds its port.  What a conflict left is removed only if   *)
(* there was no container before.                                          *)
Bind ==
    /\ At("bind")
    /\ \/ /\ Free(handler.port) /\ Goto("report")
          /\ container' = Runs(I) /\ UNCHANGED crowded
       \/ /\ ~Free(handler.port) /\ handler.existed /\ Done
          /\ crowded' = crowded \cup {I} /\ UNCHANGED container
       \/ /\ ~Free(handler.port) /\ ~handler.existed /\ Goto("cleanup")
          /\ UNCHANGED <<container, crowded>>
    /\ UNCHANGED <<taken, files, active, budget, told, cut>>

(* removeFailedOwnedContainer, and one more port.                          *)
Cleanup ==
    /\ At("cleanup")
    /\ container' = [container EXCEPT ![I] = Absent]
    /\ \/ /\ ~handler.retried
          /\ \/ \E p \in Selectable({handler.port}) :
                   handler' = [handler EXCEPT !.at = "create", !.port = p, !.retried = TRUE]
             \/ Selectable({handler.port}) = {} /\ Done
       \/ handler.retried /\ Done
    /\ UNCHANGED <<taken, files, active, budget, told, history>>

(***************************************************************************)
(* start_instance and stop_instance.                                       *)
(***************************************************************************)
StartInstance ==
    /\ At("lifecycle") /\ handler.kind = "start"
    /\ \/ Mine.state = "running" /\ Goto("report") /\ UNCHANGED <<container, active>>
       \/ /\ Mine.state \in {"created", "stopped"} /\ Free(Mine.port) /\ Goto("report")
          /\ container' = Runs(I) /\ active' = Blank(I)
       \/ /\ Mine.state \in {"none", "foreign"} \/ (Mine.state # "running" /\ ~Free(Mine.port))
          /\ Done /\ UNCHANGED <<container, active>>
    /\ UNCHANGED <<taken, files, budget, told, history>>

StopInstance ==
    /\ At("lifecycle") /\ handler.kind = "stop"
    /\ \/ Mine.state = "foreign" /\ Done /\ UNCHANGED <<container, active>>
       \/ /\ Mine.state = "running" /\ Goto("report")
          /\ container' = [container EXCEPT ![I].state = "stopped"]
          /\ active' = Blank(I)
       \/ /\ Mine.state \in {"none", "created", "stopped"} /\ Goto("report")
          /\ UNCHANGED <<container, active>>
    /\ UNCHANGED <<taken, files, budget, told, history>>

(***************************************************************************)
(* reconcile_certificate: the pair of certbot, or files of the operator,   *)
(* which may be a pair or not.                                             *)
(***************************************************************************)
ReadPair ==
    /\ At("readPair")
    /\ \/ handler' = [handler EXCEPT !.at = "writeChain", !.drawn = commands]
       \/ Done
    /\ UNCHANGED <<docker, files, active, budget, told, history>>

WriteChain ==
    /\ At("writeChain") /\ Goto("writePrivate")
    /\ chain' = [chain EXCEPT ![I] = handler.drawn]
    /\ UNCHANGED <<docker, key, short, private, lastGood, active, budget, told, history>>

WritePrivate ==
    /\ At("writePrivate") /\ Goto("report")
    /\ private' = [private EXCEPT ![I] = handler.drawn]
    /\ UNCHANGED <<docker, key, short, chain, lastGood, active, budget, told, history>>

(***************************************************************************)
(* apply_config.                                                           *)
(***************************************************************************)

(* renderRuntimeConfig needs the Reality material.  A Node that is up may  *)
(* take the configuration or refuse it; one that refuses it, or does not   *)
(* answer in time, may run any of the old, the new or none.                *)
After(r) == {active[I], r, Nothing}

Post ==
    /\ At("post")
    /\ \/ ~Whole(I) /\ Done /\ UNCHANGED active
       \/ /\ Whole(I) /\ Mine.state = "running" /\ Goto("persist")
          /\ active' = [active EXCEPT ![I] = handler.revision]
       \/ /\ Whole(I) /\ Mine.state = "running" /\ Goto("rollback")
          /\ \E r \in After(handler.revision) : active' = [active EXCEPT ![I] = r]
       \/ Whole(I) /\ Mine.state # "running" /\ Goto("rollback") /\ UNCHANGED active
    /\ UNCHANGED <<docker, files, budget, told, history>>

(* The configuration that was stored last, if it is another one.           *)
Previous == lastGood[I] \notin {Nothing, handler.revision}

MutRollback ==      \* the error of the second request ignored
    /\ At("rollback") /\ Previous /\ Mine.state = "running" /\ Goto("reportRollback")
    /\ \E r \in After(lastGood[I]) : active' = [active EXCEPT ![I] = r]
    /\ UNCHANGED <<docker, files, budget, told, history>>

Rollback ==
    /\ At("rollback")
    /\ \/ /\ Previous /\ Mine.state = "running" /\ Goto("reportRollback")
          /\ active' = [active EXCEPT ![I] = lastGood[I]]
       \/ /\ Previous /\ Mine.state = "running" /\ Done
          /\ \E r \in After(lastGood[I]) : active' = [active EXCEPT ![I] = r]
       \/ ~(Previous /\ Mine.state = "running") /\ Done /\ UNCHANGED active
    /\ UNCHANGED <<docker, files, budget, told, history>>

Persist ==
    /\ At("persist") /\ Goto("report")
    /\ lastGood' = [lastGood EXCEPT ![I] = handler.revision]
    /\ UNCHANGED <<docker, key, short, chain, private, active, budget, told, history>>

(***************************************************************************)
(* The rest of the host.                                                   *)
(***************************************************************************)
OtherProgram(p) ==
    /\ \/ Free(p) /\ taken' = taken \cup {p}
       \/ p \in taken /\ taken' = taken \ {p}
    /\ UNCHANGED <<container, files, active, handler, budget, told, history>>

(* docker run --restart unless-stopped.                                    *)
MutComesBack(i) == container[i].state \in {"running", "stopped"} /\ Free(container[i].port)
ComesBack(i) == container[i].state = "running"

Reboot ==
    /\ faults > 0 /\ faults' = faults - 1
    /\ handler' = Idle
    /\ cut' = IF handler = Idle THEN cut ELSE cut \cup {<<I, handler.kind>>}
    /\ container' = [i \in Instances |->
                        IF ComesBack(i) THEN [container[i] EXCEPT !.state = "running"]
                        ELSE container[i]]
    /\ active' = [i \in Instances |-> Nothing]
    /\ rolledBack' = [i \in Instances |-> FALSE]
    /\ UNCHANGED <<taken, files, commands, known, served, stopped, applied, crowded>>

Next ==
    \/ \E i \in Instances : Begin(i)
    \/ Interrupted \/ Report \/ ReportRollback
    \/ Inspect \/ Material \/ WriteKey \/ WriteShort \/ Pull \/ StartSame \/ StopOld
    \/ RemoveOld \/ Create \/ Bind \/ Cleanup
    \/ StartInstance \/ StopInstance
    \/ ReadPair \/ WriteChain \/ WritePrivate
    \/ Post \/ Rollback \/ Persist
    \/ \E p \in Ports : OtherProgram(p)
    \/ Reboot

Spec == Init /\ [][Next]_vars

(***************************************************************************)
(* Properties.                                                             *)
(***************************************************************************)
Busy(i, k) == handler # Idle /\ I = i /\ handler.kind = k

(* What the panel was told of an instance is what is on the host, until it *)
(* asks for something else: the container with that port and version, and  *)
(* the Reality material that clients were given.                           *)
ReportedIsServed ==
    \A i \in Instances : served[i] =>
        /\ container[i].state \in {"running", "stopped"}
        /\ container[i].port = known[i].port /\ container[i].version = known[i].version

(* The Reality key that clients were given is never replaced, whatever     *)
(* fails or is repeated later, and it never has a short id of another key. *)
MaterialIsKept ==
    \A i \in Instances :
        /\ known[i] # Unknown => key[i] = known[i].key /\ short[i] = known[i].short
        /\ short[i] \in {Nothing, key[i]}

(* A container that never ran is not left behind by a bind race of a new   *)
(* instance: it would keep its port although another may be free.          *)
RaceLeavesNothing ==
    \A i \in Instances :
        container[i].state = "created"
            => Busy(i, "reconcile") \/ <<i, "reconcile">> \in cut \/ i \in crowded

(* An instance that was stopped stays so until it is asked to run, also    *)
(* when the host reboots.                                                  *)
StoppedStaysStopped ==
    \A i \in Instances : stopped[i] => container[i].state # "running"

(* The installed certificate has its key, unless a renewal was cut off     *)
(* between the two and has not been repeated.                              *)
CertificateHasItsKey ==
    \A i \in Instances :
        chain[i] # private[i] => Busy(i, "certificate") \/ <<i, "certificate">> \in cut

(* A configuration the panel is told was rolled back is one it was told    *)
(* had been applied, and the Node runs that one, unless an application was *)
(* cut off after the Node took it.                                         *)
RolledBackToApplied ==
    \A i \in Instances :
        rolledBack[i] /\ <<i, "apply">> \notin cut
            => lastGood[i] = applied[i] /\ active[i] \in {applied[i], Nothing}
=============================================================================
