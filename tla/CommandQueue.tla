---------------------------- MODULE CommandQueue ----------------------------
(***************************************************************************)
(* What the durable command queue of a Machine promises its callers (the   *)
(* provisioning, retry, publish and renewal code of the panel): a command  *)
(* that was created stays pending until it gets one outcome, the outcome   *)
(* never changes, and "succeeded" is said only of a command whose work the *)
(* Agent really finished and recorded.                                     *)
(*                                                                         *)
(* The Agent may finish work the panel has already written off (a deadline *)
(* passed meanwhile), so Perform asks nothing of a command but that it was *)
(* submitted.  A failure may take dependent pending commands with it.      *)
(***************************************************************************)
CONSTANT Ids            \* identities of the commands of one Machine

VARIABLES
    phase,              \* what the panel reports of each command
    done                \* commands whose work the Agent finished and recorded

cvars == <<phase, done>>

Phases == {"absent", "pending", "succeeded", "failed", "cancelled"}

CInit == /\ phase = [i \in Ids |-> "absent"]
         /\ done = {}

(* A caller creates a command. *)
Submit(i) ==
    /\ phase[i] = "absent"
    /\ phase' = [phase EXCEPT ![i] = "pending"]
    /\ UNCHANGED done

(* The Agent finishes the work of a command, whether or not the panel still *)
(* waits for it.                                                            *)
Perform(i) ==
    /\ phase[i] # "absent"
    /\ done' = done \cup {i}
    /\ UNCHANGED phase

Succeed(i) ==
    /\ phase[i] = "pending"
    /\ i \in done
    /\ phase' = [phase EXCEPT ![i] = "succeeded"]
    /\ UNCHANGED done

(* A failure cancels some of the commands that depend on the failed one. *)
Fail(i) ==
    /\ phase[i] = "pending"
    /\ \E dependants \in SUBSET {j \in Ids \ {i} : phase[j] = "pending"} :
          phase' = [j \in Ids |-> IF j = i THEN "failed"
                                  ELSE IF j \in dependants THEN "cancelled"
                                  ELSE phase[j]]
    /\ UNCHANGED done

CNext == \E i \in Ids : Submit(i) \/ Perform(i) \/ Succeed(i) \/ Fail(i)

CSpec == CInit /\ [][CNext]_cvars
=============================================================================
