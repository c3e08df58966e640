----------------------------- MODULE Enrollment -----------------------------
(***************************************************************************)
(* How one Machine gets its credential: the one-time token of the panel,   *)
(* its rotation, its exchange for a certificate, the replay of a lost      *)
(* response, and the installation on the host, which may stop anywhere.    *)
(*                                                                         *)
(* Each statement of the panel on the row of the Machine is one action,    *)
(* and so is each step of the Agent that commits something to the disk (a  *)
(* rename of a staged directory, its removal).  A request the Agent has    *)
(* given up goes on in the panel.                                          *)
(*                                                                         *)
(* A host that has no pending request makes a key, a CSR and an attempt    *)
(* identity and renames them into place in one step; it removes them only  *)
(* after its credential is installed.  So it has one attempt, which is     *)
(* named here by the host, and a certificate is for the key of a host.     *)
(***************************************************************************)
EXTENDS Integers, Sequences

CONSTANTS
    Hosts,          \* machines on which the command was started
    NoHost,
    MaxTokens,      \* bound: tokens ever made for the Machine
    MaxRuns         \* bound: runs of the command, per host

ASSUME HostsAssumption == NoHost \notin Hosts
ASSUME EnrollmentBounds == MaxTokens \in Nat \ {0} /\ MaxRuns \in Nat

Tokens == 1 .. MaxTokens
Requests == Hosts \X (1 .. MaxRuns)
None == 0           \* no token, no certificate

VARIABLES
    \* ---- the row of the Machine
    status,
    tokenHash,      \* enrollmentTokenHash: the token that may be exchanged
    tokenFresh,     \* enrollmentExpiresAt is in the future
    replayHost,     \* enrollmentAttemptId and enrollmentCsrFingerprint
    replayToken,    \* enrollmentReplayTokenHash
    response,       \* enrollmentResponse: the certificate in it
    fingerprint,    \* clientCertFingerprint: the certificate that is trusted
    inTime,         \* the thirty minutes since the last exchange are not over
    \* ---- the rest of the panel
    tokens,         \* number of tokens made
    rotation,       \* a rotation has seen a Machine that is not enrolled
    stage, asked,   \* per request: how far the panel is, and its token
    answer,         \* per request: the certificate in the response
    session,        \* per host: its control session
    \* ---- the hosts
    runs,           \* runs of the command so far
    step,           \* where the Agent's enroll command is
    received,       \* the certificate of the response it has validated
    pending,        \* the pending directory exists
    config,         \* the certificate in the configuration directory
    \* ---- history
    issued,         \* for each certificate: the token spent, the host's key
    overtaken       \* a rotation wrote to a Machine enrolled meanwhile

row == <<status, tokenHash, tokenFresh, replayHost, replayToken, response,
         fingerprint, inTime>>
panel == <<tokens, rotation>>
exchange == <<stage, asked, answer>>
host == <<runs, step, received, pending, config>>
history == <<issued, overtaken>>
vars == <<row, panel, exchange, session, host, history>>

Stages == {"none", "sent", "checked", "beaten", "answered", "refused", "gone"}
Steps == {"idle", "posted", "received", "installed"}
SessionStates == {"none", "open", "ready", "superseded"}

TypeOK ==
    /\ status \in {"DRAFT", "ENROLLING", "CONNECTED"}
    /\ tokens \in Tokens /\ tokenHash \in 0 .. tokens
    /\ tokenFresh \in BOOLEAN /\ inTime \in BOOLEAN
    /\ rotation \in BOOLEAN /\ overtaken \in BOOLEAN
    /\ issued \in Seq([token : Tokens, host : Hosts])
    /\ replayHost \in Hosts \cup {NoHost} /\ replayToken \in 0 .. tokens
    /\ response \in 0 .. Len(issued) /\ fingerprint \in 0 .. Len(issued)
    /\ stage \in [Requests -> Stages] /\ asked \in [Requests -> 0 .. tokens]
    /\ answer \in [Requests -> 0 .. Len(issued)]
    /\ session \in [Hosts -> SessionStates]
    /\ runs \in [Hosts -> 0 .. MaxRuns]
    /\ step \in [Hosts -> Steps]
    /\ received \in [Hosts -> 0 .. Len(issued)]
    /\ pending \in [Hosts -> BOOLEAN]
    /\ config \in [Hosts -> 0 .. Len(issued)]

(* createMachine made the first token. *)
Init ==
    /\ status = "DRAFT"
    /\ tokenHash = 1 /\ tokenFresh = TRUE
    /\ replayHost = NoHost /\ replayToken = None
    /\ response = None /\ fingerprint = None /\ inTime = FALSE
    /\ tokens = 1 /\ rotation = FALSE
    /\ stage = [r \in Requests |-> "none"] /\ asked = [r \in Requests |-> None]
    /\ answer = [r \in Requests |-> None]
    /\ session = [h \in Hosts |-> "none"]
    /\ runs = [h \in Hosts |-> 0] /\ step = [h \in Hosts |-> "idle"]
    /\ received = [h \in Hosts |-> None]
    /\ pending = [h \in Hosts |-> FALSE] /\ config = [h \in Hosts |-> None]
    /\ issued = <<>> /\ overtaken = FALSE

(***************************************************************************)
(* The panel.                                                              *)
(***************************************************************************)
NoReplay == replayHost' = NoHost /\ replayToken' = None /\ response' = None

(* rotateEnrollmentToken refuses a Machine that has a certificate ... *)
RotateReads ==
    /\ ~rotation /\ fingerprint = None /\ tokens < MaxTokens
    /\ rotation' = TRUE
    /\ UNCHANGED <<row, tokens, exchange, session, host, history>>

(* ... and then writes, whatever the Machine has become. *)
RotateWrites ==
    /\ rotation /\ rotation' = FALSE
    /\ tokens' = tokens + 1
    /\ status' = "DRAFT"
    /\ tokenHash' = tokens + 1 /\ tokenFresh' = TRUE
    /\ NoReplay
    /\ overtaken' = (overtaken \/ fingerprint # None)
    /\ UNCHANGED <<fingerprint, inTime, exchange, session, host, issued>>

(* The stored response answers the request r again: same token, same       *)
(* attempt and CSR, in time.                                               *)
Replays(r) == replayToken = asked[r] /\ replayHost = r[1] /\ inTime

(* The token of r is the one of the row, not used, in time.  (A row that   *)
(* is found by its replay token has its token used.)                       *)
Redeemable(r) == tokenHash = asked[r] /\ tokenFresh

Respond(r, c) == /\ stage' = [stage EXCEPT ![r] = "answered"]
                 /\ answer' = [answer EXCEPT ![r] = c]

Refuse(r) == stage' = [stage EXCEPT ![r] = "refused"] /\ UNCHANGED answer

(* enroll looks the Machine up: replay, refuse, or go on and sign a        *)
(* certificate.                                                            *)
EnrollReads(r) ==
    /\ stage[r] = "sent"
    /\ \/ Replays(r) /\ Respond(r, response)
       \/ /\ ~Replays(r) /\ Redeemable(r)
          /\ stage' = [stage EXCEPT ![r] = "checked"] /\ UNCHANGED answer
       \/ ~Replays(r) /\ ~Redeemable(r) /\ Refuse(r)
    /\ UNCHANGED <<row, panel, asked, session, host, history>>

(* consumeEnrollmentToken: one update, guarded by the token.  Whether it is *)
(* in time was decided with the time of the lookup.                        *)
MutUnspent(r) == TRUE
Unspent(r) == tokenHash = asked[r]

Consume(r) ==
    /\ issued' = Append(issued, [token |-> asked[r], host |-> r[1]])
    /\ status' = "ENROLLING"
    /\ tokenHash' = None
    /\ replayToken' = asked[r] /\ replayHost' = r[1] /\ inTime' = TRUE
    /\ response' = Len(issued) + 1 /\ fingerprint' = Len(issued) + 1
    /\ UNCHANGED tokenFresh

Beaten(r) == stage' = [stage EXCEPT ![r] = "beaten"] /\ UNCHANGED answer

EnrollConsumes(r) ==
    /\ stage[r] = "checked"
    /\ \/ Unspent(r) /\ Consume(r) /\ Respond(r, Len(issued) + 1)
       \/ ~Unspent(r) /\ Beaten(r) /\ UNCHANGED <<row, issued>>
    /\ UNCHANGED <<panel, asked, session, host, overtaken>>

(* Another request consumed the token: the same attempt gets its response. *)
MutEnrollRereads(r) ==
    /\ stage[r] = "beaten" /\ Refuse(r)
    /\ UNCHANGED <<row, panel, asked, session, host, history>>

EnrollRereads(r) ==
    /\ stage[r] = "beaten"
    /\ \/ Replays(r) /\ Respond(r, response)
       \/ ~Replays(r) /\ Refuse(r)
    /\ UNCHANGED <<row, panel, asked, session, host, history>>

(* Thirty minutes pass. *)
TokenExpires ==
    /\ tokenHash # None /\ tokenFresh /\ tokenFresh' = FALSE
    /\ UNCHANGED <<status, tokenHash, replayHost, replayToken, response, fingerprint,
                   inTime, panel, exchange, session, host, history>>

ReplayExpires ==
    /\ inTime /\ inTime' = FALSE
    /\ UNCHANGED <<status, tokenHash, tokenFresh, replayHost, replayToken, response,
                   fingerprint, panel, exchange, session, host, history>>

(* A request or its response is lost on the way. *)
ExchangeLost(r) ==
    /\ stage[r] \in {"sent", "answered", "refused"}
    /\ stage' = [stage EXCEPT ![r] = "gone"]
    /\ UNCHANGED <<row, panel, asked, answer, session, host, history>>

(* The panel restarts: what it was doing is gone, the row stays. *)
PanelRestarts ==
    /\ rotation \/ \E r \in Requests : stage[r] \in {"checked", "beaten"}
    /\ rotation' = FALSE
    /\ stage' = [r \in Requests |-> IF stage[r] = "none" THEN "none" ELSE "gone"]
    /\ session' = [h \in Hosts |-> "none"]
    /\ UNCHANGED <<row, tokens, asked, answer, host, history>>

(***************************************************************************)
(* The host: install.sh and Enroll.                                        *)
(***************************************************************************)

(* A host with a configuration directory skips the exchange; a host with a *)
(* pending directory uses it again, any other makes one.                   *)
Start(h, t) ==
    /\ step[h] = "idle" /\ config[h] = None /\ runs[h] < MaxRuns /\ t <= tokens
    /\ LET r == <<h, runs[h] + 1>>
       IN  /\ stage' = [stage EXCEPT ![r] = "sent"]
           /\ asked' = [asked EXCEPT ![r] = t]
    /\ runs' = [runs EXCEPT ![h] = @ + 1]
    /\ step' = [step EXCEPT ![h] = "posted"]
    /\ pending' = [pending EXCEPT ![h] = TRUE]
    /\ UNCHANGED <<row, panel, answer, session, received, config, history>>

Waiting(h) == <<h, runs[h]>>

(* The response is validated against the key of this host. *)
Receive(h) ==
    /\ step[h] = "posted" /\ stage[Waiting(h)] = "answered"
    /\ LET c == answer[Waiting(h)]
       IN  IF issued[c].host = h
           THEN /\ step' = [step EXCEPT ![h] = "received"]
                /\ received' = [received EXCEPT ![h] = c]
           ELSE /\ step' = [step EXCEPT ![h] = "idle"] /\ UNCHANGED received
    /\ stage' = [stage EXCEPT ![Waiting(h)] = "gone"]
    /\ UNCHANGED <<row, panel, asked, answer, session, runs, pending, config, history>>

(* A refusal, a lost connection, the timeout, or the process is killed:    *)
(* what is on the disk stays.                                              *)
MutStop(h) ==
    /\ step[h] # "idle" /\ step' = [step EXCEPT ![h] = "idle"]
    /\ received' = [received EXCEPT ![h] = None]
    /\ pending' = [pending EXCEPT ![h] = FALSE]
    /\ UNCHANGED <<row, panel, exchange, session, runs, config, history>>

Stop(h) ==
    /\ step[h] # "idle"
    /\ step' = [step EXCEPT ![h] = "idle"]
    /\ received' = [received EXCEPT ![h] = None]
    /\ UNCHANGED <<row, panel, exchange, session, runs, pending, config, history>>

Install(h) ==
    /\ step[h] = "received"
    /\ config' = [config EXCEPT ![h] = received[h]]
    /\ step' = [step EXCEPT ![h] = "installed"]
    /\ UNCHANGED <<row, panel, exchange, session, runs, received, pending, history>>

RemovePending(h) ==
    /\ step[h] = "installed"
    /\ pending' = [pending EXCEPT ![h] = FALSE]
    /\ step' = [step EXCEPT ![h] = "idle"]
    /\ received' = [received EXCEPT ![h] = None]
    /\ UNCHANGED <<row, panel, exchange, session, runs, config, history>>

(***************************************************************************)
(* The control session that the credential opens.                          *)
(***************************************************************************)

(* handleUpgrade compares the fingerprint with the row's; startSession     *)
(* closes the session it finds, whose hello may be in its pipeline.        *)
Connect(h) ==
    /\ config[h] # None /\ config[h] = fingerprint /\ session[h] = "none"
    /\ session' = [g \in Hosts |-> CASE g = h -> "open"
                                     [] g # h /\ session[g] = "open" -> "superseded"
                                     [] OTHER -> "none"]
    /\ UNCHANGED <<row, panel, exchange, host, history>>

(* markAgentConnected: whoever says hello on a session of the Machine, the *)
(* stored response is dropped.                                             *)
Hello(h) ==
    /\ session[h] \in {"open", "superseded"}
    /\ session' = [session EXCEPT ![h] = IF @ = "open" THEN "ready" ELSE "none"]
    /\ status' = "CONNECTED"
    /\ NoReplay
    /\ UNCHANGED <<tokenHash, tokenFresh, fingerprint, inTime, panel, exchange, host,
                   history>>

Disconnect(h) ==
    /\ session[h] # "none"
    /\ session' = [session EXCEPT ![h] = "none"]
    /\ UNCHANGED <<row, panel, exchange, host, history>>

Next ==
    \/ RotateReads \/ RotateWrites
    \/ \E r \in Requests : \/ EnrollReads(r) \/ EnrollConsumes(r) \/ EnrollRereads(r)
                           \/ ExchangeLost(r)
    \/ TokenExpires \/ ReplayExpires \/ PanelRestarts
    \/ \E h \in Hosts : \/ \E t \in Tokens : Start(h, t)
                        \/ Receive(h) \/ Stop(h) \/ Install(h) \/ RemovePending(h)
                        \/ Connect(h) \/ Hello(h) \/ Disconnect(h)

Spec == Init /\ [][Next]_vars

(***************************************************************************)
(* Properties.                                                             *)
(***************************************************************************)
Certificates == 1 .. Len(issued)

(* A one-time token buys one certificate, however many hosts and requests  *)
(* present it, in whatever order the panel's statements meet               *)
(* (consumeEnrollmentToken).                                               *)
TokenIsSpentOnce ==
    \A c, d \in Certificates : issued[c].token = issued[d].token => c = d

(* A host that has installed a credential, or is about to, can open a      *)
(* session with it: no exchange replaces a certificate that was given out, *)
(* but for a rotation that overtook one (Install against Consume).         *)
InstalledIsTrusted ==
    ~overtaken => \A h \in Hosts : {config[h], received[h]} \subseteq {None, fingerprint}

(* The thirty minutes of an exchange: wherever the host, the connection or *)
(* the panel stops, until the credential is installed the host still has   *)
(* the key and the attempt, and the row the response to it.                *)
Resumable(c) ==
    LET h == issued[c].host
    IN  config[h] = None /\ inTime =>
            /\ pending[h]
            /\ replayHost = h /\ replayToken = issued[c].token /\ response = c

(* ... of every exchange, unless a rotation overtook it.                   *)
IssuedIsResumable == ~overtaken => \A c \in Certificates : Resumable(c)

(* No request for an exchange that was made is refused in its time, not    *)
(* even one that was overtaken by the other request of the same attempt    *)
(* after it had found the token unused (enroll's second lookup).           *)
Refused(r) == stage[r] # "refused" /\ stage'[r] = "refused"
LostResponseIsReplayed ==
    [][\A r \in Requests :
          Refused(r) /\ inTime /\ ~overtaken /\ config[r[1]] = None
              => \A c \in Certificates : issued[c] # [token |-> asked[r], host |-> r[1]]]_vars
=============================================================================
