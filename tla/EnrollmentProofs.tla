-------------------------- MODULE EnrollmentProofs --------------------------
(***************************************************************************)
(* What Enrollment guarantees for any number of hosts, tokens and runs.    *)
(***************************************************************************)
EXTENDS Enrollment, SequenceTheorems, TLAPS

(* The certificate that is trusted is the last one issued. *)
LastIsTrusted == fingerprint = Len(issued)

(* A token that can still be exchanged bought nothing yet. *)
RowTokenUnspent ==
    \A c \in Certificates : /\ issued[c].token <= tokens
                            /\ issued[c].token # tokenHash

(* A rotation that has read may make its token. *)
RotationHasRoom == rotation => tokens < MaxTokens

(* A request carries a token. *)
RequestsCarryTokens == \A r \in Requests : stage[r] # "none" => asked[r] # None

(* A Machine no rotation overtook was enrolled once, and its token is gone. *)
EnrolledOnce ==
    ~overtaken => Len(issued) <= 1 /\ (Len(issued) = 1 => tokenHash = None)

(* A stored response has a certificate, and so has every answer. *)
AnswersHaveCertificates ==
    /\ replayHost # NoHost => response # None
    /\ \A r \in Requests : stage[r] = "answered" => answer[r] # None

(* A host has the pending directory from its first request until its       *)
(* credential is installed.                                                *)
RequestsArePending ==
    \A r \in Requests : stage[r] # "none" => pending[r[1]] \/ config[r[1]] # None

StepsAreBacked ==
    \A h \in Hosts : /\ step[h] # "idle" => runs[h] # 0
                     /\ step[h] = "received" => received[h] # None
                     /\ step[h] = "installed" => config[h] # None

(* A host holds certificates for its own key only, and only hosts with a   *)
(* credential have sessions.                                               *)
OwnKey ==
    \A h \in Hosts : /\ received[h] # None => issued[received[h]].host = h
                     /\ config[h] # None => issued[config[h]].host = h
                     /\ session[h] # "none" => config[h] # None

IInv ==
    /\ TypeOK
    /\ LastIsTrusted
    /\ RowTokenUnspent
    /\ TokenIsSpentOnce
    /\ RotationHasRoom
    /\ RequestsCarryTokens
    /\ EnrolledOnce
    /\ AnswersHaveCertificates
    /\ RequestsArePending
    /\ StepsAreBacked
    /\ OwnKey
    /\ IssuedIsResumable

-----------------------------------------------------------------------------
LEMMA InitIInv == Init => IInv
<1> SUFFICES ASSUME Init PROVE IInv
    OBVIOUS
<1>1. issued = <<>> /\ Len(issued) = 0 /\ issued \in Seq([token : Tokens, host : Hosts])
    BY DEF Init
<1>2. TypeOK
  <2>1. /\ stage \in [Requests -> Stages] /\ session \in [Hosts -> SessionStates]
        /\ step \in [Hosts -> Steps] /\ pending \in [Hosts -> BOOLEAN]
    BY DEF Init, Stages, Steps, SessionStates
  <2>2. /\ tokens \in Tokens /\ tokenHash \in 0 .. tokens /\ replayToken \in 0 .. tokens
        /\ response \in 0 .. Len(issued) /\ fingerprint \in 0 .. Len(issued)
    BY <1>1, EnrollmentBounds DEF Init, Tokens, None
  <2>3. /\ asked \in [Requests -> 0 .. tokens] /\ answer \in [Requests -> 0 .. Len(issued)]
        /\ runs \in [Hosts -> 0 .. MaxRuns] /\ received \in [Hosts -> 0 .. Len(issued)]
        /\ config \in [Hosts -> 0 .. Len(issued)]
    BY <1>1, EnrollmentBounds DEF Init, None
  <2> QED
    BY <1>1, <2>1, <2>2, <2>3 DEF Init, TypeOK
<1>3. Certificates = {}
    BY <1>1 DEF Certificates
<1> QED
    BY <1>1, <1>2, <1>3
    DEF Init, IInv, LastIsTrusted, RowTokenUnspent, TokenIsSpentOnce, RotationHasRoom,
        RequestsCarryTokens,
        EnrolledOnce, AnswersHaveCertificates, RequestsArePending, StepsAreBacked,
        OwnKey, IssuedIsResumable, None, Requests

(* What an exchange appends. *)
LEMMA Issue ==
    ASSUME TypeOK, NEW r \in Requests, asked[r] \in Tokens,
           issued' = Append(issued, [token |-> asked[r], host |-> r[1]])
    PROVE  /\ issued' \in Seq([token : Tokens, host : Hosts])
           /\ Len(issued) \in Nat /\ Len(issued') = Len(issued) + 1
           /\ \A c \in Certificates : issued'[c] = issued[c]
           /\ issued'[Len(issued) + 1] = [token |-> asked[r], host |-> r[1]]
<1>1. [token |-> asked[r], host |-> r[1]] \in [token : Tokens, host : Hosts]
    BY DEF Requests
<1>2. issued \in Seq([token : Tokens, host : Hosts])
    BY DEF TypeOK
<1> QED
    BY <1>1, <1>2, AppendProperties DEF Certificates

(* A request belongs to a host. *)
LEMMA RequestHost ==
    /\ \A r \in Requests : r[1] \in Hosts
    /\ \A h \in Hosts, n \in 1 .. MaxRuns : <<h, n>> \in Requests /\ <<h, n>>[1] = h
BY DEF Requests

(* What the steps use of types. *)
Grounds ==
    /\ Len(issued) \in Nat /\ tokens \in 1 .. MaxTokens
    /\ None \in 0 .. Len(issued) /\ None \in 0 .. tokens
    /\ \A c \in Certificates : issued[c].token \in Tokens /\ issued[c].host \in Hosts

LEMMA GroundsHold == IInv => Grounds
<1> SUFFICES ASSUME TypeOK PROVE Grounds
    BY DEF IInv
<1>1. issued \in Seq([token : Tokens, host : Hosts])
    BY DEF TypeOK
<1>2. Len(issued) \in Nat
    BY <1>1
<1>3. \A c \in 1 .. Len(issued) : issued[c] \in [token : Tokens, host : Hosts]
    BY <1>1, ElementOfSeq
<1>4. /\ tokens \in 1 .. MaxTokens /\ None \in 0 .. Len(issued) /\ None \in 0 .. tokens
    BY <1>2, EnrollmentBounds DEF TypeOK, Tokens, None
<1> QED
    BY <1>2, <1>3, <1>4 DEF Grounds, Certificates

(* Time, rotation and restarts of the panel. *)
LEMMA RowPreserves ==
    ASSUME IInv, RotateReads \/ RotateWrites \/ TokenExpires \/ ReplayExpires \/ PanelRestarts
    PROVE  IInv'
<1> USE DEF row, panel, exchange, host, history
<1>0. Grounds
    BY GroundsHold
<1>1. CASE RotateReads
  <2>1. TypeOK'
    BY <1>1, EnrollmentBounds, HostsAssumption, RequestHost, <1>0 DEF IInv,
        Grounds, TypeOK, RotateReads
  <2>2. LastIsTrusted' /\ RowTokenUnspent' /\ TokenIsSpentOnce' /\ EnrolledOnce' /\ RotationHasRoom'
    BY <1>1, EnrollmentBounds, HostsAssumption, RequestHost, <1>0 DEF IInv,
        Grounds, TypeOK, RotationHasRoom, LastIsTrusted, RowTokenUnspent,
        TokenIsSpentOnce, EnrolledOnce, Certificates, None, RotateReads
  <2>3. RequestsCarryTokens'
    BY <1>1, EnrollmentBounds, HostsAssumption, RequestHost, <1>0 DEF IInv,
        Grounds, TypeOK, RequestsCarryTokens, None, RotateReads
  <2>4. AnswersHaveCertificates'
    BY <1>1, EnrollmentBounds, HostsAssumption, RequestHost, <1>0 DEF IInv,
        Grounds, TypeOK, AnswersHaveCertificates, None, RotateReads
  <2>5. RequestsArePending'
    BY <1>1, EnrollmentBounds, HostsAssumption, RequestHost, <1>0 DEF IInv,
        Grounds, TypeOK, RequestsArePending, StepsAreBacked, None, RotateReads
  <2>6. StepsAreBacked' /\ OwnKey'
    BY <1>1, EnrollmentBounds, HostsAssumption, RequestHost, <1>0 DEF IInv,
        Grounds, TypeOK, StepsAreBacked, OwnKey, AnswersHaveCertificates,
        None, RotateReads
  <2>7. IssuedIsResumable'
    BY <1>1, EnrollmentBounds, HostsAssumption, RequestHost, <1>0 DEF IInv,
        Grounds, TypeOK, LastIsTrusted, IssuedIsResumable, Resumable,
        Certificates, EnrolledOnce, OwnKey, StepsAreBacked, None, RotateReads
  <2> QED
    BY <2>1, <2>2, <2>3, <2>4, <2>5, <2>6, <2>7 DEF IInv
<1>2. CASE RotateWrites
  <2>1. TypeOK'
    <3>1. tokens' = tokens + 1 /\ tokens' \in Tokens
        BY <1>2, <1>0, EnrollmentBounds
        DEF IInv, Grounds, RotationHasRoom, RotateWrites, Tokens, TypeOK
    <3>2. asked' \in [Requests -> 0 .. tokens']
        BY <1>2, <3>1, <1>0 DEF IInv, Grounds, TypeOK, RotateWrites
    <3>3. /\ tokenHash' \in 0 .. tokens' /\ replayToken' \in 0 .. tokens'
          /\ response' \in 0 .. Len(issued) /\ replayHost' \in Hosts \cup {NoHost}
        BY <1>2, <3>1, <1>0 DEF IInv, Grounds, TypeOK, RotateWrites, NoReplay, None
    <3> QED
        BY <1>2, <3>1, <3>2, <3>3, <1>0 DEF IInv, TypeOK, RotateWrites
  <2>2. LastIsTrusted' /\ RowTokenUnspent' /\ TokenIsSpentOnce' /\ EnrolledOnce' /\ RotationHasRoom'
    <3>1. RowTokenUnspent' /\ RotationHasRoom'
        BY <1>2, <1>0
        DEF IInv, Grounds, RowTokenUnspent, RotationHasRoom, RotateWrites, Certificates, Tokens
    <3>2. LastIsTrusted' /\ TokenIsSpentOnce'
        BY <1>2, <1>0 DEF IInv, LastIsTrusted, TokenIsSpentOnce, RotateWrites, Certificates
    <3>3. EnrolledOnce'
        <4>1. ~overtaken' => fingerprint = None
            BY <1>2 DEF RotateWrites
        <4>2. Len(issued') = Len(issued)
            BY <1>2 DEF RotateWrites
        <4> QED
            BY <4>1, <4>2, <1>0 DEF IInv, EnrolledOnce, LastIsTrusted, None
    <3> QED
        BY <3>1, <3>2, <3>3
  <2>3. RequestsCarryTokens'
    BY <1>2, EnrollmentBounds, HostsAssumption, RequestHost, <1>0 DEF IInv,
        Grounds, TypeOK, RequestsCarryTokens, None, RotateWrites, NoReplay,
        Tokens
  <2>4. AnswersHaveCertificates'
    BY <1>2, EnrollmentBounds, HostsAssumption, RequestHost, <1>0 DEF IInv,
        Grounds, TypeOK, AnswersHaveCertificates, None, RotateWrites,
        NoReplay, Tokens
  <2>5. RequestsArePending'
    BY <1>2, EnrollmentBounds, HostsAssumption, RequestHost, <1>0 DEF IInv,
        Grounds, TypeOK, RequestsArePending, StepsAreBacked, None,
        RotateWrites, NoReplay, Tokens
  <2>6. StepsAreBacked' /\ OwnKey'
    BY <1>2, EnrollmentBounds, HostsAssumption, RequestHost, <1>0 DEF IInv,
        Grounds, TypeOK, StepsAreBacked, OwnKey, AnswersHaveCertificates,
        None, RotateWrites, NoReplay, Tokens
  <2>7. IssuedIsResumable'
    BY SMTT(30), <1>2, EnrollmentBounds, HostsAssumption, RequestHost, <1>0 DEF IInv,
        Grounds, TypeOK, LastIsTrusted, IssuedIsResumable, Resumable,
        Certificates, EnrolledOnce, OwnKey, StepsAreBacked, None,
        RotateWrites, NoReplay, Tokens
  <2> QED
    BY <2>1, <2>2, <2>3, <2>4, <2>5, <2>6, <2>7 DEF IInv
<1>3. CASE TokenExpires
  <2>1. TypeOK'
    BY <1>3, EnrollmentBounds, HostsAssumption, RequestHost, <1>0 DEF IInv,
        Grounds, TypeOK, TokenExpires
  <2>2. LastIsTrusted' /\ RowTokenUnspent' /\ TokenIsSpentOnce' /\ EnrolledOnce' /\ RotationHasRoom'
    BY <1>3, EnrollmentBounds, HostsAssumption, RequestHost, <1>0 DEF IInv,
        Grounds, TypeOK, RotationHasRoom, LastIsTrusted, RowTokenUnspent,
        TokenIsSpentOnce, EnrolledOnce, Certificates, None, TokenExpires
  <2>3. RequestsCarryTokens'
    BY <1>3, EnrollmentBounds, HostsAssumption, RequestHost, <1>0 DEF IInv,
        Grounds, TypeOK, RequestsCarryTokens, None, TokenExpires
  <2>4. AnswersHaveCertificates'
    BY <1>3, EnrollmentBounds, HostsAssumption, RequestHost, <1>0 DEF IInv,
        Grounds, TypeOK, AnswersHaveCertificates, None, TokenExpires
  <2>5. RequestsArePending'
    BY <1>3, EnrollmentBounds, HostsAssumption, RequestHost, <1>0 DEF IInv,
        Grounds, TypeOK, RequestsArePending, StepsAreBacked, None,
        TokenExpires
  <2>6. StepsAreBacked' /\ OwnKey'
    BY <1>3, EnrollmentBounds, HostsAssumption, RequestHost, <1>0 DEF IInv,
        Grounds, TypeOK, StepsAreBacked, OwnKey, AnswersHaveCertificates,
        None, TokenExpires
  <2>7. IssuedIsResumable'
    BY <1>3, EnrollmentBounds, HostsAssumption, RequestHost, <1>0 DEF IInv,
        Grounds, TypeOK, LastIsTrusted, IssuedIsResumable, Resumable,
        Certificates, EnrolledOnce, OwnKey, StepsAreBacked, None, TokenExpires
  <2> QED
    BY <2>1, <2>2, <2>3, <2>4, <2>5, <2>6, <2>7 DEF IInv
<1>4. CASE ReplayExpires
  <2>1. TypeOK'
    BY <1>4, EnrollmentBounds, HostsAssumption, RequestHost, <1>0 DEF IInv,
        Grounds, TypeOK, ReplayExpires
  <2>2. LastIsTrusted' /\ RowTokenUnspent' /\ TokenIsSpentOnce' /\ EnrolledOnce' /\ RotationHasRoom'
    BY <1>4, EnrollmentBounds, HostsAssumption, RequestHost, <1>0 DEF IInv,
        Grounds, TypeOK, RotationHasRoom, LastIsTrusted, RowTokenUnspent,
        TokenIsSpentOnce, EnrolledOnce, Certificates, None, ReplayExpires
  <2>3. RequestsCarryTokens'
    BY <1>4, EnrollmentBounds, HostsAssumption, RequestHost, <1>0 DEF IInv,
        Grounds, TypeOK, RequestsCarryTokens, None, ReplayExpires
  <2>4. AnswersHaveCertificates'
    BY <1>4, EnrollmentBounds, HostsAssumption, RequestHost, <1>0 DEF IInv,
        Grounds, TypeOK, AnswersHaveCertificates, None, ReplayExpires
  <2>5. RequestsArePending'
    BY <1>4, EnrollmentBounds, HostsAssumption, RequestHost, <1>0 DEF IInv,
        Grounds, TypeOK, RequestsArePending, StepsAreBacked, None,
        ReplayExpires
  <2>6. StepsAreBacked' /\ OwnKey'
    BY <1>4, EnrollmentBounds, HostsAssumption, RequestHost, <1>0 DEF IInv,
        Grounds, TypeOK, StepsAreBacked, OwnKey, AnswersHaveCertificates,
        None, ReplayExpires
  <2>7. IssuedIsResumable'
    BY <1>4, EnrollmentBounds, HostsAssumption, RequestHost, <1>0 DEF IInv,
        Grounds, TypeOK, LastIsTrusted, IssuedIsResumable, Resumable,
        Certificates, EnrolledOnce, OwnKey, StepsAreBacked, None,
        ReplayExpires
  <2> QED
    BY <2>1, <2>2, <2>3, <2>4, <2>5, <2>6, <2>7 DEF IInv
<1>5. CASE PanelRestarts
  <2>1. TypeOK'
    BY <1>5, EnrollmentBounds, HostsAssumption, RequestHost, <1>0 DEF IInv,
        Grounds, TypeOK, PanelRestarts, Stages, SessionStates
  <2>2. LastIsTrusted' /\ RowTokenUnspent' /\ TokenIsSpentOnce' /\ EnrolledOnce' /\ RotationHasRoom'
    BY <1>5, EnrollmentBounds, HostsAssumption, RequestHost, <1>0 DEF IInv,
        Grounds, TypeOK, RotationHasRoom, LastIsTrusted, RowTokenUnspent,
        TokenIsSpentOnce, EnrolledOnce, Certificates, None, PanelRestarts,
        Stages, SessionStates
  <2>3. RequestsCarryTokens'
    BY <1>5, EnrollmentBounds, HostsAssumption, RequestHost, <1>0 DEF IInv,
        Grounds, TypeOK, RequestsCarryTokens, None, PanelRestarts, Stages,
        SessionStates
  <2>4. AnswersHaveCertificates'
    BY <1>5, EnrollmentBounds, HostsAssumption, RequestHost, <1>0 DEF IInv,
        Grounds, TypeOK, AnswersHaveCertificates, None, PanelRestarts, Stages,
        SessionStates
  <2>5. RequestsArePending'
    BY <1>5, EnrollmentBounds, HostsAssumption, RequestHost, <1>0 DEF IInv,
        Grounds, TypeOK, RequestsArePending, StepsAreBacked, None,
        PanelRestarts, Stages, SessionStates
  <2>6. StepsAreBacked' /\ OwnKey'
    BY <1>5, EnrollmentBounds, HostsAssumption, RequestHost, <1>0 DEF IInv,
        Grounds, TypeOK, StepsAreBacked, OwnKey, AnswersHaveCertificates,
        None, PanelRestarts, Stages, SessionStates
  <2>7. IssuedIsResumable'
    BY <1>5, EnrollmentBounds, HostsAssumption, RequestHost, <1>0 DEF IInv,
        Grounds, TypeOK, LastIsTrusted, IssuedIsResumable, Resumable,
        Certificates, EnrolledOnce, OwnKey, StepsAreBacked, None,
        PanelRestarts, Stages, SessionStates
  <2> QED
    BY <2>1, <2>2, <2>3, <2>4, <2>5, <2>6, <2>7 DEF IInv
<1> QED
    BY <1>1, <1>2, <1>3, <1>4, <1>5

(* What a host does by itself. *)
LEMMA HostPreserves ==
    ASSUME IInv,
           \/ \E h \in Hosts, t \in Tokens : Start(h, t)
           \/ \E h \in Hosts : Receive(h)
           \/ \E h \in Hosts : Stop(h)
           \/ \E h \in Hosts : Install(h)
           \/ \E h \in Hosts : RemovePending(h)
    PROVE  IInv'
<1> USE DEF row, panel, exchange, host, history
<1>0. Grounds
    BY GroundsHold
<1>1. CASE \E h \in Hosts, t \in Tokens : Start(h, t)
  <2>0. PICK h \in Hosts, t \in Tokens : Start(h, t)
    BY <1>1
  <2> DEFINE q == <<h, runs[h] + 1>>
  <2>f. /\ q \in Requests /\ q[1] = h /\ t \in 1 .. tokens /\ runs[h] + 1 \in 1 .. MaxRuns
        /\ stage' = [stage EXCEPT ![q] = "sent"] /\ asked' = [asked EXCEPT ![q] = t]
    <3>1. runs[h] + 1 \in 1 .. MaxRuns
      <4>1. runs[h] \in 0 .. MaxRuns /\ runs[h] < MaxRuns
        BY <2>0 DEF IInv, TypeOK, Start
      <4> QED
        BY <4>1, EnrollmentBounds
    <3>2. t \in 1 .. tokens
        BY <2>0, <1>0 DEF Grounds, Start, Tokens
    <3> QED
        BY <2>0, <3>1, <3>2, RequestHost DEF Start
  <2> HIDE DEF q
  <2>1. TypeOK'
    <3>1. stage' \in [Requests -> Stages]
        BY <2>f, <1>0 DEF IInv, TypeOK, Stages
    <3>2. asked' \in [Requests -> 0 .. tokens]
        <4>1. t \in 0 .. tokens
            BY <2>f, <1>0 DEF Grounds
        <4>2. asked \in [Requests -> 0 .. tokens]
            BY <1>0 DEF IInv, TypeOK
        <4> QED
            BY <4>1, <4>2, <2>f
    <3>3. runs' \in [Hosts -> 0 .. MaxRuns]
        <4>1. runs \in [Hosts -> 0 .. MaxRuns]
            BY <1>0 DEF IInv, TypeOK
        <4>0. runs[h] + 1 \in 0 .. MaxRuns
            BY <2>f, EnrollmentBounds
        <4>2. runs' = [runs EXCEPT ![h] = runs[h] + 1]
            BY <2>0 DEF Start
        <4> QED
            BY <4>0, <4>1, <4>2
    <3>4. step' \in [Hosts -> Steps] /\ pending' \in [Hosts -> BOOLEAN]
        BY <2>0, <1>0 DEF IInv, TypeOK, Start, Steps
    <3> QED
        BY <2>0, <3>1, <3>2, <3>3, <3>4, <1>0 DEF IInv, TypeOK, Start
  <2>2. /\ LastIsTrusted' /\ RowTokenUnspent' /\ TokenIsSpentOnce' /\ EnrolledOnce'
        /\ RotationHasRoom'
    BY <2>0, <1>0 DEF IInv, LastIsTrusted, RowTokenUnspent, TokenIsSpentOnce, EnrolledOnce,
        RotationHasRoom, Certificates, Start
  <2>3. RequestsCarryTokens'
    BY <2>f, <1>0 DEF IInv, RequestsCarryTokens, TypeOK, None
  <2>4. AnswersHaveCertificates'
    BY <2>0, <2>f, <1>0 DEF IInv, AnswersHaveCertificates, TypeOK, Start
  <2>5. RequestsArePending'
    <3>1. /\ pending \in [Hosts -> BOOLEAN] /\ stage \in [Requests -> Stages]
          /\ RequestsArePending
        BY <1>0 DEF IInv, TypeOK
    <3>2. pending' = [pending EXCEPT ![h] = TRUE] /\ config' = config
        BY <2>0 DEF Start
    <3> QED
        BY <2>f, <3>1, <3>2, RequestHost DEF RequestsArePending
  <2>6. StepsAreBacked' /\ OwnKey'
    <3>1. StepsAreBacked'
        BY <2>0, <2>f, <1>0 DEF IInv, StepsAreBacked, TypeOK, Start
    <3>2. OwnKey'
        BY <2>0, <1>0 DEF IInv, OwnKey, Start
    <3> QED
        BY <3>1, <3>2
  <2>7. IssuedIsResumable'
    BY <2>0, <1>0 DEF IInv, Grounds, TypeOK, IssuedIsResumable, Resumable, Certificates, Start
  <2> QED
    BY <2>1, <2>2, <2>3, <2>4, <2>5, <2>6, <2>7 DEF IInv
<1>2. CASE \E h \in Hosts : Receive(h)
  <2>0. PICK h \in Hosts : Receive(h)
    BY <1>2
  <2>f. /\ Waiting(h) \in Requests /\ answer[Waiting(h)] \in Certificates
        /\ answer[Waiting(h)] # None
    <3>1. runs[h] \in 1 .. MaxRuns => Waiting(h) \in Requests
        BY RequestHost DEF Waiting
    <3> QED
        BY <2>0, <3>1, <1>0 DEF IInv, Grounds, TypeOK, Receive, AnswersHaveCertificates,
            StepsAreBacked, Certificates, None
  <2>1. TypeOK'
    <3>1. stage' \in [Requests -> Stages]
        BY <2>0, <2>f, <1>0 DEF IInv, TypeOK, Receive, Stages
    <3>2. step' \in [Hosts -> Steps]
        BY <2>0, <1>0 DEF IInv, TypeOK, Receive, Steps
    <3>3. received' \in [Hosts -> 0 .. Len(issued)]
        BY ZenonT(40), <2>0, <2>f, <1>0 DEF IInv, Grounds, TypeOK, Receive, Certificates
    <3> QED
        BY <2>0, <3>1, <3>2, <3>3, <1>0 DEF IInv, TypeOK, Receive
  <2>2. LastIsTrusted' /\ RowTokenUnspent' /\ TokenIsSpentOnce' /\ EnrolledOnce' /\ RotationHasRoom'
    BY <2>0, EnrollmentBounds, HostsAssumption, RequestHost, <1>0, <2>f DEF
        IInv, Grounds, TypeOK, RotationHasRoom, LastIsTrusted,
        RowTokenUnspent, TokenIsSpentOnce, EnrolledOnce, Certificates, None,
        Receive, Waiting, Stages, Steps
  <2>3. RequestsCarryTokens'
    BY <2>0, EnrollmentBounds, HostsAssumption, RequestHost, <1>0, <2>f DEF
        IInv, Grounds, TypeOK, RequestsCarryTokens, None, Receive, Waiting,
        Stages, Steps
  <2>4. AnswersHaveCertificates'
    BY <2>0, EnrollmentBounds, HostsAssumption, RequestHost, <1>0, <2>f DEF
        IInv, Grounds, TypeOK, AnswersHaveCertificates, None, Receive,
        Waiting, Stages, Steps
  <2>5. RequestsArePending'
    BY <2>0, EnrollmentBounds, HostsAssumption, RequestHost, <1>0, <2>f DEF
        IInv, Grounds, TypeOK, RequestsArePending, StepsAreBacked, None,
        Receive, Waiting, Stages, Steps
  <2>6. StepsAreBacked' /\ OwnKey'
    <3>1. StepsAreBacked'
        BY <2>0, <2>f, <1>0 DEF IInv, StepsAreBacked, TypeOK, Receive
    <3>2. OwnKey'
        BY <2>0, <2>f, <1>0 DEF IInv, OwnKey, TypeOK, Receive
    <3> QED
        BY <3>1, <3>2
  <2>7. IssuedIsResumable'
    BY <2>0, EnrollmentBounds, HostsAssumption, RequestHost, <1>0, <2>f DEF
        IInv, Grounds, TypeOK, LastIsTrusted, IssuedIsResumable, Resumable,
        Certificates, EnrolledOnce, OwnKey, StepsAreBacked, None, Receive,
        Waiting, Stages, Steps
  <2> QED
    BY <2>1, <2>2, <2>3, <2>4, <2>5, <2>6, <2>7 DEF IInv
<1>3. CASE \E h \in Hosts : Stop(h)
  <2>0. PICK h \in Hosts : Stop(h)
    BY <1>3
  <2>1. TypeOK'
    BY <2>0, EnrollmentBounds, HostsAssumption, RequestHost, <1>0 DEF IInv,
        Grounds, TypeOK, Stop, Steps
  <2>2. LastIsTrusted' /\ RowTokenUnspent' /\ TokenIsSpentOnce' /\ EnrolledOnce' /\ RotationHasRoom'
    BY <2>0, EnrollmentBounds, HostsAssumption, RequestHost, <1>0 DEF IInv,
        Grounds, TypeOK, RotationHasRoom, LastIsTrusted, RowTokenUnspent,
        TokenIsSpentOnce, EnrolledOnce, Certificates, None, Stop, Steps
  <2>3. RequestsCarryTokens'
    BY <2>0, EnrollmentBounds, HostsAssumption, RequestHost, <1>0 DEF IInv,
        Grounds, TypeOK, RequestsCarryTokens, None, Stop, Steps
  <2>4. AnswersHaveCertificates'
    BY <2>0, EnrollmentBounds, HostsAssumption, RequestHost, <1>0 DEF IInv,
        Grounds, TypeOK, AnswersHaveCertificates, None, Stop, Steps
  <2>5. RequestsArePending'
    BY <2>0, EnrollmentBounds, HostsAssumption, RequestHost, <1>0 DEF IInv,
        Grounds, TypeOK, RequestsArePending, StepsAreBacked, None, Stop, Steps
  <2>6. StepsAreBacked' /\ OwnKey'
    BY <2>0, EnrollmentBounds, HostsAssumption, RequestHost, <1>0 DEF IInv,
        Grounds, TypeOK, StepsAreBacked, OwnKey, AnswersHaveCertificates,
        None, Stop, Steps
  <2>7. IssuedIsResumable'
    BY <2>0, EnrollmentBounds, HostsAssumption, RequestHost, <1>0 DEF IInv,
        Grounds, TypeOK, LastIsTrusted, IssuedIsResumable, Resumable,
        Certificates, EnrolledOnce, OwnKey, StepsAreBacked, None, Stop, Steps
  <2> QED
    BY <2>1, <2>2, <2>3, <2>4, <2>5, <2>6, <2>7 DEF IInv
<1>4. CASE \E h \in Hosts : Install(h)
  <2>0. PICK h \in Hosts : Install(h)
    BY <1>4
  <2>1. TypeOK'
    BY <2>0, EnrollmentBounds, HostsAssumption, RequestHost, <1>0 DEF IInv,
        Grounds, TypeOK, Install, Steps
  <2>2. LastIsTrusted' /\ RowTokenUnspent' /\ TokenIsSpentOnce' /\ EnrolledOnce' /\ RotationHasRoom'
    BY <2>0, EnrollmentBounds, HostsAssumption, RequestHost, <1>0 DEF IInv,
        Grounds, TypeOK, RotationHasRoom, LastIsTrusted, RowTokenUnspent,
        TokenIsSpentOnce, EnrolledOnce, Certificates, None, Install, Steps
  <2>3. RequestsCarryTokens'
    BY <2>0, EnrollmentBounds, HostsAssumption, RequestHost, <1>0 DEF IInv,
        Grounds, TypeOK, RequestsCarryTokens, None, Install, Steps
  <2>4. AnswersHaveCertificates'
    BY <2>0, EnrollmentBounds, HostsAssumption, RequestHost, <1>0 DEF IInv,
        Grounds, TypeOK, AnswersHaveCertificates, None, Install, Steps
  <2>5. RequestsArePending'
    BY <2>0, EnrollmentBounds, HostsAssumption, RequestHost, <1>0 DEF IInv,
        Grounds, TypeOK, RequestsArePending, StepsAreBacked, None, Install,
        Steps
  <2>6. StepsAreBacked' /\ OwnKey'
    BY <2>0, EnrollmentBounds, HostsAssumption, RequestHost, <1>0 DEF IInv,
        Grounds, TypeOK, StepsAreBacked, OwnKey, AnswersHaveCertificates,
        None, Install, Steps
  <2>7. IssuedIsResumable'
    BY <2>0, <1>0
    DEF IInv, Grounds, TypeOK, IssuedIsResumable, Resumable, Certificates, Install, StepsAreBacked
  <2> QED
    BY <2>1, <2>2, <2>3, <2>4, <2>5, <2>6, <2>7 DEF IInv
<1>5. CASE \E h \in Hosts : RemovePending(h)
  <2>0. PICK h \in Hosts : RemovePending(h)
    BY <1>5
  <2>1. TypeOK'
    BY <2>0, EnrollmentBounds, HostsAssumption, RequestHost, <1>0 DEF IInv,
        Grounds, TypeOK, RemovePending, Steps
  <2>2. LastIsTrusted' /\ RowTokenUnspent' /\ TokenIsSpentOnce' /\ EnrolledOnce' /\ RotationHasRoom'
    BY <2>0, EnrollmentBounds, HostsAssumption, RequestHost, <1>0 DEF IInv,
        Grounds, TypeOK, RotationHasRoom, LastIsTrusted, RowTokenUnspent,
        TokenIsSpentOnce, EnrolledOnce, Certificates, None, RemovePending,
        Steps
  <2>3. RequestsCarryTokens'
    BY <2>0, EnrollmentBounds, HostsAssumption, RequestHost, <1>0 DEF IInv,
        Grounds, TypeOK, RequestsCarryTokens, None, RemovePending, Steps
  <2>4. AnswersHaveCertificates'
    BY <2>0, EnrollmentBounds, HostsAssumption, RequestHost, <1>0 DEF IInv,
        Grounds, TypeOK, AnswersHaveCertificates, None, RemovePending, Steps
  <2>5. RequestsArePending'
    BY <2>0, EnrollmentBounds, HostsAssumption, RequestHost, <1>0 DEF IInv,
        Grounds, TypeOK, RequestsArePending, StepsAreBacked, None,
        RemovePending, Steps
  <2>6. StepsAreBacked' /\ OwnKey'
    <3>1. StepsAreBacked'
        BY <2>0, <1>0 DEF IInv, StepsAreBacked, TypeOK, RemovePending
    <3>2. OwnKey'
        BY <2>0, <1>0 DEF IInv, OwnKey, TypeOK, RemovePending
    <3> QED
        BY <3>1, <3>2
  <2>7. IssuedIsResumable'
    BY <2>0, <1>0
    DEF IInv, Grounds, TypeOK, IssuedIsResumable, Resumable, Certificates, RemovePending,
        StepsAreBacked
  <2> QED
    BY <2>1, <2>2, <2>3, <2>4, <2>5, <2>6, <2>7 DEF IInv
<1> QED
    BY <1>1, <1>2, <1>3, <1>4, <1>5

(* Control sessions. *)
LEMMA SessionPreserves ==
    ASSUME IInv,
           \/ \E h \in Hosts : Connect(h)
           \/ \E h \in Hosts : Hello(h)
           \/ \E h \in Hosts : Disconnect(h)
    PROVE  IInv'
<1> USE DEF row, panel, exchange, host, history
<1>0. Grounds
    BY GroundsHold
<1>1. CASE \E h \in Hosts : Connect(h)
  <2>0. PICK h \in Hosts : Connect(h)
    BY <1>1
  <2>1. TypeOK'
    BY <2>0, EnrollmentBounds, HostsAssumption, RequestHost, <1>0 DEF IInv,
        Grounds, TypeOK, Connect, SessionStates
  <2>2. LastIsTrusted' /\ RowTokenUnspent' /\ TokenIsSpentOnce' /\ EnrolledOnce' /\ RotationHasRoom'
    BY <2>0, EnrollmentBounds, HostsAssumption, RequestHost, <1>0 DEF IInv,
        Grounds, TypeOK, RotationHasRoom, LastIsTrusted, RowTokenUnspent,
        TokenIsSpentOnce, EnrolledOnce, Certificates, None, Connect,
        SessionStates
  <2>3. RequestsCarryTokens'
    BY <2>0, EnrollmentBounds, HostsAssumption, RequestHost, <1>0 DEF IInv,
        Grounds, TypeOK, RequestsCarryTokens, None, Connect, SessionStates
  <2>4. AnswersHaveCertificates'
    BY <2>0, EnrollmentBounds, HostsAssumption, RequestHost, <1>0 DEF IInv,
        Grounds, TypeOK, AnswersHaveCertificates, None, Connect, SessionStates
  <2>5. RequestsArePending'
    BY <2>0, EnrollmentBounds, HostsAssumption, RequestHost, <1>0 DEF IInv,
        Grounds, TypeOK, RequestsArePending, StepsAreBacked, None, Connect,
        SessionStates
  <2>6. StepsAreBacked' /\ OwnKey'
    BY <2>0, EnrollmentBounds, HostsAssumption, RequestHost, <1>0 DEF IInv,
        Grounds, TypeOK, StepsAreBacked, OwnKey, AnswersHaveCertificates,
        None, Connect, SessionStates
  <2>7. IssuedIsResumable'
    BY <2>0, EnrollmentBounds, HostsAssumption, RequestHost, <1>0 DEF IInv,
        Grounds, TypeOK, LastIsTrusted, IssuedIsResumable, Resumable,
        Certificates, EnrolledOnce, OwnKey, StepsAreBacked, None, Connect,
        SessionStates
  <2> QED
    BY <2>1, <2>2, <2>3, <2>4, <2>5, <2>6, <2>7 DEF IInv
<1>2. CASE \E h \in Hosts : Hello(h)
  <2>0. PICK h \in Hosts : Hello(h)
    BY <1>2
  <2>1. TypeOK'
    BY <2>0, EnrollmentBounds, HostsAssumption, RequestHost, <1>0 DEF IInv,
        Grounds, TypeOK, Hello, NoReplay, SessionStates
  <2>2. LastIsTrusted' /\ RowTokenUnspent' /\ TokenIsSpentOnce' /\ EnrolledOnce' /\ RotationHasRoom'
    BY <2>0, EnrollmentBounds, HostsAssumption, RequestHost, <1>0 DEF IInv,
        Grounds, TypeOK, RotationHasRoom, LastIsTrusted, RowTokenUnspent,
        TokenIsSpentOnce, EnrolledOnce, Certificates, None, Hello, NoReplay,
        SessionStates
  <2>3. RequestsCarryTokens'
    BY <2>0, EnrollmentBounds, HostsAssumption, RequestHost, <1>0 DEF IInv,
        Grounds, TypeOK, RequestsCarryTokens, None, Hello, NoReplay,
        SessionStates
  <2>4. AnswersHaveCertificates'
    BY <2>0, EnrollmentBounds, HostsAssumption, RequestHost, <1>0 DEF IInv,
        Grounds, TypeOK, AnswersHaveCertificates, None, Hello, NoReplay,
        SessionStates
  <2>5. RequestsArePending'
    BY <2>0, EnrollmentBounds, HostsAssumption, RequestHost, <1>0 DEF IInv,
        Grounds, TypeOK, RequestsArePending, StepsAreBacked, None, Hello,
        NoReplay, SessionStates
  <2>6. StepsAreBacked' /\ OwnKey'
    BY <2>0, EnrollmentBounds, HostsAssumption, RequestHost, <1>0 DEF IInv,
        Grounds, TypeOK, StepsAreBacked, OwnKey, AnswersHaveCertificates,
        None, Hello, NoReplay, SessionStates
  <2>7. IssuedIsResumable'
    BY <2>0, EnrollmentBounds, HostsAssumption, RequestHost, <1>0 DEF IInv,
        Grounds, TypeOK, LastIsTrusted, IssuedIsResumable, Resumable,
        Certificates, EnrolledOnce, OwnKey, StepsAreBacked, None, Hello,
        NoReplay, SessionStates
  <2> QED
    BY <2>1, <2>2, <2>3, <2>4, <2>5, <2>6, <2>7 DEF IInv
<1>3. CASE \E h \in Hosts : Disconnect(h)
  <2>0. PICK h \in Hosts : Disconnect(h)
    BY <1>3
  <2>1. TypeOK'
    BY <2>0, EnrollmentBounds, HostsAssumption, RequestHost, <1>0 DEF IInv,
        Grounds, TypeOK, Disconnect, SessionStates
  <2>2. LastIsTrusted' /\ RowTokenUnspent' /\ TokenIsSpentOnce' /\ EnrolledOnce' /\ RotationHasRoom'
    BY <2>0, EnrollmentBounds, HostsAssumption, RequestHost, <1>0 DEF IInv,
        Grounds, TypeOK, RotationHasRoom, LastIsTrusted, RowTokenUnspent,
        TokenIsSpentOnce, EnrolledOnce, Certificates, None, Disconnect,
        SessionStates
  <2>3. RequestsCarryTokens'
    BY <2>0, EnrollmentBounds, HostsAssumption, RequestHost, <1>0 DEF IInv,
        Grounds, TypeOK, RequestsCarryTokens, None, Disconnect, SessionStates
  <2>4. AnswersHaveCertificates'
    BY <2>0, EnrollmentBounds, HostsAssumption, RequestHost, <1>0 DEF IInv,
        Grounds, TypeOK, AnswersHaveCertificates, None, Disconnect,
        SessionStates
  <2>5. RequestsArePending'
    BY <2>0, EnrollmentBounds, HostsAssumption, RequestHost, <1>0 DEF IInv,
        Grounds, TypeOK, RequestsArePending, StepsAreBacked, None, Disconnect,
        SessionStates
  <2>6. StepsAreBacked' /\ OwnKey'
    BY <2>0, EnrollmentBounds, HostsAssumption, RequestHost, <1>0 DEF IInv,
        Grounds, TypeOK, StepsAreBacked, OwnKey, AnswersHaveCertificates,
        None, Disconnect, SessionStates
  <2>7. IssuedIsResumable'
    BY <2>0, EnrollmentBounds, HostsAssumption, RequestHost, <1>0 DEF IInv,
        Grounds, TypeOK, LastIsTrusted, IssuedIsResumable, Resumable,
        Certificates, EnrolledOnce, OwnKey, StepsAreBacked, None, Disconnect,
        SessionStates
  <2> QED
    BY <2>1, <2>2, <2>3, <2>4, <2>5, <2>6, <2>7 DEF IInv
<1> QED
    BY <1>1, <1>2, <1>3

(* A request on its way, read, read again or lost. *)
LEMMA RequestPreserves ==
    ASSUME IInv,
           \/ \E r \in Requests : EnrollReads(r)
           \/ \E r \in Requests : EnrollRereads(r)
           \/ \E r \in Requests : ExchangeLost(r)
    PROVE  IInv'
<1> USE DEF row, panel, exchange, host, history
<1>0. Grounds
    BY GroundsHold
<1>1. CASE \E r \in Requests : EnrollReads(r)
  <2>0. PICK r \in Requests : EnrollReads(r)
    BY <1>1
  <2>1. TypeOK'
    <3>1. stage' \in [Requests -> Stages]
        BY <2>0, <1>0 DEF IInv, TypeOK, EnrollReads, Respond, Refuse, Stages
    <3>2. answer' \in [Requests -> 0 .. Len(issued)]
        BY <2>0, <1>0 DEF IInv, TypeOK, EnrollReads, Respond, Refuse
    <3> QED
        BY <2>0, <3>1, <3>2, <1>0 DEF IInv, TypeOK, EnrollReads
  <2>2. LastIsTrusted' /\ RowTokenUnspent' /\ TokenIsSpentOnce' /\ EnrolledOnce' /\ RotationHasRoom'
    BY <2>0, EnrollmentBounds, HostsAssumption, RequestHost, <1>0 DEF IInv,
        Grounds, TypeOK, RotationHasRoom, LastIsTrusted, RowTokenUnspent,
        TokenIsSpentOnce, EnrolledOnce, Certificates, None, EnrollReads,
        Replays, Redeemable, Respond, Refuse, Stages
  <2>3. RequestsCarryTokens'
    BY <2>0, EnrollmentBounds, HostsAssumption, RequestHost, <1>0 DEF IInv,
        Grounds, TypeOK, RequestsCarryTokens, None, EnrollReads, Replays,
        Redeemable, Respond, Refuse, Stages
  <2>4. AnswersHaveCertificates'
    <3>1. CASE Replays(r) /\ Respond(r, response)
        <4>1. response # None
            BY <3>1, RequestHost, HostsAssumption, <1>0
            DEF IInv, AnswersHaveCertificates, Replays
        <4> QED
            BY <2>0, <3>1, <4>1, <1>0
            DEF IInv, TypeOK, AnswersHaveCertificates, EnrollReads, Respond, Replays
    <3>2. CASE ~Replays(r)
        BY <2>0, <3>2, <1>0
        DEF IInv, TypeOK, AnswersHaveCertificates, EnrollReads, Refuse, Respond
    <3> QED
        BY <2>0, <3>1, <3>2 DEF EnrollReads
  <2>5. RequestsArePending'
    BY <2>0, EnrollmentBounds, HostsAssumption, RequestHost, <1>0 DEF IInv,
        Grounds, TypeOK, RequestsArePending, StepsAreBacked, None,
        EnrollReads, Replays, Redeemable, Respond, Refuse, Stages
  <2>6. StepsAreBacked' /\ OwnKey'
    BY <2>0, EnrollmentBounds, HostsAssumption, RequestHost, <1>0 DEF IInv,
        Grounds, TypeOK, StepsAreBacked, OwnKey, AnswersHaveCertificates,
        None, EnrollReads, Replays, Redeemable, Respond, Refuse, Stages
  <2>7. IssuedIsResumable'
    BY <2>0, EnrollmentBounds, HostsAssumption, RequestHost, <1>0 DEF IInv,
        Grounds, TypeOK, LastIsTrusted, IssuedIsResumable, Resumable,
        Certificates, EnrolledOnce, OwnKey, StepsAreBacked, None, EnrollReads,
        Replays, Redeemable, Respond, Refuse, Stages
  <2> QED
    BY <2>1, <2>2, <2>3, <2>4, <2>5, <2>6, <2>7 DEF IInv
<1>2. CASE \E r \in Requests : EnrollRereads(r)
  <2>0. PICK r \in Requests : EnrollRereads(r)
    BY <1>2
  <2>1. TypeOK'
    <3>1. stage' \in [Requests -> Stages]
        BY <2>0, <1>0 DEF IInv, TypeOK, EnrollRereads, Respond, Refuse, Stages
    <3>2. answer' \in [Requests -> 0 .. Len(issued)]
        BY <2>0, <1>0 DEF IInv, TypeOK, EnrollRereads, Respond, Refuse
    <3> QED
        BY <2>0, <3>1, <3>2, <1>0 DEF IInv, TypeOK, EnrollRereads
  <2>2. LastIsTrusted' /\ RowTokenUnspent' /\ TokenIsSpentOnce' /\ EnrolledOnce' /\ RotationHasRoom'
    BY <2>0, EnrollmentBounds, HostsAssumption, RequestHost, <1>0 DEF IInv,
        Grounds, TypeOK, RotationHasRoom, LastIsTrusted, RowTokenUnspent,
        TokenIsSpentOnce, EnrolledOnce, Certificates, None, EnrollRereads,
        Replays, Respond, Refuse, Stages
  <2>3. RequestsCarryTokens'
    BY <2>0, EnrollmentBounds, HostsAssumption, RequestHost, <1>0 DEF IInv,
        Grounds, TypeOK, RequestsCarryTokens, None, EnrollRereads, Replays,
        Respond, Refuse, Stages
  <2>4. AnswersHaveCertificates'
    <3>1. CASE Replays(r) /\ Respond(r, response)
        <4>1. response # None
            BY <3>1, RequestHost, HostsAssumption, <1>0
            DEF IInv, AnswersHaveCertificates, Replays
        <4> QED
            BY <2>0, <3>1, <4>1, <1>0
            DEF IInv, TypeOK, AnswersHaveCertificates, EnrollRereads, Respond, Replays
    <3>2. CASE ~Replays(r)
        BY <2>0, <3>2, <1>0
        DEF IInv, TypeOK, AnswersHaveCertificates, EnrollRereads, Refuse, Respond
    <3> QED
        BY <2>0, <3>1, <3>2 DEF EnrollRereads
  <2>5. RequestsArePending'
    BY <2>0, EnrollmentBounds, HostsAssumption, RequestHost, <1>0 DEF IInv,
        Grounds, TypeOK, RequestsArePending, StepsAreBacked, None,
        EnrollRereads, Replays, Respond, Refuse, Stages
  <2>6. StepsAreBacked' /\ OwnKey'
    BY <2>0, EnrollmentBounds, HostsAssumption, RequestHost, <1>0 DEF IInv,
        Grounds, TypeOK, StepsAreBacked, OwnKey, AnswersHaveCertificates,
        None, EnrollRereads, Replays, Respond, Refuse, Stages
  <2>7. IssuedIsResumable'
    BY <2>0, EnrollmentBounds, HostsAssumption, RequestHost, <1>0 DEF IInv,
        Grounds, TypeOK, LastIsTrusted, IssuedIsResumable, Resumable,
        Certificates, EnrolledOnce, OwnKey, StepsAreBacked, None,
        EnrollRereads, Replays, Respond, Refuse, Stages
  <2> QED
    BY <2>1, <2>2, <2>3, <2>4, <2>5, <2>6, <2>7 DEF IInv
<1>3. CASE \E r \in Requests : ExchangeLost(r)
  <2>0. PICK r \in Requests : ExchangeLost(r)
    BY <1>3
  <2>1. TypeOK'
    BY <2>0, EnrollmentBounds, HostsAssumption, RequestHost, <1>0 DEF IInv,
        Grounds, TypeOK, ExchangeLost, Stages
  <2>2. LastIsTrusted' /\ RowTokenUnspent' /\ TokenIsSpentOnce' /\ EnrolledOnce' /\ RotationHasRoom'
    BY <2>0, EnrollmentBounds, HostsAssumption, RequestHost, <1>0 DEF IInv,
        Grounds, TypeOK, RotationHasRoom, LastIsTrusted, RowTokenUnspent,
        TokenIsSpentOnce, EnrolledOnce, Certificates, None, ExchangeLost,
        Stages
  <2>3. RequestsCarryTokens'
    BY <2>0, EnrollmentBounds, HostsAssumption, RequestHost, <1>0 DEF IInv,
        Grounds, TypeOK, RequestsCarryTokens, None, ExchangeLost, Stages
  <2>4. AnswersHaveCertificates'
    BY <2>0, EnrollmentBounds, HostsAssumption, RequestHost, <1>0 DEF IInv,
        Grounds, TypeOK, AnswersHaveCertificates, None, ExchangeLost, Stages
  <2>5. RequestsArePending'
    BY <2>0, EnrollmentBounds, HostsAssumption, RequestHost, <1>0 DEF IInv,
        Grounds, TypeOK, RequestsArePending, StepsAreBacked, None,
        ExchangeLost, Stages
  <2>6. StepsAreBacked' /\ OwnKey'
    BY <2>0, EnrollmentBounds, HostsAssumption, RequestHost, <1>0 DEF IInv,
        Grounds, TypeOK, StepsAreBacked, OwnKey, AnswersHaveCertificates,
        None, ExchangeLost, Stages
  <2>7. IssuedIsResumable'
    BY <2>0, EnrollmentBounds, HostsAssumption, RequestHost, <1>0 DEF IInv,
        Grounds, TypeOK, LastIsTrusted, IssuedIsResumable, Resumable,
        Certificates, EnrolledOnce, OwnKey, StepsAreBacked, None,
        ExchangeLost, Stages
  <2> QED
    BY <2>1, <2>2, <2>3, <2>4, <2>5, <2>6, <2>7 DEF IInv
<1> QED
    BY <1>1, <1>2, <1>3

(* The exchange: the only step that issues a certificate. *)
LEMMA ConsumePreserves ==
    ASSUME IInv, NEW r \in Requests, EnrollConsumes(r)
    PROVE  IInv'
<1> USE DEF row, panel, exchange, host, history
<1>0. Grounds /\ r[1] \in Hosts
    BY GroundsHold, RequestHost
<1> USE DEF Unspent, Beaten
<1>1. CASE tokenHash # asked[r]
  <2>1. TypeOK'
    BY <1>1, <1>0 DEF IInv, TypeOK, EnrollConsumes, Stages
  <2>2. /\ LastIsTrusted' /\ RowTokenUnspent' /\ TokenIsSpentOnce' /\ EnrolledOnce'
        /\ RotationHasRoom' /\ StepsAreBacked' /\ OwnKey' /\ IssuedIsResumable'
    BY <1>1 DEF IInv, EnrollConsumes, LastIsTrusted, RowTokenUnspent, TokenIsSpentOnce,
        EnrolledOnce, RotationHasRoom, StepsAreBacked, OwnKey, IssuedIsResumable,
        Resumable, Certificates
  <2>3. RequestsCarryTokens' /\ AnswersHaveCertificates' /\ RequestsArePending'
    BY <1>1, <1>0 DEF IInv, TypeOK, EnrollConsumes, RequestsCarryTokens,
        AnswersHaveCertificates, RequestsArePending
  <2> QED
    BY <2>1, <2>2, <2>3 DEF IInv
<1>2. CASE tokenHash = asked[r]
  <2> DEFINE n == Len(issued) + 1
             new == [token |-> asked[r], host |-> r[1]]
  <2>0. /\ issued' = Append(issued, new) /\ status' = "ENROLLING" /\ tokenHash' = None
        /\ replayToken' = asked[r] /\ replayHost' = r[1] /\ inTime' = TRUE
        /\ response' = n /\ fingerprint' = n
        /\ stage[r] = "checked" /\ stage' = [stage EXCEPT ![r] = "answered"]
        /\ answer' = [answer EXCEPT ![r] = n]
        /\ UNCHANGED <<tokenFresh, tokens, rotation, asked, session, runs, step, received,
                       pending, config, overtaken>>
    BY <1>2 DEF EnrollConsumes, Consume, Respond
  <2>1. asked[r] \in 1 .. tokens /\ asked[r] # None /\ tokenHash # None
    BY <2>0, <1>0, <1>2 DEF IInv, TypeOK, RequestsCarryTokens, Grounds, None
  <2>2. /\ issued' \in Seq([token : Tokens, host : Hosts])
        /\ Len(issued') = n /\ n \in Nat /\ n # 0 /\ Len(issued) \in Nat
        /\ \A c \in Certificates : issued'[c] = issued[c]
        /\ issued'[n] = new
    <3>1. asked[r] \in Tokens /\ TypeOK
        BY <2>1, <1>0, EnrollmentBounds DEF Grounds, Tokens, IInv
    <3>2. issued' = Append(issued, [token |-> asked[r], host |-> r[1]])
        BY <2>0
    <3>3. /\ issued' \in Seq([token : Tokens, host : Hosts])
          /\ Len(issued) \in Nat /\ Len(issued') = Len(issued) + 1
          /\ \A c \in Certificates : issued'[c] = issued[c]
          /\ issued'[Len(issued) + 1] = [token |-> asked[r], host |-> r[1]]
        BY <3>1, <3>2, Issue
    <3> QED
        BY <3>3
  <2>3. Certificates' = Certificates \cup {n} /\ n \notin Certificates
    BY <2>2 DEF Certificates
  <2> HIDE DEF n
  <2>4. TypeOK'
    <3>1. stage' \in [Requests -> Stages]
        BY <2>0 DEF IInv, TypeOK, Stages
    <3>2. \A c \in 0 .. Len(issued) : c \in 0 .. n
        BY <2>2 DEF n
    <3>3. n \in 0 .. n
        BY <2>2
    <3>4. answer' \in [Requests -> 0 .. n]
        BY <2>0, <3>2, <3>3 DEF IInv, TypeOK
    <3>5. received' \in [Hosts -> 0 .. n] /\ config' \in [Hosts -> 0 .. n]
        BY <2>0, <3>2 DEF IInv, TypeOK
    <3>6. tokenHash' \in 0 .. tokens /\ replayToken' \in 0 .. tokens
        BY <2>0, <2>1, <1>0 DEF Grounds
    <3> QED
        BY <2>0, <2>2, <3>1, <3>3, <3>4, <3>5, <3>6, <1>0 DEF IInv, TypeOK
  <2>5. LastIsTrusted'
    BY <2>0, <2>2 DEF LastIsTrusted
  <2>6. RowTokenUnspent' /\ TokenIsSpentOnce'
    <3>1. \A c \in Certificates : issued[c].token <= tokens /\ issued[c].token # asked[r]
        BY <1>2 DEF IInv, RowTokenUnspent
    <3>2. new.token = asked[r] /\ asked[r] <= tokens
        BY <2>1
    <3>3. \A c \in Certificates : issued[c].token # None
        BY <1>0 DEF Grounds, Tokens, None
    <3>4. RowTokenUnspent'
        BY <2>0, <2>1, <2>2, <2>3, <3>1, <3>2, <3>3 DEF RowTokenUnspent
    <3>5. TokenIsSpentOnce'
        BY <2>2, <2>3, <3>1, <3>2 DEF IInv, TokenIsSpentOnce
    <3> QED
        BY <3>4, <3>5
  <2>7. RotationHasRoom' /\ RequestsCarryTokens' /\ StepsAreBacked'
    BY <2>0, <1>0 DEF IInv, TypeOK, RotationHasRoom, RequestsCarryTokens, StepsAreBacked
  <2>8. EnrolledOnce' /\ (~overtaken => Len(issued) = 0)
    <3>1. ~overtaken => Len(issued) <= 1 /\ Len(issued) # 1
        BY <2>1 DEF IInv, EnrolledOnce
    <3>2. ~overtaken => Len(issued) = 0
      <4>0. Len(issued) \in Nat
        BY <1>0 DEF Grounds
      <4>1. \A k \in Nat : k <= 1 /\ k # 1 => k = 0
        OBVIOUS
      <4> QED
        BY <3>1, <4>0, <4>1
    <3>3. overtaken' = overtaken /\ tokenHash' = None
        BY <2>0
    <3>4. ~overtaken => Len(issued') <= 1
        BY <2>2, <3>2 DEF n
    <3> QED
        BY <3>2, <3>3, <3>4 DEF EnrolledOnce
  <2>9. AnswersHaveCertificates'
    BY <2>0, <2>2 DEF IInv, TypeOK, AnswersHaveCertificates, None
  <2>10. RequestsArePending'
    BY <2>0, <1>0 DEF IInv, TypeOK, RequestsArePending
  <2>11. OwnKey'
    <3>1. \A h \in Hosts : /\ received[h] # None => received[h] \in Certificates
                           /\ config[h] # None => config[h] \in Certificates
      <4>1. \A i \in 0 .. Len(issued) : i # 0 => i \in 1 .. Len(issued)
        BY <2>2
      <4>2. \A h \in Hosts : received[h] \in 0 .. Len(issued) /\ config[h] \in 0 .. Len(issued)
        BY DEF IInv, TypeOK
      <4> QED
        BY <4>1, <4>2 DEF Certificates, None
    <3> QED
        BY <2>0, <2>2, <3>1 DEF IInv, OwnKey
  <2>12. IssuedIsResumable'
    <3>1. ~overtaken => Certificates' = {n}
        BY <2>3, <2>8, <2>2 DEF Certificates
    <3>2. config[r[1]] = None => pending[r[1]]
        BY <2>0 DEF IInv, RequestsArePending
    <3>3. issued'[n].host = r[1] /\ issued'[n].token = asked[r]
        BY <2>2
    <3>4. /\ config' = config /\ pending' = pending /\ overtaken' = overtaken
          /\ replayHost' = r[1] /\ replayToken' = asked[r] /\ response' = n
        BY <2>0
    <3>5. ASSUME NEW c \in Certificates', ~overtaken'
          PROVE  Resumable(c)'
        <4>1. c = n
            BY <3>1, <3>4, <3>5
        <4>2. issued'[c].host = r[1] /\ issued'[c].token = asked[r] /\ response' = c
            BY <3>3, <3>4, <4>1
        <4> QED
            BY <3>2, <3>4, <4>2 DEF Resumable
    <3> QED
        BY <3>5 DEF IssuedIsResumable
  <2> QED
    BY <2>4, <2>5, <2>6, <2>7, <2>8, <2>9, <2>10, <2>11, <2>12 DEF IInv
<1> QED
    BY <1>1, <1>2

LEMMA StutterPreserves == IInv /\ UNCHANGED vars => IInv'
<1> SUFFICES ASSUME IInv, UNCHANGED vars PROVE IInv'
    OBVIOUS
<1> USE DEF vars, row, panel, exchange, host, history
<1>1. TypeOK'
    BY DEF IInv, TypeOK
<1>2. /\ LastIsTrusted' /\ RowTokenUnspent' /\ TokenIsSpentOnce' /\ EnrolledOnce'
      /\ RotationHasRoom' /\ StepsAreBacked' /\ OwnKey' /\ IssuedIsResumable'
    BY DEF IInv, LastIsTrusted, RowTokenUnspent, TokenIsSpentOnce, EnrolledOnce,
        RotationHasRoom, StepsAreBacked, OwnKey, IssuedIsResumable, Resumable, Certificates
<1>3. RequestsCarryTokens' /\ AnswersHaveCertificates' /\ RequestsArePending'
    BY DEF IInv, RequestsCarryTokens, AnswersHaveCertificates, RequestsArePending
<1> QED
    BY <1>1, <1>2, <1>3 DEF IInv

LEMMA Inductive == IInv /\ [Next]_vars => IInv'
<1> SUFFICES ASSUME IInv, [Next]_vars PROVE IInv'
    OBVIOUS
<1>1. CASE RotateReads \/ RotateWrites \/ TokenExpires \/ ReplayExpires \/ PanelRestarts
    BY <1>1, RowPreserves
<1>2. CASE \E h \in Hosts : \/ \E t \in Tokens : Start(h, t)
                            \/ Receive(h) \/ Stop(h) \/ Install(h) \/ RemovePending(h)
    BY <1>2, HostPreserves
<1>3. CASE \E h \in Hosts : Connect(h) \/ Hello(h) \/ Disconnect(h)
    BY <1>3, SessionPreserves
<1>4. CASE \E r \in Requests : EnrollReads(r) \/ EnrollRereads(r) \/ ExchangeLost(r)
    BY <1>4, RequestPreserves
<1>5. CASE \E r \in Requests : EnrollConsumes(r)
    BY <1>5, ConsumePreserves
<1>6. CASE UNCHANGED vars
    BY <1>6, StutterPreserves
<1> QED
    BY <1>1, <1>2, <1>3, <1>4, <1>5, <1>6 DEF Next

(* Any number of hosts, tokens and runs: the invariant of the proofs. *)
THEOREM Invariant == Spec => []IInv
BY InitIInv, Inductive, PTL DEF Spec

(* A one-time token buys one certificate (consumeEnrollmentToken). *)
THEOREM TokensAreOneTime == Spec => []TokenIsSpentOnce
<1>1. IInv => TokenIsSpentOnce
    BY DEF IInv
<1> QED
    BY <1>1, Invariant, PTL

(* Unless a rotation overtook the exchange, a host that is enrolled is     *)
(* trusted (install against the row of the Machine).                       *)
THEOREM EnrolledHostsAreTrusted == Spec => []InstalledIsTrusted
<1>1. IInv => InstalledIsTrusted
  <2> SUFFICES ASSUME IInv, ~overtaken, NEW h \in Hosts
               PROVE  {config[h], received[h]} \subseteq {None, fingerprint}
    BY DEF InstalledIsTrusted
  <2>1. Len(issued) \in 0 .. 1 /\ fingerprint = Len(issued)
    BY GroundsHold DEF Grounds, IInv, EnrolledOnce, LastIsTrusted
  <2>2. config[h] \in 0 .. Len(issued) /\ received[h] \in 0 .. Len(issued)
    BY DEF IInv, TypeOK
  <2> QED
    BY <2>1, <2>2 DEF None
<1> QED
    BY <1>1, Invariant, PTL

(* Unless a rotation overtook it, an exchange can be resumed for its       *)
(* thirty minutes, wherever the host or the panel stopped.                 *)
THEOREM ExchangesAreResumable == Spec => []IssuedIsResumable
<1>1. IInv => IssuedIsResumable
    BY DEF IInv
<1> QED
    BY <1>1, Invariant, PTL

(* The action property: a request for an exchange that was made is not     *)
(* refused in its time (enroll's two lookups).                             *)
THEOREM LostResponsesAreReplayed == Spec => LostResponseIsReplayed
<1>1. ASSUME IInv, [Next]_vars, NEW r \in Requests,
             Refused(r), inTime, ~overtaken, config[r[1]] = None,
             NEW c \in Certificates, issued[c] = [token |-> asked[r], host |-> r[1]]
      PROVE  FALSE
  <2>1. Replays(r)
    BY <1>1 DEF IInv, IssuedIsResumable, Resumable, Replays
  <2>2. /\ stage \in [Requests -> Stages]
        /\ stage[r] # "refused" /\ stage'[r] = "refused"
    BY <1>1 DEF IInv, TypeOK, Refused
  <2>3. CASE \E q \in Requests : EnrollReads(q)
    BY <2>1, <2>2, <2>3 DEF EnrollReads, Respond, Refuse
  <2>4. CASE \E q \in Requests : EnrollRereads(q)
    BY <2>1, <2>2, <2>4 DEF EnrollRereads, Respond, Refuse
  <2>5. CASE \E q \in Requests : EnrollConsumes(q) \/ ExchangeLost(q)
    BY <2>2, <2>5 DEF EnrollConsumes, ExchangeLost, Respond, Beaten
  <2>6. CASE PanelRestarts
    BY <2>2, <2>6 DEF PanelRestarts
  <2>7. CASE \E h \in Hosts : \/ \E t \in Tokens : Start(h, t)
                              \/ Receive(h)
    BY <2>2, <2>7 DEF Start, Receive
  <2>8. CASE stage' = stage
    BY <2>2, <2>8
  <2> QED
    BY <1>1, <2>3, <2>4, <2>5, <2>6, <2>7, <2>8
    DEF Next, RotateReads, RotateWrites, TokenExpires, ReplayExpires, Stop, Install,
        RemovePending, Connect, Hello, Disconnect, vars, exchange
<1>2. IInv /\ [Next]_vars
        => [\A r \in Requests :
              Refused(r) /\ inTime /\ ~overtaken /\ config[r[1]] = None
                => \A c \in Certificates :
                      issued[c] # [token |-> asked[r], host |-> r[1]]]_vars
    BY <1>1
<1> QED
    BY <1>2, Invariant, PTL DEF Spec, LostResponseIsReplayed
=============================================================================
