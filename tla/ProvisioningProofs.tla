------------------------- MODULE ProvisioningProofs -------------------------
(***************************************************************************)
(* The proofs about Provisioning, for any endpoints and bounds.            *)
(*                                                                         *)
(* Endpoints share one name, so the proofs count.  Every accept of the user*)
(* is at one place at a time: on the line, in the connection to an         *)
(* endpoint, or stored.  Every question is at one place at a time, and the *)
(* device that will read its answer has an entry for it.                   *)
(***************************************************************************)
EXTENDS Provisioning, SequenceTheorems, FiniteSetTheorems, TLAPS

One(b) == IF b THEN 1 ELSE 0
Never(line, M) == Places(line, M) = {}

(* Those that are read before a hello puts the reader out of step.         *)
Ahead(line, M) ==
  {i \in Places(line, M) : \A j \in 1..i : line[j] # Hello}

-----------------------------------------------------------------------------
(* The accepts on their way to an endpoint, and those stored, were given.  *)
Accepted   == {Accept}
Connecting == {e \in Ep : client[e] = "accept"}
Given ==
  saved + Cardinality(Connecting) + Cardinality(Places(toDevice, Accepted))
    <= yes

(* What is not in use is as it was at the start.                           *)
Idle ==
  /\ service = "down" => fromDevice = <<>> /\ pending = {} /\ ~scanning
  /\ device = "waiting" => ~busy /\ previouslyScanned = 0
  /\ joined # NoEp => busy
  /\ details => joined # NoEp

(* A device that waits and will find a hello first has nothing else to come*)
FreshStart ==
  (device = "waiting" /\ toDevice # <<>> /\ Head(toDevice) = Hello) =>
    /\ fromDevice = <<>> /\ pending = {}
    /\ \A i \in 1..Len(toDevice) : toDevice[i] = Hello
    /\ service \in {"starting", "down"}

(* What the device will read in step answers questions it has entries for; *)
(* so would the questions still open, unless a hello comes between.        *)
Reqs == Cardinality(Places(fromDevice, {Request}))
Asks == Cardinality({r \in pending : r.asks})
Ans  == Cardinality(Places(toDevice, Answers))
Near == Cardinality(Ahead(toDevice, Answers))
Told == Never(toDevice, {Hello})

Counted ==
  device = "up" =>
    /\ Near <= Listed
    /\ Told => /\ Open <= Listed
               /\ service \in {"starting", "up"} => Listed = Open + forgotten

IInv == TypeOK /\ Given /\ Idle /\ FreshStart /\ Counted

-----------------------------------------------------------------------------
(* Types.                                                                  *)

Question == [id : Nat, asks : BOOLEAN]

LEMMA MessageTypes ==
  /\ Hello \in FromService /\ Scan \in FromService
  /\ Accept \in FromService /\ Reject \in FromService
  /\ Hello \in FromDevice /\ Noise \in FromDevice /\ Ping \in FromDevice
  /\ Finished \in FromDevice /\ Request \in FromDevice
  /\ \A z \in BOOLEAN : Total(z) \in FromDevice
BY DEF FromService, FromDevice, Answers

(* No message is another.                                                  *)
LEMMA Kinds ==
  /\ Hello # Scan /\ Hello # Accept /\ Hello # Reject
  /\ Scan # Accept /\ Scan # Reject /\ Accept # Reject
  /\ Hello # Noise /\ Hello # Finished /\ Hello # Request
  /\ Noise # Finished /\ Noise # Request /\ Finished # Request
  /\ Ping # Hello /\ Ping # Noise /\ Ping # Finished /\ Ping # Request
  /\ \A z \in BOOLEAN : /\ Total(z) # Hello /\ Total(z) # Noise
                        /\ Total(z) # Finished /\ Total(z) # Request
<1>1. /\ Hello.kind = "hello" /\ Scan.kind = "scan" /\ Accept.kind = "accept"
      /\ Reject.kind = "reject" /\ Noise.kind = "noise" /\ Ping.kind = "ping"
      /\ Finished.kind = "finished" /\ Request.kind = "request"
      /\ \A z : Total(z).kind = "total"
  BY DEF Hello, Scan, Accept, Reject, Noise, Ping, Finished, Request, Total
<1> QED BY <1>1

LEMMA ServiceSendsType ==
  ASSUME TypeOK, NEW m \in FromService, ServiceSends(m)
  PROVE  toDevice' \in Seq(FromService)
BY AppendProperties DEF TypeOK, ServiceSends

LEMMA DeviceSendsType ==
  ASSUME TypeOK, NEW m \in FromDevice, DeviceSends(m)
  PROVE  fromDevice' \in Seq(FromDevice)
BY AppendProperties, EmptySeq DEF TypeOK, DeviceSends

LEMMA ToDeviceTailType ==
  ASSUME TypeOK, toDevice # <<>>
  PROVE  Head(toDevice) \in FromService /\ Tail(toDevice) \in Seq(FromService)
BY HeadTailProperties DEF TypeOK

LEMMA FromDeviceTailType ==
  ASSUME TypeOK, fromDevice # <<>>
  PROVE  Head(fromDevice) \in FromDevice /\ Tail(fromDevice) \in Seq(FromDevice)
BY HeadTailProperties DEF TypeOK

(* A notification is added, unless there is one with its action id.        *)
LEMMA DisplayedType ==
  ASSUME TypeOK, NEW id \in Nat, NEW asks \in BOOLEAN
  PROVE  LET p == Displayed(id, asks)
         IN  /\ p \subseteq Question /\ IsFiniteSet(p)
             /\ Cardinality({r \in p : r.asks}) =
                  Asks + (IF asks /\ p # pending THEN 1 ELSE 0)
             /\ Asks \in Nat
<1> DEFINE q == [id |-> id, asks |-> asks]
           S == {r \in pending : r.asks}
<1>1. /\ pending \subseteq Question /\ IsFiniteSet(pending) /\ q \in Question
  BY DEF TypeOK, Question
<1>2. IsFiniteSet(S) /\ Cardinality(S) \in Nat
  BY <1>1, FS_Subset, FS_CardinalityType
<1>0. Asks = Cardinality(S)
  BY DEF Asks
<1>3. CASE \E r \in pending : r.id = id
  <2>1. Displayed(id, asks) = pending
    BY <1>3 DEF Displayed
  <2>2. Cardinality(S) = Asks + 0 /\ Asks \in Nat
    BY <1>0, <1>2
  <2> QED BY <1>1, <2>1, <2>2
<1>4. CASE ~\E r \in pending : r.id = id
  <2>1. q \notin pending /\ q.asks = asks
    BY <1>4
  <2>2. Displayed(id, asks) = pending \cup {q}
    BY <1>4 DEF Displayed
  <2>3. IsFiniteSet(pending \cup {q})
    BY <1>1, FS_AddElement
  <2>4. /\ pending \cup {q} # pending
        /\ {r \in pending \cup {q} : r.asks} = IF asks THEN S \cup {q} ELSE S
    BY <2>1
  <2>5. Cardinality(S \cup {q}) = Cardinality(S) + 1
    BY <1>2, <2>1, FS_AddElement
  <2>6. Cardinality({r \in pending \cup {q} : r.asks}) =
          Asks + (IF asks THEN 1 ELSE 0)
    <3>1. CASE asks
      BY <1>0, <2>4, <2>5, <3>1
    <3>2. CASE ~asks
      BY <1>0, <1>2, <2>4, <3>2
    <3> QED BY <3>1, <3>2
  <2>7. pending \cup {q} \subseteq Question /\ Asks \in Nat
    BY <1>0, <1>1, <1>2
  <2> HIDE DEF q, S
  <2> QED BY <2>2, <2>3, <2>4, <2>6, <2>7
<1> QED BY <1>3, <1>4

LEMMA RequestDisplayed ==
  ASSUME TypeOK, DisplayRequest
  PROVE  /\ pending' \subseteq Question /\ IsFiniteSet(pending')
         /\ authActions' \in Nat /\ infoActions' \in Nat /\ forgotten' \in Nat
         /\ Asks' + forgotten' = Asks + forgotten + 1
         /\ Asks' <= Asks + 1 /\ Asks' \in Nat /\ Asks \in Nat
<1> DEFINE p == Displayed(authActions, TRUE)
<1>1. /\ pending' = p /\ authActions' = authActions + 1
      /\ forgotten' = IF p = pending THEN forgotten + 1 ELSE forgotten
      /\ infoActions' = infoActions
  BY DEF DisplayRequest
<1>2. authActions \in Nat /\ infoActions \in Nat /\ forgotten \in Nat
  BY DEF TypeOK
<1>3. /\ p \subseteq Question /\ IsFiniteSet(p) /\ Asks \in Nat
      /\ Cardinality({r \in p : r.asks}) = Asks + (IF p # pending THEN 1 ELSE 0)
  BY <1>2, DisplayedType
<1> HIDE DEF p
<1>4. Asks' = Asks + (IF p # pending THEN 1 ELSE 0)
  BY <1>1, <1>3 DEF Asks
<1> HIDE DEF Asks
<1> QED BY <1>1, <1>2, <1>3, <1>4

LEMMA OtherDisplayed ==
  ASSUME TypeOK, DisplayInfo \/ NoDisplay
  PROVE  /\ pending' \subseteq Question /\ IsFiniteSet(pending')
         /\ authActions' \in Nat /\ infoActions' \in Nat
         /\ forgotten' = forgotten
         /\ Asks' = Asks /\ Asks \in Nat
<1>1. CASE DisplayInfo
  <2> DEFINE p == Displayed(infoActions, FALSE)
  <2>1. /\ pending' = p /\ infoActions' = infoActions + 1
        /\ authActions' = authActions /\ forgotten' = forgotten
    BY <1>1 DEF DisplayInfo
  <2>2. authActions \in Nat /\ infoActions \in Nat
    BY DEF TypeOK
  <2>3. /\ p \subseteq Question /\ IsFiniteSet(p) /\ Asks \in Nat
        /\ Cardinality({r \in p : r.asks}) = Asks + 0
    BY <2>2, DisplayedType
  <2> HIDE DEF p
  <2>4. Asks' = Asks + 0
    BY <2>1, <2>3 DEF Asks
  <2> QED BY <2>1, <2>2, <2>3, <2>4 DEF Asks
<1>2. CASE NoDisplay
  <2>1. UNCHANGED <<pending, authActions, infoActions, forgotten>>
    BY <1>2 DEF NoDisplay
  <2>2. Asks \in Nat
    BY FS_Subset, FS_CardinalityType DEF TypeOK, Asks
  <2> QED BY <2>1, <2>2 DEF TypeOK, Question, Asks
<1> QED BY <1>1, <1>2

(* An answered question is none any more.                                  *)
LEMMA AnsweredType ==
  ASSUME TypeOK, NEW r \in pending, pending' = pending \ {r}
  PROVE  /\ pending' \subseteq Question /\ IsFiniteSet(pending')
         /\ r.asks \in BOOLEAN
         /\ Asks' + (IF r.asks THEN 1 ELSE 0) = Asks
         /\ Asks \in Nat /\ Asks' \in Nat
<1> DEFINE S == {q \in pending : q.asks}
<1>1. pending \subseteq Question /\ IsFiniteSet(pending) /\ r.asks \in BOOLEAN
  BY DEF TypeOK, Question
<1>2. IsFiniteSet(S) /\ Cardinality(S) \in Nat /\ IsFiniteSet(pending')
  BY <1>1, FS_Subset, FS_CardinalityType
<1>0. Asks = Cardinality(S) /\ Asks' = Cardinality({q \in pending' : q.asks})
  BY DEF Asks
<1>3. CASE r.asks
  <2>1. r \in S /\ {q \in pending' : q.asks} = S \ {r}
    BY <1>3
  <2>2. /\ Cardinality(S \ {r}) = Cardinality(S) - 1
        /\ IsFiniteSet(S \ {r}) /\ Cardinality(S \ {r}) \in Nat
    BY <1>2, <2>1, FS_RemoveElement, FS_Subset, FS_CardinalityType
  <2>3. Asks' + 1 = Asks /\ Asks \in Nat /\ Asks' \in Nat
    <3>1. Asks' = Cardinality(S \ {r})
      BY <1>0, <2>1
    <3> HIDE DEF S
    <3> QED BY <1>0, <1>2, <2>2, <3>1
  <2> QED BY <1>1, <1>2, <1>3, <2>3
<1>4. CASE ~r.asks
  <2>1. {q \in pending' : q.asks} = S
    BY <1>4
  <2>2. Asks' + 0 = Asks /\ Asks \in Nat /\ Asks' \in Nat
    BY <1>0, <1>2, <2>1
  <2> QED BY <1>1, <1>2, <1>4, <2>2
<1> QED BY <1>1, <1>3, <1>4

LEMMA ServiceType ==
  ASSUME TypeOK, Service
  PROVE  TypeOK'
<1> USE DEF serviceVars, deviceVars, scanVars, epVars
<1>1. CASE Start
  BY <1>1, MessageTypes, ServiceSendsType DEF Start, TypeOK
<1>2. CASE Stop
  <2>1. IsFiniteSet(pending') /\ fromDevice' \in Seq(FromDevice)
    BY <1>2, EmptySeq, FS_EmptySet DEF Stop
  <2>2. faults' \in 0..MaxFaults
    BY <1>2, ProvisioningAssumption DEF Stop, TypeOK
  <2>3. pending' \subseteq [id : Nat, asks : BOOLEAN]
    BY <1>2 DEF Stop
  <2> QED BY <1>2, <2>1, <2>2, <2>3 DEF Stop, TypeOK
<1>3. CASE Initialize
  BY <1>3, FromDeviceTailType DEF Initialize, TypeOK
<1>4. CASE Receive
  <2>1. fromDevice' \in Seq(FromDevice)
    BY <1>4, FromDeviceTailType DEF Receive
  <2>2. DisplayRequest \/ DisplayInfo \/ NoDisplay
    BY <1>4 DEF Receive
  <2>3. /\ pending' \subseteq Question /\ IsFiniteSet(pending')
        /\ authActions' \in Nat /\ infoActions' \in Nat /\ forgotten' \in Nat
    BY <2>2, RequestDisplayed, OtherDisplayed DEF TypeOK
  <2>4. scanning' \in BOOLEAN /\ service' \in {"up", "deaf"}
    BY <1>4 DEF Receive, ScanningOver, TypeOK
  <2> QED BY <1>4, <2>1, <2>3, <2>4 DEF Receive, TypeOK, Question
<1>5. CASE Garbage
  BY <1>5, FromDeviceTailType DEF Garbage, TypeOK
<1>6. CASE PressScan
  <2>1. DisplayRequest \/ DisplayInfo \/ NoDisplay
    BY <1>6 DEF PressScan
  <2>2. /\ pending' \subseteq Question /\ IsFiniteSet(pending')
        /\ authActions' \in Nat /\ infoActions' \in Nat /\ forgotten' \in Nat
    BY <2>1, RequestDisplayed, OtherDisplayed DEF TypeOK
  <2>3. toDevice' \in Seq(FromService)
    BY <1>6, MessageTypes, ServiceSendsType DEF PressScan, TypeOK
  <2> QED BY <1>6, <2>2, <2>3, ProvisioningAssumption
          DEF PressScan, TypeOK, Question
<1>7. ASSUME NEW r \in pending, NEW a \in BOOLEAN, Answer(r, a)
      PROVE  TypeOK'
  <2>1. pending' \subseteq Question /\ IsFiniteSet(pending')
    BY <1>7, AnsweredType DEF Answer
  <2>2. toDevice' \in Seq(FromService)
    BY <1>7, MessageTypes, ServiceSendsType DEF Answer, TypeOK
  <2>3. yes' \in Nat
    BY <1>7 DEF Answer, TypeOK
  <2> QED BY <1>7, <2>1, <2>2, <2>3 DEF Answer, TypeOK, Question
<1> QED BY <1>1, <1>2, <1>3, <1>4, <1>5, <1>6, <1>7 DEF Service, ServiceLoop

LEMMA RespondType ==
  ASSUME TypeOK, NEW m \in Answers, Respond(m)
  PROVE  /\ client' \in [Ep -> {"none", "scan", "accept", "reject"}]
         /\ previouslyScanned' \in Nat /\ forgotten' \in Nat
<1>1. m.kind \in {"accept", "reject"}
  BY DEF Answers, Accept, Reject
<1>2. Erased \in Nat
  BY DEF Erased, TypeOK
<1> QED BY <1>1, <1>2 DEF Respond, TypeOK

LEMMA ScannerType ==
  ASSUME TypeOK, Scanner
  PROVE  TypeOK'
<1> USE DEF serviceVars, deviceVars, scanVars, epVars
<1>1. CASE Connect
  BY <1>1, MessageTypes, DeviceSendsType, ToDeviceTailType DEF Connect, TypeOK
<1>2. CASE SendPing
  BY <1>2, MessageTypes, DeviceSendsType DEF SendPing, TypeOK
<1>3. CASE Poll
  <2> DEFINE m == Head(toDevice)
  <2>1. /\ client' \in [Ep -> {"none", "scan", "accept", "reject"}]
        /\ previouslyScanned' \in Nat /\ forgotten' \in Nat
    <3>1. CASE m \in Answers
      BY <1>3, <3>1, RespondType DEF Poll
    <3>2. CASE m \notin Answers
      BY <1>3, <3>2 DEF Poll, TypeOK
    <3> QED BY <3>1, <3>2
  <2>2. toDevice' \in Seq(FromService)
    BY <1>3, ToDeviceTailType DEF Poll
  <2>3. device' \in {"waiting", "up", "deaf"} /\ shouldScan' \in BOOLEAN
    BY <1>3 DEF Poll, TypeOK
  <2> QED BY <1>3, <2>1, <2>2, <2>3 DEF Poll, TypeOK
<1>4. CASE Discard
  BY <1>4, ToDeviceTailType DEF Discard, TypeOK
<1>5. CASE JoinFails
  BY <1>5 DEF JoinFails, TypeOK
<1>6. CASE Leave
  <2>1. fromDevice' \in Seq(FromDevice)
    BY <1>6, MessageTypes, DeviceSendsType DEF Leave, TypeOK
  <2>2. previouslyScanned' \in Nat /\ forgotten' \in Nat
    BY <1>6 DEF Leave, ListedAfter, TypeOK
  <2> QED BY <1>6, <2>1, <2>2 DEF Leave, TypeOK
<1>7. CASE EndScan
  BY <1>7, MessageTypes, DeviceSendsType DEF EndScan, TypeOK
<1>8. CASE TimeoutReboot \/ PowerLoss
  <2>1. Restarted /\ (UNCHANGED faults \/ (faults < MaxFaults /\ faults' = faults + 1))
    BY <1>8 DEF TimeoutReboot, PowerLoss
  <2>2. fromDevice' \in Seq(FromDevice) /\ toDevice' \in Seq(FromService)
    BY <2>1, MessageTypes, DeviceSendsType, EmptySeq DEF Restarted
  <2>3. faults' \in 0..MaxFaults
    BY <2>1, ProvisioningAssumption DEF TypeOK
  <2> QED BY <2>1, <2>2, <2>3 DEF Restarted, TypeOK
<1>9. ASSUME NEW found \in SUBSET Ep, BeginScan(found)
      PROVE  TypeOK'
  <2>1. fromDevice' \in Seq(FromDevice)
    BY <1>9, MessageTypes, DeviceSendsType DEF BeginScan
  <2>2. Cardinality(found) \in Nat
    BY ProvisioningAssumption, FS_Subset, FS_CardinalityType
  <2> QED BY <1>9, <2>1, <2>2 DEF BeginScan, TypeOK
<1>10. ASSUME NEW e \in Ep, Join(e)
       PROVE  TypeOK'
  <2>1. networks' \in Nat
    BY <1>10 DEF Join, TypeOK
  <2> QED BY <1>10, <2>1 DEF Join, TypeOK
<1> QED BY <1>1, <1>2, <1>3, <1>4, <1>5, <1>6, <1>7, <1>8, <1>9, <1>10
        DEF Scanner, DeviceLoop

LEMMA EndpointType ==
  ASSUME TypeOK, NEW e \in Ep, Endpoint(e)
  PROVE  TypeOK'
<1> USE DEF serviceVars, deviceVars, scanVars, epVars
<1>1. CASE SendDetails(e)
  <2>1. fromDevice' \in Seq(FromDevice)
    BY <1>1, MessageTypes, DeviceSendsType DEF SendDetails, TypeOK
  <2>2. client' \in [Ep -> {"none", "scan", "accept", "reject"}]
    BY <1>1 DEF SendDetails, TypeOK
  <2>3. mode' \in [Ep -> {"offer", "wait", "configured"}] /\ details' \in BOOLEAN
    BY <1>1 DEF SendDetails, TypeOK
  <2> QED BY <1>1, <2>1, <2>2, <2>3 DEF SendDetails, TypeOK
<1>2. CASE Reconnect(e)
  <2>1. client' \in [Ep -> {"none", "scan", "accept", "reject"}]
    BY <1>2 DEF Reconnect, TypeOK
  <2>2. mode' \in [Ep -> {"offer", "wait", "configured"}]
    BY <1>2 DEF Reconnect, TypeOK
  <2>3. saved' \in Nat
    BY <1>2 DEF Reconnect, TypeOK
  <2> QED BY <1>2, <2>1, <2>2, <2>3 DEF Reconnect, TypeOK
<1>3. CASE Reset(e)
  BY <1>3, ProvisioningAssumption DEF Reset, TypeOK
<1>4. CASE GiveUp(e)
  BY <1>4 DEF GiveUp, TypeOK
<1>5. CASE Disconnect(e)
  BY <1>5 DEF Disconnect, TypeOK
<1> QED BY <1>1, <1>2, <1>3, <1>4, <1>5 DEF Endpoint

LEMMA TypeInit == Init => TypeOK
<1> SUFFICES ASSUME Init PROVE TypeOK
  OBVIOUS
<1>1. toDevice \in Seq(FromService) /\ fromDevice \in Seq(FromDevice)
  BY EmptySeq DEF Init
<1>2. presses \in 0..MaxScans /\ faults \in 0..MaxFaults
  BY ProvisioningAssumption DEF Init
<1>3. /\ mode \in [Ep -> {"offer", "wait", "configured"}]
      /\ client \in [Ep -> {"none", "scan", "accept", "reject"}]
  BY DEF Init
<1>4. IsFiniteSet(pending)
  BY FS_EmptySet DEF Init
<1> QED BY <1>1, <1>2, <1>3, <1>4 DEF Init, TypeOK

LEMMA TypeStep == TypeOK /\ [Next]_vars => TypeOK'
<1> SUFFICES ASSUME TypeOK, [Next]_vars PROVE TypeOK'
  OBVIOUS
<1>1. CASE UNCHANGED vars
  BY <1>1 DEF vars, serviceVars, deviceVars, scanVars, epVars, TypeOK
<1> QED BY <1>1, ServiceType, ScannerType, EndpointType DEF Next

(* Every variable keeps its type, whatever is lost or restarted.           *)
THEOREM ProvisioningTypesCorrect == Spec => []TypeOK
BY TypeInit, TypeStep, PTL DEF Spec

-----------------------------------------------------------------------------
(* Where messages are on a line.                                           *)

LEMMA PlacesFinite ==
  ASSUME NEW S, NEW line \in Seq(S), NEW M
  PROVE  /\ IsFiniteSet(Places(line, M))
         /\ Cardinality(Places(line, M)) \in Nat
<1>1. Places(line, M) \subseteq 1..Len(line)
  BY DEF Places
<1>2. IsFiniteSet(1..Len(line))
  BY FS_Interval
<1> QED BY <1>1, <1>2, FS_Subset, FS_CardinalityType

LEMMA PlacesEmpty ==
  ASSUME NEW M
  PROVE  Places(<<>>, M) = {} /\ Cardinality(Places(<<>>, M)) = 0
BY FS_EmptySet DEF Places

LEMMA PlacesAppend ==
  ASSUME NEW S, NEW line \in Seq(S), NEW m \in S, NEW M
  PROVE  Places(Append(line, m), M) =
           IF m \in M THEN Places(line, M) \cup {Len(line) + 1} ELSE Places(line, M)
<1>1. /\ Len(Append(line, m)) = Len(line) + 1
      /\ \A i \in 1..Len(line) : Append(line, m)[i] = line[i]
      /\ Append(line, m)[Len(line) + 1] = m
  BY AppendProperties
<1>2. 1..(Len(line) + 1) = 1..Len(line) \cup {Len(line) + 1}
  OBVIOUS
<1> QED BY <1>1, <1>2 DEF Places

LEMMA PlacesTail ==
  ASSUME NEW S, NEW line \in Seq(S), line # <<>>, NEW M
  PROVE  /\ \A i \in Places(Tail(line), M) : i + 1 \in Places(line, M) \ {1}
         /\ \A i \in Places(line, M) \ {1} : i - 1 \in Places(Tail(line), M)
         /\ Head(line) \in M <=> 1 \in Places(line, M)
<1>1. /\ Len(Tail(line)) = Len(line) - 1
      /\ \A i \in 1..Len(Tail(line)) : Tail(line)[i] = line[i + 1]
      /\ Head(line) = line[1]
      /\ Len(line) \in Nat /\ Len(line) > 0
  BY HeadTailProperties, EmptySeq
<1> QED BY <1>1 DEF Places

LEMMA CountAppend ==
  ASSUME NEW S, NEW line \in Seq(S), NEW m \in S, NEW M
  PROVE  Cardinality(Places(Append(line, m), M)) =
           Cardinality(Places(line, M)) + (IF m \in M THEN 1 ELSE 0)
<1>1. Len(line) + 1 \notin Places(line, M)
  BY DEF Places
<1>2. IsFiniteSet(Places(line, M)) /\ Cardinality(Places(line, M)) \in Nat
  BY PlacesFinite
<1> QED BY <1>1, <1>2, PlacesAppend, FS_AddElement

(* What moves up by one place keeps its number.                            *)
LEMMA ShiftCount ==
  ASSUME NEW P, NEW Q, IsFiniteSet(P),
         \A i \in P : i \in Nat /\ i + 1 \in Q,
         \A j \in Q : j \in Nat /\ j - 1 \in P
  PROVE  Cardinality(Q) = Cardinality(P)
<1> DEFINE f == [i \in P |-> i + 1]
<1>1. f \in Bijection(P, Q)
  <2>1. f \in Injection(P, Q)
    BY DEF Injection, IsInjective
  <2>2. \A j \in Q : \E i \in P : f[i] = j
    <3> TAKE j \in Q
    <3>1. j - 1 \in P /\ f[j - 1] = j
      OBVIOUS
    <3> QED BY <3>1
  <2> QED BY <2>1, <2>2 DEF Bijection, Surjection, Injection
<1> QED BY <1>1, FS_Bijection DEF ExistsBijection

LEMMA CountTail ==
  ASSUME NEW S, NEW line \in Seq(S), line # <<>>, NEW M
  PROVE  Cardinality(Places(Tail(line), M)) + (IF Head(line) \in M THEN 1 ELSE 0)
           = Cardinality(Places(line, M))
<1> DEFINE P == Places(Tail(line), M)
           Q == Places(line, M) \ {1}
<1>1. /\ \A i \in P : i \in Nat /\ i + 1 \in Q
      /\ \A j \in Q : j \in Nat /\ j - 1 \in P
  BY PlacesTail DEF Places
<1>2. IsFiniteSet(P) /\ IsFiniteSet(Places(line, M))
  BY PlacesFinite, HeadTailProperties
<1>3. Cardinality(Q) = Cardinality(P)
  BY <1>1, <1>2, ShiftCount
<1>4. Cardinality(Q) = IF 1 \in Places(line, M) THEN Cardinality(Places(line, M)) - 1
                       ELSE Cardinality(Places(line, M))
  BY <1>2, FS_RemoveElement
<1>5. Cardinality(Places(line, M)) \in Nat
  BY PlacesFinite
<1> QED BY <1>3, <1>4, <1>5, PlacesTail

LEMMA NeverAppend ==
  ASSUME NEW S, NEW line \in Seq(S), NEW m \in S, NEW M
  PROVE  Never(Append(line, m), M) <=> Never(line, M) /\ m \notin M
BY PlacesAppend DEF Never

LEMMA NeverTail ==
  ASSUME NEW S, NEW line \in Seq(S), line # <<>>, NEW M
  PROVE  Never(line, M) <=> Never(Tail(line), M) /\ Head(line) \notin M
<1>1. /\ \A i \in Places(Tail(line), M) : i + 1 \in Places(line, M) \ {1}
      /\ \A i \in Places(line, M) \ {1} : i - 1 \in Places(Tail(line), M)
      /\ Head(line) \in M <=> 1 \in Places(line, M)
  BY PlacesTail
<1> QED BY <1>1 DEF Never

(* Before a hello on the line: everything, if there is none; what comes    *)
(* after one does not count.                                               *)
LEMMA AheadSent ==
  ASSUME NEW S, NEW line \in Seq(S), NEW m \in S, NEW M
  PROVE  /\ Never(line, {Hello}) => Ahead(line, M) = Places(line, M)
         /\ ~Never(line, {Hello}) \/ m \notin M
              => Ahead(Append(line, m), M) = Ahead(line, M)
<1>1. /\ Len(Append(line, m)) = Len(line) + 1 /\ Len(line) \in Nat
      /\ \A i \in 1..Len(line) : Append(line, m)[i] = line[i]
      /\ Append(line, m)[Len(line) + 1] = m
  BY AppendProperties
<1>2. Never(line, {Hello}) => Ahead(line, M) = Places(line, M)
  BY <1>1 DEF Never, Ahead, Places
<1>3. ASSUME ~Never(line, {Hello}) \/ m \notin M
      PROVE  Ahead(Append(line, m), M) = Ahead(line, M)
  <2>1. Ahead(line, M) \subseteq Ahead(Append(line, m), M)
    BY <1>1 DEF Ahead, Places
  <2>2. ASSUME NEW i \in Ahead(Append(line, m), M)
        PROVE  i \in Ahead(line, M)
    <3>1. i \in 1..Len(line)
      <4> SUFFICES ASSUME i = Len(line) + 1 PROVE FALSE
        BY <1>1 DEF Ahead, Places
      <4>1. m \in M /\ \A j \in 1..Len(line) : line[j] # Hello
        BY <1>1 DEF Ahead, Places
      <4>2. Never(line, {Hello})
        BY <4>1 DEF Never, Places
      <4> QED BY <1>3, <4>1, <4>2
    <3> QED BY <1>1, <3>1 DEF Ahead, Places
  <2> QED BY <2>1, <2>2
<1> QED BY <1>2, <1>3

LEMMA AheadRead ==
  ASSUME NEW S, NEW line \in Seq(S), line # <<>>, Head(line) # Hello, NEW M
  PROVE  Cardinality(Ahead(Tail(line), M)) + (IF Head(line) \in M THEN 1 ELSE 0)
           = Cardinality(Ahead(line, M))
<1> DEFINE P == Ahead(Tail(line), M)
           Q == Ahead(line, M) \ {1}
<1>1. /\ Len(Tail(line)) = Len(line) - 1
      /\ \A i \in 1..Len(Tail(line)) : Tail(line)[i] = line[i + 1]
      /\ Head(line) = line[1]
      /\ Len(line) \in Nat /\ Len(line) > 0
      /\ Tail(line) \in Seq(S)
  BY HeadTailProperties, EmptySeq
<1>2. ASSUME NEW i \in P
      PROVE  i \in Nat /\ i + 1 \in Q
  <2>1. i \in 1..Len(Tail(line)) /\ line[i + 1] \in M
        /\ \A j \in 1..i : Tail(line)[j] # Hello
    BY <1>1 DEF Ahead, Places
  <2>2. ASSUME NEW j \in 1..(i + 1)
        PROVE  line[j] # Hello
    <3>1. CASE j = 1
      BY <1>1, <3>1
    <3>2. CASE j # 1
      <4>1. j - 1 \in 1..i /\ j - 1 \in 1..Len(Tail(line)) /\ (j - 1) + 1 = j
        BY <1>1, <2>1, <3>2
      <4> QED BY <1>1, <2>1, <4>1
    <3> QED BY <3>1, <3>2
  <2>3. i + 1 \in 1..Len(line) /\ i + 1 # 1 /\ i \in Nat
    BY <1>1, <2>1
  <2> QED BY <2>1, <2>2, <2>3 DEF Ahead, Places
<1>3. ASSUME NEW j \in Q
      PROVE  j \in Nat /\ j - 1 \in P
  <2>1. j \in 1..Len(line) /\ j # 1 /\ line[j] \in M
        /\ \A k \in 1..j : line[k] # Hello
    BY DEF Ahead, Places
  <2>2. j - 1 \in 1..Len(Tail(line)) /\ (j - 1) + 1 = j
    BY <1>1, <2>1
  <2>3. ASSUME NEW k \in 1..(j - 1)
        PROVE  Tail(line)[k] # Hello
    <3>1. k \in 1..Len(Tail(line)) /\ k + 1 \in 1..j
      BY <1>1, <2>1
    <3> QED BY <1>1, <2>1, <3>1
  <2> QED BY <1>1, <2>1, <2>2, <2>3 DEF Ahead, Places
<1>4. IsFiniteSet(P) /\ IsFiniteSet(Ahead(line, M))
  <2>1. IsFiniteSet(Places(line, M)) /\ IsFiniteSet(Places(Tail(line), M))
    BY <1>1, PlacesFinite
  <2> QED BY <2>1, FS_Subset DEF Ahead
<1>5. Cardinality(Q) = Cardinality(P)
  BY <1>2, <1>3, <1>4, ShiftCount
<1>6. 1 \in Ahead(line, M) <=> Head(line) \in M
  <2>1. 1..1 = {1} /\ 1 \in 1..Len(line)
    BY <1>1
  <2> QED BY <1>1, <2>1 DEF Ahead, Places
<1>7. Cardinality(Q) = IF 1 \in Ahead(line, M) THEN Cardinality(Ahead(line, M)) - 1
                       ELSE Cardinality(Ahead(line, M))
  BY <1>4, FS_RemoveElement
<1>8. Cardinality(Ahead(line, M)) \in Nat
  BY <1>4, FS_CardinalityType
<1> QED BY <1>5, <1>6, <1>7, <1>8

(* The numbers.                                                            *)
Accs == Cardinality(Places(toDevice, Accepted))

LEMMA Numbers ==
  ASSUME TypeOK
  PROVE  /\ Reqs \in Nat /\ Asks \in Nat /\ Ans \in Nat /\ Accs \in Nat
         /\ Near \in Nat /\ Listed \in Nat /\ forgotten \in Nat
         /\ Open = Reqs + Asks + Ans
         /\ Told => Near = Ans
<1>1. Reqs \in Nat /\ Ans \in Nat /\ Accs \in Nat
  BY PlacesFinite DEF TypeOK, Reqs, Ans, Accs
<1>2. Asks \in Nat
  BY FS_Subset, FS_CardinalityType DEF TypeOK, Asks
<1>3. Near \in Nat
  <2>1. IsFiniteSet(Places(toDevice, Answers))
    BY PlacesFinite DEF TypeOK
  <2> QED BY <2>1, FS_Subset, FS_CardinalityType DEF Near, Ahead
<1>4. Listed \in Nat /\ forgotten \in Nat
  BY DEF TypeOK, Listed
<1>5. Told => Near = Ans
  BY MessageTypes, AheadSent DEF TypeOK, Told, Near, Ans
<1> QED BY <1>1, <1>2, <1>3, <1>4, <1>5 DEF Open, Reqs, Asks, Ans

LEMMA NumbersNext ==
  ASSUME TypeOK'
  PROVE  /\ Reqs' \in Nat /\ Asks' \in Nat /\ Ans' \in Nat /\ Accs' \in Nat
         /\ Near' \in Nat /\ Listed' \in Nat /\ forgotten' \in Nat
         /\ Open' = Reqs' + Asks' + Ans'
         /\ Told' => Near' = Ans'
<1>1. Reqs' \in Nat /\ Ans' \in Nat /\ Accs' \in Nat
  BY PlacesFinite DEF TypeOK, Reqs, Ans, Accs
<1>2. Asks' \in Nat
  BY FS_Subset, FS_CardinalityType DEF TypeOK, Asks
<1>3. Near' \in Nat
  <2>1. IsFiniteSet(Places(toDevice', Answers))
    BY PlacesFinite DEF TypeOK
  <2> QED BY <2>1, FS_Subset, FS_CardinalityType DEF Near, Ahead
<1>4. Listed' \in Nat /\ forgotten' \in Nat
  <2>1. previouslyScanned' \in Nat /\ forgotten' \in Nat
    BY DEF TypeOK
  <2>2. PICK n \in Nat : n = previouslyScanned'
    BY <2>1
  <2>3. n + 1 \in Nat
    OBVIOUS
  <2>4. Listed' \in {n, n + 1}
    BY <2>2 DEF Listed
  <2> QED BY <2>1, <2>3, <2>4
<1>5. Told' => Near' = Ans'
  BY MessageTypes, AheadSent DEF TypeOK, Told, Near, Ans
<1> QED BY <1>1, <1>2, <1>3, <1>4, <1>5 DEF Open, Reqs, Asks, Ans

(* What sending and reading a message changes in them.                     *)
LEMMA LineSent ==
  ASSUME TypeOK, NEW m \in FromService, ServiceSends(m)
  PROVE  /\ Ans' = Ans + One(m \in Answers)
         /\ Accs' = Accs + One(m = Accept)
         /\ Told' <=> Told /\ m # Hello
         /\ ~Told \/ m \notin Answers => Near' = Near
<1>1. toDevice' = Append(toDevice, m) /\ toDevice \in Seq(FromService)
  BY DEF ServiceSends, TypeOK
<1>2. Ans' = Ans + One(m \in Answers)
  BY <1>1, CountAppend DEF Ans, One
<1>3. Accs' = Accs + One(m = Accept)
  <2>1. Cardinality(Places(Append(toDevice, m), Accepted))
          = Accs + (IF m \in Accepted THEN 1 ELSE 0)
    BY <1>1, CountAppend DEF Accs
  <2>2. Accs' = Accs + (IF m \in Accepted THEN 1 ELSE 0)
    BY <1>1, <2>1 DEF Accs
  <2>3. m \in Accepted <=> m = Accept
    BY DEF Accepted
  <2> QED BY <2>2, <2>3 DEF One
<1>4. Told' <=> Told /\ m # Hello
  BY <1>1, NeverAppend DEF Told
<1>5. ~Told \/ m \notin Answers => Near' = Near
  BY <1>1, AheadSent DEF Told, Near
<1> QED BY <1>2, <1>3, <1>4, <1>5

LEMMA LineRead ==
  ASSUME TypeOK, toDevice # <<>>, toDevice' = Tail(toDevice)
  PROVE  /\ Ans' + One(Head(toDevice) \in Answers) = Ans
         /\ Accs' + One(Head(toDevice) = Accept) = Accs
         /\ Told <=> Told' /\ Head(toDevice) # Hello
         /\ Head(toDevice) # Hello =>
              Near' + One(Head(toDevice) \in Answers) = Near
<1>1. toDevice \in Seq(FromService)
  BY DEF TypeOK
<1>2. Ans' + One(Head(toDevice) \in Answers) = Ans
  BY <1>1, CountTail DEF Ans, One
<1>3. Accs' + One(Head(toDevice) = Accept) = Accs
  <2>1. Accs' + (IF Head(toDevice) \in Accepted THEN 1 ELSE 0) = Accs
    BY <1>1, CountTail DEF Accs
  <2>2. Head(toDevice) \in Accepted <=> Head(toDevice) = Accept
    BY DEF Accepted
  <2> QED BY <2>1, <2>2 DEF One
<1>4. Told <=> Told' /\ Head(toDevice) # Hello
  BY <1>1, NeverTail DEF Told
<1>5. Head(toDevice) # Hello => Near' + One(Head(toDevice) \in Answers) = Near
  BY <1>1, AheadRead DEF Near, One
<1> QED BY <1>2, <1>3, <1>4, <1>5

LEMMA RequestSent ==
  ASSUME TypeOK, NEW m \in FromDevice, DeviceSends(m)
  PROVE  Reqs' = IF service = "down" THEN 0 ELSE Reqs + One(m = Request)
<1>1. fromDevice \in Seq(FromDevice)
  BY DEF TypeOK
<1>2. CASE service = "down"
  BY <1>2, PlacesEmpty DEF DeviceSends, Reqs
<1>3. CASE service # "down"
  <2>1. fromDevice' = Append(fromDevice, m)
    BY <1>3 DEF DeviceSends
  <2>2. Reqs' = Reqs + (IF m \in {Request} THEN 1 ELSE 0)
    BY <1>1, <2>1, CountAppend DEF Reqs
  <2> QED BY <1>3, <2>2 DEF One
<1> QED BY <1>2, <1>3

LEMMA RequestRead ==
  ASSUME TypeOK, fromDevice # <<>>, fromDevice' = Tail(fromDevice)
  PROVE  Reqs' + One(Head(fromDevice) = Request) = Reqs
<1>1. fromDevice \in Seq(FromDevice)
  BY DEF TypeOK
<1>2. Reqs' + (IF Head(fromDevice) \in {Request} THEN 1 ELSE 0) = Reqs
  BY <1>1, CountTail DEF Reqs
<1> QED BY <1>2 DEF One

-----------------------------------------------------------------------------
(* Accepts.                                                                *)

Conns == Cardinality(Connecting)

LEMMA ConnectingChanges ==
  ASSUME TypeOK, NEW e \in Ep, NEW c, client' = [client EXCEPT ![e] = c]
  PROVE  /\ Conns \in Nat /\ Conns' \in Nat
         /\ Conns' <= Conns + One(c = "accept")
         /\ c # "accept" => Conns' + One(client[e] = "accept") = Conns
<1> DEFINE C == {d \in Ep : client[d] = "accept"}
<1>1. IsFiniteSet(C) /\ Cardinality(C) \in Nat
  BY ProvisioningAssumption, FS_Subset, FS_CardinalityType
<1>2. {d \in Ep : client'[d] = "accept"}
        = IF c = "accept" THEN C \cup {e} ELSE C \ {e}
  BY DEF TypeOK
<1>3. /\ Cardinality(C \cup {e}) = IF e \in C THEN Cardinality(C) ELSE Cardinality(C) + 1
      /\ Cardinality(C \ {e}) = IF e \in C THEN Cardinality(C) - 1 ELSE Cardinality(C)
      /\ Cardinality(C \cup {e}) \in Nat /\ Cardinality(C \ {e}) \in Nat
  <2>1. IsFiniteSet(C \cup {e}) /\ IsFiniteSet(C \ {e})
    BY <1>1, FS_AddElement, FS_RemoveElement
  <2> QED BY <1>1, <2>1, FS_AddElement, FS_RemoveElement, FS_CardinalityType
<1>4. e \in C <=> client[e] = "accept"
  OBVIOUS
<1>5. Conns = Cardinality(C)
  BY DEF Conns, Connecting
<1>6. Conns' = IF c = "accept" THEN Cardinality(C \cup {e}) ELSE Cardinality(C \ {e})
  BY <1>2 DEF Conns, Connecting
<1> HIDE DEF C
<1> QED BY <1>1, <1>3, <1>4, <1>5, <1>6 DEF One

LEMMA ConnsType ==
  ASSUME TypeOK
  PROVE  Conns \in Nat
BY ProvisioningAssumption, FS_Subset, FS_CardinalityType DEF Conns, Connecting

LEMMA ConnsTypeNext ==
  ASSUME TypeOK'
  PROVE  Conns' \in Nat
BY ProvisioningAssumption, FS_Subset, FS_CardinalityType DEF Conns, Connecting

LEMMA GivenStep ==
  ASSUME TypeOK, TypeOK', Given, [Next]_vars
  PROVE  Given'
<1> USE DEF serviceVars, deviceVars, scanVars, epVars
<1>0. /\ saved \in Nat /\ yes \in Nat /\ Accs \in Nat /\ Conns \in Nat
      /\ saved' \in Nat /\ yes' \in Nat /\ Accs' \in Nat /\ Conns' \in Nat
  BY Numbers, NumbersNext, ConnsType, ConnsTypeNext DEF TypeOK
<1>1. saved + Conns + Accs <= yes
  BY DEF Given, Conns, Accs
<1> PICK accs \in Nat : Accs' = accs
  BY <1>0
<1> PICK conns \in Nat : Conns' = conns
  BY <1>0
<1> SUFFICES saved' + conns + accs <= yes'
  <2>1. Given' <=> saved' + Conns' + Accs' <= yes'
    BY DEF Given, Conns, Accs
  <2> QED BY <2>1
<1>2. UNCHANGED client => conns = Conns
  BY DEF Conns, Connecting
<1>3. UNCHANGED toDevice => accs = Accs
  BY DEF Accs
<1>4. ASSUME UNCHANGED <<client, saved, yes>>, accs <= Accs
      PROVE  saved' + conns + accs <= yes'
  BY <1>0, <1>1, <1>2, <1>4
<1>4a. ASSUME UNCHANGED <<client, saved, yes, toDevice>>
       PROVE  saved' + conns + accs <= yes'
  BY <1>0, <1>3, <1>4, <1>4a
(* A message that is sent, or read.                                        *)
<1>4b. ASSUME NEW m \in FromService, ServiceSends(m)
       PROVE  accs = IF m = Accept THEN Accs + 1 ELSE Accs
  BY <1>0, <1>4b, LineSent DEF One
<1>4c. ASSUME toDevice # <<>>, toDevice' = Tail(toDevice)
       PROVE  /\ accs <= Accs
              /\ Head(toDevice) = Accept => accs + 1 = Accs
  <2>1. Accs' + One(Head(toDevice) = Accept) = Accs
    BY <1>4c, LineRead
  <2> QED BY <1>0, <2>1 DEF One
<1>5. CASE Start
  <2>1. ServiceSends(Hello) /\ UNCHANGED <<client, saved, yes>>
    BY <1>5 DEF Start
  <2> QED BY <1>0, <1>4, <1>4b, <2>1, MessageTypes, Kinds
<1>6. CASE Stop \/ ServiceLoop
  <2>1. UNCHANGED <<client, saved, yes, toDevice>>
    BY <1>6 DEF Stop, ServiceLoop, Initialize, Receive, Garbage
  <2> QED BY <1>4a, <2>1
<1>7. CASE PressScan
  <2>1. UNCHANGED <<client, saved, yes>> /\ (ServiceSends(Scan) \/ UNCHANGED toDevice)
    BY <1>7 DEF PressScan
  <2> QED BY <1>0, <1>4, <1>4a, <1>4b, <2>1, MessageTypes, Kinds
<1>8. ASSUME NEW r \in pending, NEW a \in BOOLEAN, Answer(r, a)
      PROVE  saved' + conns + accs <= yes'
  <2>1. UNCHANGED <<client, saved>>
    BY <1>8 DEF Answer
  <2>2. CASE ~r.asks
    <3>1. UNCHANGED <<toDevice, yes>>
      BY <1>8, <2>2 DEF Answer
    <3> QED BY <1>4a, <2>1, <3>1
  <2>3. CASE r.asks /\ a
    <3>1. ServiceSends(Accept) /\ yes' = yes + 1
      BY <1>8, <2>3 DEF Answer
    <3>2. accs = Accs + 1
      BY <1>4b, <3>1, MessageTypes
    <3> QED BY <1>0, <1>1, <1>2, <2>1, <3>1, <3>2
  <2>4. CASE r.asks /\ ~a
    <3>1. ServiceSends(Reject) /\ yes' = yes
      BY <1>8, <2>4 DEF Answer
    <3> QED BY <1>0, <1>4, <1>4b, <2>1, <3>1, MessageTypes, Kinds
  <2> QED BY <2>2, <2>3, <2>4
<1>9. CASE Connect \/ Discard
  <2>1. /\ UNCHANGED <<client, saved, yes>>
        /\ toDevice # <<>> /\ toDevice' = Tail(toDevice)
    BY <1>9 DEF Connect, Discard
  <2> QED BY <1>4, <1>4c, <2>1
<1>10. CASE Poll
  <2> DEFINE m == Head(toDevice)
  <2>1. /\ toDevice # <<>> /\ toDevice' = Tail(toDevice) /\ UNCHANGED <<saved, yes>>
        /\ UNCHANGED client \/ (m \in Answers /\ Respond(m))
    BY <1>10 DEF Poll
  <2>2. CASE UNCHANGED client
    BY <1>4, <1>4c, <2>1, <2>2
  <2>3. CASE ~UNCHANGED client
    <3>1. PICK e \in Ep : client' = [client EXCEPT ![e] = m.kind]
      BY <2>1, <2>3 DEF Respond
    <3>2. m.kind = "accept" <=> m = Accept
      BY <2>1, <2>3 DEF Answers, Accept, Reject
    <3>3. Conns' <= Conns + One(m.kind = "accept")
      BY <3>1, ConnectingChanges
    <3>4. /\ conns <= IF m = Accept THEN Conns + 1 ELSE Conns
          /\ m = Accept => accs + 1 = Accs
          /\ accs <= Accs
      BY <1>0, <1>4c, <2>1, <3>2, <3>3 DEF One
    <3> HIDE DEF m
    <3> QED BY <1>0, <1>1, <2>1, <3>4
  <2> QED BY <2>2, <2>3
<1>11. CASE TimeoutReboot \/ PowerLoss
  <2>1. toDevice' = <<>> /\ UNCHANGED <<client, saved, yes>>
    BY <1>11 DEF TimeoutReboot, PowerLoss, Restarted
  <2>2. accs = 0
    BY <2>1, PlacesEmpty DEF Accs
  <2> QED BY <1>0, <1>4, <2>1, <2>2
<1>12. CASE SendPing \/ JoinFails \/ Leave \/ EndScan
            \/ \E found \in SUBSET Ep : BeginScan(found)
  <2>1. UNCHANGED <<client, saved, yes, toDevice>>
    BY <1>12 DEF SendPing, JoinFails, Leave, EndScan, BeginScan
  <2> QED BY <1>4a, <2>1
<1>13. ASSUME NEW e \in Ep,
              \/ Join(e) \/ SendDetails(e) \/ Disconnect(e) \/ Reset(e)
              \/ Reconnect(e)
       PROVE  saved' + conns + accs <= yes'
  <2>1. /\ UNCHANGED <<toDevice, yes>>
        /\ \E c : c # "accept" /\ client' = [client EXCEPT ![e] = c]
        /\ saved' = saved \/ (saved' = saved + 1 /\ client[e] = "accept")
    BY <1>13 DEF Join, SendDetails, Disconnect, Reset, Reconnect, Configures
  <2>2. Conns' + One(client[e] = "accept") = Conns
    BY <2>1, ConnectingChanges
  <2>3. conns <= Conns /\ (client[e] = "accept" => conns + 1 = Conns)
    BY <1>0, <2>2 DEF One
  <2>4. accs = Accs /\ yes' = yes
    BY <1>3, <2>1
  <2>5. CASE saved' = saved
    BY <1>0, <1>1, <2>3, <2>4, <2>5
  <2>6. CASE saved' = saved + 1 /\ client[e] = "accept"
    <3>1. conns + 1 = Conns
      BY <2>3, <2>6
    <3> QED BY <1>0, <1>1, <2>4, <2>6, <3>1
  <2> QED BY <2>1, <2>5, <2>6
<1>14. ASSUME NEW e \in Ep, GiveUp(e)
       PROVE  saved' + conns + accs <= yes'
  <2>1. UNCHANGED <<client, saved, yes, toDevice>>
    BY <1>14 DEF GiveUp
  <2> QED BY <1>4a, <2>1
<1>15. CASE UNCHANGED vars
  BY <1>4a, <1>15 DEF vars
<1> QED BY <1>5, <1>6, <1>7, <1>8, <1>9, <1>10, <1>11, <1>12, <1>13, <1>14, <1>15
        DEF Next, Service, Scanner, DeviceLoop, Endpoint

-----------------------------------------------------------------------------
(* What is not in use, and a fresh start.                                  *)

LEMMA IdleStep ==
  ASSUME TypeOK, Idle, [Next]_vars
  PROVE  Idle'
<1> USE DEF serviceVars, deviceVars, scanVars, epVars
<1>1. CASE Start \/ Stop \/ ServiceLoop
  <2>1. CASE Start
    BY <1>1, <2>1 DEF Start, Idle
  <2>2. CASE Stop
    BY <1>1, <2>2 DEF Stop, Idle
  <2>3. CASE ServiceLoop
    <3>1. service' # "down"
      BY <2>3 DEF ServiceLoop, Initialize, Receive, Garbage, serviceVars
    <3>2. UNCHANGED deviceVars
      BY <2>3 DEF ServiceLoop, Initialize, Receive, Garbage
    <3> QED BY <3>1, <3>2 DEF Idle
  <2> QED BY <1>1, <2>1, <2>2, <2>3
<1>2. CASE PressScan \/ \E r \in pending, a \in BOOLEAN : Answer(r, a)
  BY <1>2 DEF PressScan, Answer, Idle
<1>3. ASSUME UNCHANGED <<service, pending, scanning>>,
             fromDevice' = fromDevice \/ \E m \in FromDevice : DeviceSends(m)
      PROVE  service' = "down" => fromDevice' = <<>> /\ pending' = {} /\ ~scanning'
  BY <1>3 DEF Idle, DeviceSends
<1>4. CASE Connect \/ SendPing \/ Discard \/ Poll
  <2>1. /\ UNCHANGED <<service, pending, scanning, busy, joined, details>>
        /\ device' # "waiting"
    BY <1>4 DEF Connect, SendPing, Discard, Poll
  <2>2. fromDevice' = fromDevice \/ \E m \in FromDevice : DeviceSends(m)
    BY <1>4, MessageTypes DEF Connect, SendPing, Discard, Poll
  <2> QED BY <1>3, <2>1, <2>2 DEF Idle
<1>5. CASE TimeoutReboot \/ PowerLoss
  <2>1. /\ UNCHANGED <<service, pending, scanning>> /\ DeviceSends(Noise)
        /\ ~busy' /\ previouslyScanned' = 0 /\ joined' = NoEp /\ ~details'
    BY <1>5 DEF TimeoutReboot, PowerLoss, Restarted
  <2> QED BY <1>3, <2>1, MessageTypes DEF Idle
<1>6. CASE JoinFails \/ Leave \/ EndScan \/ (\E e \in Ep : Join(e))
           \/ \E found \in SUBSET Ep : BeginScan(found)
  <2>1. /\ UNCHANGED <<service, pending, scanning, device>> /\ device # "waiting"
    BY <1>6 DEF JoinFails, Leave, EndScan, Join, BeginScan, Idle
  <2>2. fromDevice' = fromDevice \/ \E m \in FromDevice : DeviceSends(m)
    <3>1. CASE JoinFails \/ \E e \in Ep : Join(e)
      BY <3>1 DEF JoinFails, Join
    <3>2. CASE Leave
      BY <3>2, MessageTypes DEF Leave, TypeOK
    <3>3. CASE EndScan
      BY <3>3, MessageTypes DEF EndScan
    <3>4. CASE \E found \in SUBSET Ep : BeginScan(found)
      BY <3>4, MessageTypes DEF BeginScan
    <3> QED BY <1>6, <3>1, <3>2, <3>3, <3>4
  <2>3. /\ joined' # NoEp => busy'
        /\ details' => joined' # NoEp
    BY <1>6, ProvisioningAssumption DEF JoinFails, Leave, EndScan, Join, BeginScan, Idle
  <2> QED BY <1>3, <2>1, <2>2, <2>3 DEF Idle
<1>7. ASSUME NEW e \in Ep, Endpoint(e)
      PROVE  Idle'
  <2>1. /\ UNCHANGED <<service, pending, scanning, device, busy, joined,
                       previouslyScanned>>
        /\ details' => details \/ joined = e
    BY <1>7 DEF Endpoint, SendDetails, Reconnect, GiveUp, Disconnect, Reset
  <2>2. fromDevice' = fromDevice \/ \E m \in FromDevice : DeviceSends(m)
    BY <1>7, MessageTypes DEF Endpoint, SendDetails, Reconnect, GiveUp, Disconnect, Reset
  <2> QED BY <1>3, <2>1, <2>2, ProvisioningAssumption DEF Idle
<1>8. CASE UNCHANGED vars
  BY <1>8 DEF vars, Idle
<1> QED BY <1>1, <1>2, <1>4, <1>5, <1>6, <1>7, <1>8
        DEF Next, Service, Scanner, DeviceLoop

LEMMA SentLast ==
  ASSUME TypeOK, NEW m \in FromService, ServiceSends(m)
  PROVE  /\ toDevice' # <<>>
         /\ toDevice # <<>> => Head(toDevice') = Head(toDevice)
         /\ toDevice = <<>> => Head(toDevice') = m
         /\ Len(toDevice') = Len(toDevice) + 1
         /\ \A i \in 1..Len(toDevice) : toDevice'[i] = toDevice[i]
         /\ toDevice'[Len(toDevice) + 1] = m
<1>1. toDevice \in Seq(FromService) /\ toDevice' = Append(toDevice, m)
  BY DEF TypeOK, ServiceSends
<1>2. /\ toDevice' \in Seq(FromService)
      /\ toDevice' # <<>>
      /\ Len(toDevice') = Len(toDevice) + 1
      /\ \A i \in 1..Len(toDevice) : toDevice'[i] = toDevice[i]
      /\ toDevice'[Len(toDevice) + 1] = m
  BY <1>1, AppendProperties
<1>3. Head(toDevice') = toDevice'[1]
  BY <1>2, HeadTailProperties
<1>4. /\ toDevice # <<>> => Head(toDevice) = toDevice[1] /\ 1 \in 1..Len(toDevice)
      /\ toDevice = <<>> => Len(toDevice) = 0
  BY <1>1, HeadTailProperties, EmptySeq
<1> QED BY <1>2, <1>3, <1>4

LEMMA FreshStartStep ==
  ASSUME TypeOK, Idle, FreshStart, [Next]_vars
  PROVE  FreshStart'
<1> USE DEF serviceVars, deviceVars, scanVars, epVars
<1>1. CASE Start
  <2>1. ServiceSends(Hello) /\ UNCHANGED device
    BY <1>1 DEF Start
  <2>2. fromDevice' = <<>> /\ pending' = {} /\ service' = "starting"
    BY <1>1 DEF Start, Idle
  <2>3. Len(toDevice) \in Nat /\ (toDevice = <<>> => Len(toDevice) = 0)
    BY EmptySeq DEF TypeOK
  <2>4. ASSUME device = "waiting", Head(toDevice') = Hello,
               NEW i \in 1..Len(toDevice')
        PROVE  toDevice'[i] = Hello
    <3>1. i \in 1..Len(toDevice) \/ i = Len(toDevice) + 1
      BY <2>1, <2>3, MessageTypes, SentLast
    <3> QED BY <2>1, <2>3, <2>4, <3>1, MessageTypes, SentLast DEF FreshStart
  <2> QED BY <2>1, <2>2, <2>4 DEF FreshStart
<1>2. CASE Stop
  BY <1>2 DEF Stop, FreshStart
<1>3. CASE Initialize \/ Receive \/ Garbage
  BY <1>3 DEF Initialize, Receive, Garbage, FreshStart
<1>4. CASE PressScan \/ \E r \in pending, a \in BOOLEAN : Answer(r, a)
  <2>1. UNCHANGED device /\ service \in {"up", "deaf"}
    BY <1>4 DEF PressScan, Answer
  <2>2. PICK m \in FromService : (ServiceSends(m) /\ m # Hello) \/ UNCHANGED toDevice
    <3>1. ServiceSends(Scan) \/ UNCHANGED toDevice
            \/ ServiceSends(Accept) \/ ServiceSends(Reject)
      BY <1>4 DEF PressScan, Answer, TypeOK
    <3> QED BY <3>1, MessageTypes, Kinds
  <2>3. ~(device = "waiting" /\ toDevice # <<>> /\ Head(toDevice) = Hello)
    BY <2>1 DEF FreshStart
  <2> QED BY <2>1, <2>2, <2>3, SentLast DEF FreshStart
<1>5. CASE Connect \/ Poll \/ Discard
  BY <1>5 DEF Connect, Poll, Discard, FreshStart
<1>6. CASE TimeoutReboot \/ PowerLoss
  BY <1>6 DEF TimeoutReboot, PowerLoss, Restarted, FreshStart
<1>7. CASE SendPing \/ JoinFails \/ Leave \/ EndScan
           \/ (\E found \in SUBSET Ep : BeginScan(found)) \/ \E e \in Ep : Join(e)
  <2>1. device' # "waiting"
    BY <1>7 DEF SendPing, JoinFails, Leave, EndScan, BeginScan, Join, Idle
  <2> QED BY <2>1 DEF FreshStart
<1>8. ASSUME NEW e \in Ep, Endpoint(e)
      PROVE  FreshStart'
  <2>1. device = "waiting" => UNCHANGED fromDevice
    BY <1>8, ProvisioningAssumption
       DEF Endpoint, SendDetails, Reconnect, GiveUp, Disconnect, Reset, Idle
  <2>2. UNCHANGED <<service, device, toDevice, pending>>
    BY <1>8 DEF Endpoint, SendDetails, Reconnect, GiveUp, Disconnect, Reset
  <2> QED BY <2>1, <2>2 DEF FreshStart
<1>9. CASE UNCHANGED vars
  BY <1>9 DEF vars, FreshStart
<1> QED BY <1>1, <1>2, <1>3, <1>4, <1>5, <1>6, <1>7, <1>8, <1>9
        DEF Next, Service, ServiceLoop, Scanner, DeviceLoop

-----------------------------------------------------------------------------
(* Questions and entries.                                                  *)

(* A step whose changes of the entries and of the questions agree.         *)
LEMMA CountedKept ==
  ASSUME TypeOK, TypeOK', Counted, device' = "up" => device = "up",
         NEW near \in Nat, NEW open \in Nat, NEW listed \in Nat, NEW lost \in Nat,
         Told' => Told,
         ~Told' => near + Listed <= Near + listed,
         Told' => open + Listed <= Open + listed,
         Told' /\ service' \in {"starting", "up"} =>
           /\ service \in {"starting", "up"}
           /\ listed + Open + forgotten = Listed + open + lost
  PROVE  near = Near' /\ open = Open' /\ listed = Listed' /\ lost = forgotten'
           => Counted'
<1> SUFFICES ASSUME device' = "up"
             PROVE  near = Near' /\ open = Open' /\ listed = Listed'
                      /\ lost = forgotten' => Counted'
  BY DEF Counted
<1>1. /\ Near <= Listed
      /\ Told => /\ Open <= Listed
                 /\ service \in {"starting", "up"} => Listed = Open + forgotten
  BY DEF Counted
<1>2. Near \in Nat /\ Listed \in Nat /\ Open \in Nat /\ forgotten \in Nat
  BY Numbers
<1>3. Told' => open <= listed
  BY <1>1, <1>2
<1>4. Told' /\ service' \in {"starting", "up"} => listed = open + lost
  BY <1>1, <1>2
<1>5. (Told' => near <= open) => near <= listed
  BY <1>1, <1>2, <1>3
<1>6. Told' => Near' <= Open'
  <2>1. PICK r \in Nat, q \in Nat, a \in Nat : r = Reqs' /\ q = Asks' /\ a = Ans'
    BY NumbersNext
  <2>2. a <= r + q + a
    OBVIOUS
  <2> QED BY <2>1, <2>2, NumbersNext
<1>7. ASSUME near = Near', open = Open', listed = Listed', lost = forgotten'
      PROVE  Counted'
  <2>1. /\ Near' <= Listed' /\ (Told' => Open' <= Listed')
        /\ Told' /\ service' \in {"starting", "up"} => Listed' = Open' + forgotten'
    BY <1>3, <1>4, <1>5, <1>6, <1>7
  <2> QED BY <2>1 DEF Counted
<1> QED BY <1>7

(* Where the entries and what the user sees stay.                          *)
LEMMA EntriesStay ==
  UNCHANGED <<previouslyScanned, details>> => Listed' = Listed
BY DEF Listed

LEMMA QuestionsStay ==
  /\ UNCHANGED pending => Asks' = Asks
  /\ UNCHANGED fromDevice => Reqs' = Reqs
  /\ UNCHANGED toDevice => Ans' = Ans /\ Near' = Near /\ (Told' <=> Told)
BY DEF Asks, Reqs, Ans, Near, Told

LEMMA CountedService ==
  ASSUME TypeOK, TypeOK', Counted, Service
  PROVE  Counted'
<1> USE DEF serviceVars, deviceVars, scanVars, epVars
<1>0. /\ UNCHANGED <<device, previouslyScanned, details>>
  <2>1. CASE Start \/ Stop \/ PressScan
    BY <2>1 DEF Start, Stop, PressScan
  <2>2. CASE ServiceLoop
    BY <2>2 DEF ServiceLoop, Initialize, Receive, Garbage
  <2>3. CASE \E r \in pending, a \in BOOLEAN : Answer(r, a)
    BY <2>3 DEF Answer
  <2> QED BY <2>1, <2>2, <2>3 DEF Service
<1>n. PICK reqs \in Nat, asks \in Nat, ans \in Nat, near \in Nat, listed \in Nat,
             lost \in Nat :
        /\ reqs = Reqs' /\ asks = Asks' /\ ans = Ans' /\ near = Near'
        /\ listed = Listed' /\ lost = forgotten'
  BY NumbersNext
<1> DEFINE open == reqs + asks + ans
<1>1. open \in Nat /\ open = Open'
  <2>1. open \in Nat
    OBVIOUS
  <2>2. open = Open'
    BY <1>n, NumbersNext
  <2> QED BY <2>1, <2>2
<1>2. /\ Reqs \in Nat /\ Asks \in Nat /\ Ans \in Nat /\ Near \in Nat
      /\ Listed \in Nat /\ forgotten \in Nat
      /\ Open = Reqs + Asks + Ans
  BY Numbers
<1>3. listed = Listed
  BY <1>0, <1>n, EntriesStay
<1>4. ASSUME Told' => Told, ~Told' => near <= Near,
             Told' => reqs + asks + ans <= Reqs + Asks + Ans,
             Told' /\ service' \in {"starting", "up"} =>
               /\ service \in {"starting", "up"}
               /\ Reqs + Asks + Ans + forgotten = reqs + asks + ans + lost
      PROVE  Counted'
  <2>1. ~Told' => near + Listed <= Near + listed
    BY <1>2, <1>3, <1>4
  <2>2. Told' => open + Listed <= Open + listed
    BY <1>2, <1>3, <1>4
  <2>3. Told' /\ service' \in {"starting", "up"} =>
          /\ service \in {"starting", "up"}
          /\ listed + Open + forgotten = Listed + open + lost
    BY <1>2, <1>3, <1>4
  <2> HIDE DEF open
  <2> QED BY <1>0, <1>1, <1>4, <1>n, <2>1, <2>2, <2>3, CountedKept
<1>5. CASE Start
  <2>1. ServiceSends(Hello)
    BY <1>5 DEF Start
  <2>2. ~Told' /\ (Hello \notin Answers => Near' = Near)
    BY <2>1, MessageTypes, LineSent
  <2>3. near = Near
    BY <1>n, <2>2, Kinds DEF Answers
  <2> QED BY <1>2, <1>4, <2>2, <2>3
<1>6. CASE Stop
  <2>1. /\ service' = "down" /\ fromDevice' = <<>> /\ pending' = {}
        /\ UNCHANGED toDevice
    BY <1>6 DEF Stop
  <2>2. reqs = 0 /\ asks = 0 /\ ans = Ans /\ near = Near /\ (Told' <=> Told)
    <3>1. {r \in pending' : r.asks} = {}
      BY <2>1
    <3> QED BY <1>n, <2>1, <3>1, PlacesEmpty, FS_EmptySet, QuestionsStay DEF Reqs, Asks
  <2> QED BY <1>2, <1>4, <2>1, <2>2
<1>7. CASE ServiceLoop
  <2> DEFINE m == Head(fromDevice)
  <2>1. /\ fromDevice # <<>> /\ fromDevice' = Tail(fromDevice) /\ UNCHANGED toDevice
    BY <1>7 DEF ServiceLoop, Initialize, Receive, Garbage
  <2>2. /\ reqs + One(m = Request) = Reqs /\ ans = Ans /\ near = Near
        /\ (Told' <=> Told) /\ One(m = Request) = IF m = Request THEN 1 ELSE 0
    BY <1>n, <2>1, RequestRead, QuestionsStay DEF One
  <2>3. CASE Initialize
    <3>1. /\ UNCHANGED <<pending, forgotten>> /\ service = "starting"
          /\ service' = IF m = Hello THEN "up" ELSE "stuck"
      BY <2>3 DEF Initialize
    <3>2. asks = Asks /\ lost = forgotten
      BY <1>n, <3>1, QuestionsStay
    <3>3. reqs <= Reqs /\ (service' \in {"starting", "up"} => reqs = Reqs)
      BY <1>2, <2>2, <3>1, Kinds
    <3> QED BY <1>2, <1>4, <2>2, <3>1, <3>2, <3>3
  <2>4. CASE Garbage
    <3>1. UNCHANGED <<pending, service>> /\ service \in {"stuck", "deaf"}
      BY <2>4 DEF Garbage
    <3>2. asks = Asks
      BY <1>n, <3>1, QuestionsStay
    <3>3. reqs <= Reqs
      BY <1>2, <2>2
    <3> QED BY <1>2, <1>4, <2>2, <3>1, <3>2, <3>3
  <2>5. CASE Receive
    <3>1. /\ service = "up"
          /\ \/ m = Request /\ DisplayRequest
             \/ m # Request /\ (DisplayInfo \/ NoDisplay)
      BY <2>5, Kinds DEF Receive
    <3>2. CASE m = Request
      <4>1. Asks' + forgotten' = Asks + forgotten + 1 /\ Asks' <= Asks + 1
        BY <3>1, <3>2, RequestDisplayed
      <4>2. asks + lost = Asks + forgotten + 1 /\ asks <= Asks + 1
        BY <1>n, <4>1
      <4>3. reqs + 1 = Reqs
        BY <2>2, <3>2
      <4> QED BY <1>2, <1>4, <2>2, <3>1, <4>2, <4>3
    <3>3. CASE m # Request
      <4>1. Asks' = Asks /\ forgotten' = forgotten
        BY <3>1, <3>3, OtherDisplayed
      <4>2. reqs = Reqs /\ asks = Asks /\ lost = forgotten
        BY <1>2, <1>n, <2>2, <3>3, <4>1
      <4> QED BY <1>2, <1>4, <2>2, <3>1, <4>2
    <3> QED BY <3>2, <3>3
  <2> QED BY <1>7, <2>3, <2>4, <2>5 DEF ServiceLoop
<1>8. CASE PressScan
  <2>1. /\ UNCHANGED <<service, fromDevice>> /\ (DisplayInfo \/ NoDisplay)
        /\ ServiceSends(Scan) \/ UNCHANGED toDevice
    BY <1>8 DEF PressScan
  <2>2. asks = Asks /\ reqs = Reqs /\ lost = forgotten
    BY <1>n, <2>1, OtherDisplayed, QuestionsStay
  <2>3. Scan \in FromService /\ Scan \notin Answers /\ Scan # Hello
    BY MessageTypes, Kinds DEF Answers
  <2>4. ans = Ans /\ near = Near /\ (Told' <=> Told)
    BY <1>2, <1>n, <2>1, <2>3, LineSent, QuestionsStay DEF One
  <2> QED BY <1>2, <1>4, <2>1, <2>2, <2>4
<1>9. ASSUME NEW r \in pending, NEW a \in BOOLEAN, Answer(r, a)
      PROVE  Counted'
  <2>1. /\ UNCHANGED <<service, fromDevice, forgotten>> /\ pending' = pending \ {r}
        /\ r.asks => ServiceSends(IF a THEN Accept ELSE Reject)
        /\ ~r.asks => UNCHANGED toDevice
    BY <1>9 DEF Answer
  <2>2. /\ asks + (IF r.asks THEN 1 ELSE 0) = Asks
        /\ reqs = Reqs /\ lost = forgotten
    BY <1>n, <2>1, AnsweredType, QuestionsStay
  <2>3. CASE r.asks
    <3> DEFINE m == IF a THEN Accept ELSE Reject
    <3>1. ServiceSends(m) /\ m \in FromService /\ m \in Answers /\ m # Hello
      BY <2>1, <2>3, MessageTypes, Kinds DEF Answers
    <3> HIDE DEF m
    <3>2. ans = Ans + 1 /\ (Told' <=> Told) /\ (~Told => near = Near)
      BY <1>n, <3>1, LineSent DEF One
    <3>3. asks + 1 = Asks
      BY <2>2, <2>3
    <3> QED BY <1>2, <1>4, <2>1, <2>2, <3>2, <3>3
  <2>4. CASE ~r.asks
    <3>1. ans = Ans /\ near = Near /\ (Told' <=> Told)
      BY <1>n, <2>1, <2>4, QuestionsStay
    <3>2. asks = Asks
      BY <1>2, <2>2, <2>4
    <3> QED BY <1>2, <1>4, <2>1, <2>2, <3>1, <3>2
  <2> QED BY <2>3, <2>4
<1> QED BY <1>5, <1>6, <1>7, <1>8, <1>9 DEF Service

(* The device goes through a message in step.                              *)
LEMMA CountedConnect ==
  ASSUME TypeOK, TypeOK', Idle, FreshStart, Connect
  PROVE  Counted'
<1> USE DEF serviceVars, deviceVars, scanVars, epVars
<1>1. /\ device = "waiting" /\ toDevice # <<>> /\ toDevice' = Tail(toDevice)
      /\ device' = IF Head(toDevice) = Hello THEN "up" ELSE "deaf"
      /\ DeviceSends(Hello) /\ forgotten' = 0
      /\ UNCHANGED <<service, pending, previouslyScanned, details>>
  BY DEF Connect
<1> SUFFICES ASSUME Head(toDevice) = Hello PROVE Counted'
  BY <1>1 DEF Counted
<1>2. /\ fromDevice = <<>> /\ pending = {}
      /\ \A i \in 1..Len(toDevice) : toDevice[i] = Hello
  BY <1>1 DEF FreshStart
<1>3. Listed' = 0
  BY <1>1, ProvisioningAssumption DEF Idle, Listed
<1>4. Places(toDevice', Answers) = {}
  <2>1. /\ Len(toDevice') = Len(toDevice) - 1
        /\ \A i \in 1..Len(toDevice') : toDevice'[i] = toDevice[i + 1]
        /\ Len(toDevice) \in Nat
    BY <1>1, HeadTailProperties, EmptySeq DEF TypeOK
  <2>2. Hello \notin Answers
    BY Kinds DEF Answers
  <2> QED BY <1>2, <2>1, <2>2 DEF Places
<1>5. Ans' = 0
  BY <1>4, FS_EmptySet DEF Ans
<1>6. Near' = 0
  <2>1. Ahead(toDevice', Answers) = {}
    BY <1>4 DEF Ahead
  <2> QED BY <2>1, FS_EmptySet DEF Near
<1>7. Asks' = 0
  <2>1. {r \in pending' : r.asks} = {}
    BY <1>1, <1>2
  <2> QED BY <2>1, FS_EmptySet DEF Asks
<1>8. Reqs' = 0
  <2>1. Hello \in FromDevice /\ (Hello = Request) = FALSE
    BY MessageTypes, Kinds
  <2>2. Reqs' = IF service = "down" THEN 0 ELSE Reqs + One(FALSE)
    BY <1>1, <2>1, RequestSent
  <2>3. Reqs = 0
    BY <1>2, PlacesEmpty DEF Reqs
  <2> QED BY <2>2, <2>3 DEF One
<1>9. Open' = 0
  BY <1>5, <1>7, <1>8, NumbersNext
<1> QED BY <1>1, <1>3, <1>6, <1>9 DEF Counted

LEMMA CountedPoll ==
  ASSUME TypeOK, TypeOK', Idle, Counted, Poll
  PROVE  Counted'
<1> USE DEF serviceVars, deviceVars, scanVars, epVars
<1> DEFINE m == Head(toDevice)
<1>1. /\ device = "up" /\ ~busy /\ toDevice # <<>> /\ toDevice' = Tail(toDevice)
      /\ device' = IF m = Hello THEN "deaf" ELSE "up"
      /\ IF m \in Answers THEN Respond(m)
         ELSE UNCHANGED <<previouslyScanned, forgotten>>
      /\ UNCHANGED <<service, fromDevice, pending, details>>
  BY DEF Poll
<1> SUFFICES ASSUME m # Hello PROVE Counted'
  BY <1>1 DEF Counted
<1>n. PICK reqs \in Nat, asks \in Nat, ans \in Nat, near \in Nat, listed \in Nat,
             lost \in Nat :
        /\ reqs = Reqs' /\ asks = Asks' /\ ans = Ans' /\ near = Near'
        /\ listed = Listed' /\ lost = forgotten'
  BY NumbersNext
<1> DEFINE open == reqs + asks + ans
<1>2. open \in Nat
  OBVIOUS
<1>2a. open = Open'
  BY <1>n, NumbersNext
<1>3. /\ Reqs \in Nat /\ Asks \in Nat /\ Ans \in Nat /\ Near \in Nat
      /\ Listed \in Nat /\ forgotten \in Nat
      /\ Open = Reqs + Asks + Ans
  BY Numbers
<1>4. reqs = Reqs /\ asks = Asks /\ (Told' <=> Told)
  BY <1>1, <1>n, LineRead, QuestionsStay
<1>5. ans + One(m \in Answers) = Ans /\ near + One(m \in Answers) = Near
  BY <1>1, <1>n, LineRead
<1>6. CASE m \notin Answers
  <2>1. ans = Ans /\ near = Near
    BY <1>3, <1>5, <1>6 DEF One
  <2>2. listed = Listed /\ lost = forgotten
    BY <1>1, <1>6, <1>n, EntriesStay
  <2>3. open = Open
    BY <1>3, <1>4, <2>1
  <2> HIDE DEF open
  <2>4. /\ near + Listed <= Near + listed
        /\ open + Listed <= Open + listed
        /\ listed + Open + forgotten = Listed + open + lost
    BY <1>2, <1>3, <2>1, <2>2, <2>3
  <2> QED BY <1>1, <1>2, <1>2a, <1>4, <1>n, <2>4, CountedKept
<1>7. CASE m \in Answers
  <2>1. ans + 1 = Ans /\ near + 1 = Near
    BY <1>5, <1>7 DEF One
  <2>2. Near <= Listed /\ Listed = previouslyScanned
    BY <1>1 DEF Counted, Idle, Listed
  <2>3. previouslyScanned \in Nat /\ previouslyScanned # 0
    BY <1>3, <2>1, <2>2
  <2>4. \/ listed + 1 = Listed /\ lost = forgotten
        \/ listed = Listed /\ lost = forgotten + 1
    <3>1. \/ previouslyScanned' = previouslyScanned - 1 /\ forgotten' = forgotten
          \/ UNCHANGED previouslyScanned /\ forgotten' = forgotten + 1
      BY <1>1, <1>7, <2>3 DEF Respond, Erased
    <3>2. ~details' /\ Listed' = previouslyScanned'
      BY <1>1, ProvisioningAssumption DEF Idle, Listed
    <3>3. \/ listed = previouslyScanned - 1 /\ lost = forgotten
          \/ listed = previouslyScanned /\ lost = forgotten + 1
      BY <1>n, <3>1, <3>2
    <3> QED BY <2>2, <2>3, <3>3
  <2>5. open + 1 = Open
    BY <1>3, <1>4, <2>1
  <2> HIDE DEF open
  <2>6. /\ near + Listed <= Near + listed
        /\ open + Listed <= Open + listed
        /\ listed + Open + forgotten = Listed + open + lost
    BY <1>2, <1>3, <2>1, <2>4, <2>5
  <2> QED BY <1>1, <1>2, <1>2a, <1>4, <1>n, <2>6, CountedKept
<1> QED BY <1>6, <1>7

(* A request precedes its entry, and an entry without one is forgotten.    *)
LEMMA CountedDevice ==
  ASSUME TypeOK, TypeOK', Idle, Counted,
         UNCHANGED <<service, device, toDevice, pending>>,
         \/ /\ UNCHANGED <<previouslyScanned, details, forgotten>>
            /\ \/ UNCHANGED fromDevice
               \/ \E m \in FromDevice \ {Request} : DeviceSends(m)
         \/ /\ joined # NoEp /\ ~details /\ details'
            /\ UNCHANGED <<previouslyScanned, forgotten>> /\ DeviceSends(Request)
         \/ Leave
  PROVE  Counted'
<1>n. PICK reqs \in Nat, asks \in Nat, ans \in Nat, near \in Nat, listed \in Nat,
             lost \in Nat :
        /\ reqs = Reqs' /\ asks = Asks' /\ ans = Ans' /\ near = Near'
        /\ listed = Listed' /\ lost = forgotten'
  BY NumbersNext
<1> DEFINE open == reqs + asks + ans
<1>2. open \in Nat /\ open = Open'
  <2>1. open \in Nat
    OBVIOUS
  <2>2. open = Open'
    BY <1>n, NumbersNext
  <2> QED BY <2>1, <2>2
<1>3. /\ Reqs \in Nat /\ Asks \in Nat /\ Ans \in Nat /\ Near \in Nat
      /\ Listed \in Nat /\ forgotten \in Nat
      /\ Open = Reqs + Asks + Ans
  BY Numbers
<1>4. near = Near /\ asks = Asks /\ ans = Ans /\ (Told' <=> Told)
  BY <1>n, QuestionsStay
<1>5. \/ /\ listed = Listed /\ lost = forgotten
         /\ reqs = Reqs \/ (service = "down" /\ reqs = 0)
      \/ /\ listed = Listed + 1 /\ lost = forgotten
         /\ reqs = IF service = "down" THEN 0 ELSE Reqs + 1
      \/ /\ listed = Listed + 1 /\ lost = forgotten + 1
         /\ reqs = Reqs \/ (service = "down" /\ reqs = 0)
  <2>1. ASSUME NEW m \in FromDevice \ {Request}, DeviceSends(m)
        PROVE  reqs = Reqs \/ (service = "down" /\ reqs = 0)
    <3>1. Reqs' = IF service = "down" THEN 0 ELSE Reqs + One(m = Request)
      BY <2>1, RequestSent
    <3>2. One(m = Request) = 0
      BY DEF One
    <3>3. reqs = IF service = "down" THEN 0 ELSE Reqs + 0
      BY <1>n, <3>1, <3>2
    <3> QED BY <1>3, <3>3
  <2>2. CASE UNCHANGED <<previouslyScanned, details, forgotten>>
             /\ UNCHANGED fromDevice
    BY <1>n, <2>2, EntriesStay, QuestionsStay
  <2>3. CASE UNCHANGED <<previouslyScanned, details, forgotten>>
             /\ \E m \in FromDevice \ {Request} : DeviceSends(m)
    BY <1>n, <2>1, <2>3, EntriesStay
  <2>4. CASE /\ joined # NoEp /\ ~details /\ details'
             /\ UNCHANGED <<previouslyScanned, forgotten>> /\ DeviceSends(Request)
    <3>1. Reqs' = IF service = "down" THEN 0 ELSE Reqs + One(Request = Request)
      BY <2>4, MessageTypes, RequestSent
    <3>2. reqs = IF service = "down" THEN 0 ELSE Reqs + 1
      BY <1>n, <3>1 DEF One
    <3>3. Listed = previouslyScanned /\ Listed' = previouslyScanned + 1
      BY <2>4 DEF Listed
    <3>4. listed = Listed + 1 /\ lost = forgotten
      BY <1>n, <2>4, <3>3
    <3> QED BY <3>2, <3>4
  <2>5. CASE Leave
    <3>1. Total(first) \in FromDevice \ {Request}
      BY MessageTypes, Kinds DEF TypeOK
    <3>2. /\ DeviceSends(Total(first)) /\ ~details'
          /\ previouslyScanned' = previouslyScanned + 1
          /\ forgotten' = IF details THEN forgotten ELSE forgotten + 1
      BY <2>5 DEF Leave, ListedAfter
    <3>3. reqs = Reqs \/ (service = "down" /\ reqs = 0)
      BY <2>1, <3>1, <3>2
    <3>4. Listed' = previouslyScanned + 1
      BY <3>2 DEF Listed
    <3>5. listed = previouslyScanned + 1
          /\ lost = IF details THEN forgotten ELSE forgotten + 1
      BY <1>n, <3>2, <3>4
    <3>6. Listed = IF details THEN previouslyScanned + 1 ELSE previouslyScanned
      BY DEF Listed
    <3> QED BY <3>3, <3>5, <3>6
  <2> QED BY <2>2, <2>3, <2>4, <2>5
<1>6. /\ near + Listed <= Near + listed
      /\ open + Listed <= Open + listed
      /\ service # "down" => listed + Open + forgotten = Listed + open + lost
  <2>1. near + Listed <= Near + listed
    BY <1>3, <1>4, <1>5
  <2>2. CASE service = "down"
    BY <1>3, <1>4, <1>5, <2>1, <2>2
  <2>3. CASE service # "down"
    BY <1>3, <1>4, <1>5, <2>1, <2>3
  <2> QED BY <2>2, <2>3
<1> HIDE DEF open
<1>7. Told' /\ service' \in {"starting", "up"} =>
        /\ service \in {"starting", "up"}
        /\ listed + Open + forgotten = Listed + open + lost
  BY <1>6
<1> QED BY <1>2, <1>4, <1>6, <1>7, <1>n, CountedKept

LEMMA CountedScanner ==
  ASSUME TypeOK, TypeOK', Idle, FreshStart, Counted, Scanner
  PROVE  Counted'
<1> USE DEF serviceVars, deviceVars, scanVars, epVars
<1>1. CASE Connect
  BY <1>1, CountedConnect
<1>2. CASE Poll
  BY <1>2, CountedPoll
<1>3. CASE Discard \/ TimeoutReboot \/ PowerLoss
  BY <1>3 DEF Discard, TimeoutReboot, PowerLoss, Restarted, Counted
<1>4. CASE Leave
  BY <1>4, CountedDevice DEF Leave
<1>5. CASE SendPing \/ JoinFails \/ EndScan \/ (\E e \in Ep : Join(e))
           \/ \E found \in SUBSET Ep : BeginScan(found)
  <2>1. UNCHANGED <<service, device, toDevice, pending, previouslyScanned,
                    details, forgotten>>
    BY <1>5 DEF SendPing, JoinFails, EndScan, Join, BeginScan
  <2>2. UNCHANGED fromDevice \/ \E m \in FromDevice \ {Request} : DeviceSends(m)
    <3>1. CASE JoinFails \/ \E e \in Ep : Join(e)
      BY <3>1 DEF JoinFails, Join
    <3>2. CASE SendPing
      BY <3>2, MessageTypes, Kinds DEF SendPing
    <3>3. CASE EndScan
      BY <3>3, MessageTypes, Kinds DEF EndScan
    <3>4. CASE \E found \in SUBSET Ep : BeginScan(found)
      BY <3>4, MessageTypes, Kinds DEF BeginScan
    <3> QED BY <1>5, <3>1, <3>2, <3>3, <3>4
  <2> QED BY <2>1, <2>2, CountedDevice
<1> QED BY <1>1, <1>2, <1>3, <1>4, <1>5 DEF Scanner, DeviceLoop

LEMMA CountedEndpoint ==
  ASSUME TypeOK, TypeOK', Idle, Counted, NEW e \in Ep, Endpoint(e)
  PROVE  Counted'
<1> USE DEF serviceVars, deviceVars, scanVars, epVars
<1>1. /\ UNCHANGED <<service, device, toDevice, pending, previouslyScanned,
                     forgotten>>
      /\ \/ UNCHANGED <<details, fromDevice>>
         \/ joined = e /\ ~details /\ details' /\ DeviceSends(Request)
  BY DEF Endpoint, SendDetails, Reconnect, GiveUp, Disconnect, Reset
<1> QED BY <1>1, ProvisioningAssumption, CountedDevice

-----------------------------------------------------------------------------
(* The invariant.                                                          *)

LEMMA IInvInit == Init => IInv
<1> SUFFICES ASSUME Init PROVE IInv
  OBVIOUS
<1>1. TypeOK
  BY TypeInit
<1>2. Given
  <2>1. Connecting = {}
    BY DEF Init, Connecting
  <2>2. Places(toDevice, Accepted) = {}
    BY PlacesEmpty DEF Init
  <2> QED BY <2>1, <2>2, FS_EmptySet DEF Init, Given
<1> QED BY <1>1, <1>2 DEF Init, IInv, Idle, FreshStart, Counted

LEMMA IInvStep == IInv /\ [Next]_vars => IInv'
<1> SUFFICES ASSUME IInv, [Next]_vars PROVE IInv'
  OBVIOUS
<1>1. TypeOK'
  BY TypeStep DEF IInv
<1>2. Given' /\ Idle' /\ FreshStart'
  BY <1>1, GivenStep, IdleStep, FreshStartStep DEF IInv
<1>3. Counted'
  <2>1. CASE UNCHANGED vars
    <3>1. /\ UNCHANGED <<device, service, forgotten>>
          /\ Near' = Near /\ (Told' <=> Told) /\ Listed' = Listed /\ Open' = Open
      BY <2>1, QuestionsStay, EntriesStay
         DEF vars, serviceVars, deviceVars, scanVars, Open
    <3> QED BY <3>1 DEF Counted, IInv
  <2> QED BY <1>1, <2>1, CountedService, CountedScanner, CountedEndpoint DEF IInv, Next
<1> QED BY <1>1, <1>2, <1>3 DEF IInv

(* The inductive invariant.                                                *)
THEOREM ProvisioningInvariant == Spec => []IInv
BY IInvInit, IInvStep, PTL DEF Spec

(* Endpoints store credentials at most as often as the user accepted one:  *)
(* every accept is on the line, in the connection to an endpoint, or       *)
(* stored, and none is two of these.  Whose it is the code does not say,   *)
(* and nor does this: all endpoints answer to one name.                    *)
THEOREM StoredIfAccepted == Spec => []ConfiguredIfAccepted
<1>1. IInv => ConfiguredIfAccepted
  <2> SUFFICES ASSUME IInv PROVE saved <= yes
    BY DEF ConfiguredIfAccepted
  <2>1. saved + Conns + Accs <= yes
    BY DEF IInv, Given, Conns, Accs
  <2>2. saved \in Nat /\ yes \in Nat /\ Conns \in Nat /\ Accs \in Nat
    BY ConnsType, Numbers DEF IInv, TypeOK
  <2> QED BY <2>1, <2>2
<1> QED BY <1>1, ProvisioningInvariant, PTL

(* The device erases no name from previouslyScanned that is not there.     *)
THEOREM ErasedIsListed == Spec => []NameIsListed
<1>1. IInv => NameIsListed
  <2> SUFFICES ASSUME IInv, device = "up", ~busy, toDevice # <<>>,
                      Head(toDevice) \in Answers
               PROVE  previouslyScanned > 0
    BY DEF NameIsListed
  <2>1. Head(toDevice) # Hello
    BY Kinds DEF Answers
  <2>2. 1 \in Ahead(toDevice, Answers)
    <3>1. /\ Head(toDevice) = toDevice[1] /\ 1 \in 1..Len(toDevice)
          /\ 1..1 = {1}
      BY HeadTailProperties, EmptySeq DEF IInv, TypeOK
    <3> QED BY <2>1, <3>1 DEF Ahead, Places
  <2>3. IsFiniteSet(Ahead(toDevice, Answers))
    <3>1. IsFiniteSet(Places(toDevice, Answers))
      BY PlacesFinite DEF IInv, TypeOK
    <3> QED BY <3>1, FS_Subset DEF Ahead
  <2>4. Near # 0
    BY <2>2, <2>3, FS_EmptySet DEF Near
  <2>5. Near <= Listed /\ Listed = previouslyScanned
    BY DEF IInv, Counted, Idle, Listed
  <2>6. Near \in Nat /\ Listed \in Nat
    BY Numbers DEF IInv
  <2> QED BY <2>4, <2>5, <2>6
<1> QED BY <1>1, ProvisioningInvariant, PTL

(* An entry that keeps all endpoints from being offered has a question open*)
(* of its own, or it was lost in one of the ways that forgotten names, and *)
(* every question has its entry: for any endpoints, restarts and orders of *)
(* scans and answers.                                                      *)
THEOREM NobodyIsForgotten == Spec => []NotForgotten
<1>1. IInv => NotForgotten
  BY DEF IInv, Counted, NotForgotten, Linked, Told, Never
<1> QED BY <1>1, ProvisioningInvariant, PTL

-----------------------------------------------------------------------------
(* One scan at a time: the safety that ScanEnds rests on.  Between two ends*)
(* that are in step there is exactly one scan for a service that is        *)
(* scanning, asked for, to begin, going on or finished, and otherwise none.*)

Asked  == Cardinality(Places(toDevice, {Scan}))
Over   == Cardinality(Places(fromDevice, {Finished}))
Underway == Asked + One(shouldScan) + One(busy) + Over

InStep == device = "up" /\ Never(toDevice, {Hello})

OneScan ==
  InStep /\ service = "up" =>
    /\ Underway <= One(scanning)
    /\ ~joinFailed => Underway = One(scanning)

ScanInv ==
  /\ service = "starting" => ~scanning
  /\ device = "waiting" => ~shouldScan
  /\ InStep /\ service = "starting" => Underway = 0
  /\ OneScan

LEMMA UnderwayType ==
  ASSUME TypeOK
  PROVE  /\ Asked \in Nat /\ Over \in Nat
         /\ \A b \in BOOLEAN : One(b) \in {0, 1}
         /\ One(TRUE) = 1 /\ One(FALSE) = 0
         /\ Underway \in Nat
<1>1. Asked \in Nat /\ Over \in Nat
  BY PlacesFinite DEF TypeOK, Asked, Over
<1>2. One(shouldScan) \in {0, 1} /\ One(busy) \in {0, 1}
  BY DEF One
<1>3. Underway \in Nat
  BY <1>1, <1>2 DEF Underway
<1> QED BY <1>1, <1>3 DEF One

LEMMA UnderwayTypeNext ==
  ASSUME TypeOK'
  PROVE  Asked' \in Nat /\ Over' \in Nat /\ Underway' \in Nat
<1>1. Asked' \in Nat /\ Over' \in Nat
  BY PlacesFinite DEF TypeOK, Asked, Over
<1>2. One(shouldScan') \in {0, 1} /\ One(busy') \in {0, 1}
  BY DEF One
<1> QED BY <1>1, <1>2 DEF Underway

LEMMA AskedSent ==
  ASSUME TypeOK, NEW m \in FromService, ServiceSends(m)
  PROVE  /\ Asked' = Asked + One(m = Scan)
         /\ Never(toDevice', {Hello}) => Never(toDevice, {Hello}) /\ m # Hello
<1>1. Cardinality(Places(Append(toDevice, m), {Scan}))
        = Cardinality(Places(toDevice, {Scan})) + (IF m \in {Scan} THEN 1 ELSE 0)
  BY CountAppend DEF TypeOK
<1>2. Never(Append(toDevice, m), {Hello}) <=> Never(toDevice, {Hello}) /\ m \notin {Hello}
  BY NeverAppend DEF TypeOK
<1> QED BY <1>1, <1>2 DEF Asked, One, ServiceSends

LEMMA AskedRead ==
  ASSUME TypeOK, toDevice # <<>>, toDevice' = Tail(toDevice)
  PROVE  /\ Asked' + One(Head(toDevice) = Scan) = Asked
         /\ Never(toDevice', {Hello}) /\ Head(toDevice) # Hello => Never(toDevice, {Hello})
<1>1. Cardinality(Places(Tail(toDevice), {Scan}))
        + (IF Head(toDevice) \in {Scan} THEN 1 ELSE 0)
          = Cardinality(Places(toDevice, {Scan}))
  BY CountTail DEF TypeOK
<1>2. Never(Tail(toDevice), {Hello}) /\ Head(toDevice) \notin {Hello}
        => Never(toDevice, {Hello})
  BY NeverTail DEF TypeOK
<1> QED BY <1>1, <1>2 DEF Asked, One

LEMMA OverSent ==
  ASSUME TypeOK, NEW m \in FromDevice, DeviceSends(m), service # "down"
  PROVE  Over' = Over + One(m = Finished)
<1>1. Cardinality(Places(Append(fromDevice, m), {Finished}))
        = Cardinality(Places(fromDevice, {Finished}))
            + (IF m \in {Finished} THEN 1 ELSE 0)
  BY CountAppend DEF TypeOK
<1> QED BY <1>1 DEF Over, One, DeviceSends

LEMMA OverRead ==
  ASSUME TypeOK, fromDevice # <<>>, fromDevice' = Tail(fromDevice)
  PROVE  Over' + One(Head(fromDevice) = Finished) = Over
<1>1. Cardinality(Places(Tail(fromDevice), {Finished}))
        + (IF Head(fromDevice) \in {Finished} THEN 1 ELSE 0)
          = Cardinality(Places(fromDevice, {Finished}))
  BY CountTail DEF TypeOK
<1> QED BY <1>1 DEF Over, One

(* A step that moves a scan from one place to the next.                    *)
LEMMA ScanKept ==
  ASSUME ScanInv, device' = device, scanning' = scanning,
         service' \in {"starting", "up"} => service' = service,
         device = "waiting" => shouldScan' = shouldScan,
         InStep' => InStep,
         InStep /\ service' \in {"starting", "up"} => Underway' = Underway,
         joinFailed' = joinFailed
  PROVE  ScanInv'
BY DEF ScanInv, OneScan

LEMMA ScanService ==
  ASSUME TypeOK, Idle, ScanInv, Service
  PROVE  ScanInv'
<1> USE DEF serviceVars, deviceVars, scanVars, epVars
<1>1. CASE Start
  <2>1. /\ ServiceSends(Hello) /\ service' = "starting" /\ scanning' = FALSE
        /\ UNCHANGED <<device, shouldScan>>
    BY <1>1 DEF Start, Idle, TypeOK
  <2>2. ~Never(toDevice', {Hello})
    BY <2>1, MessageTypes, AskedSent
  <2> QED BY <2>1, <2>2 DEF ScanInv, OneScan, InStep
<1>2. CASE Stop
  BY <1>2 DEF Stop, ScanInv, OneScan
<1>3. CASE Initialize
  <2>1. /\ service = "starting" /\ fromDevice # <<>> /\ fromDevice' = Tail(fromDevice)
        /\ service' = IF Head(fromDevice) = Hello THEN "up" ELSE "stuck"
        /\ UNCHANGED <<toDevice, device, shouldScan, busy, scanning, joinFailed>>
    BY <1>3 DEF Initialize
  <2>2. CASE Head(fromDevice) # Hello
    BY <2>1, <2>2 DEF ScanInv, OneScan
  <2>3. CASE Head(fromDevice) = Hello
    <3>1. Over' = Over
      <4>1. (Head(fromDevice) = Finished) = FALSE
        BY <2>3, Kinds
      <4>2. Over' + 0 = Over
        <5>1. Over' + (IF Head(fromDevice) = Finished THEN 1 ELSE 0) = Over
          BY <2>1, OverRead DEF One
        <5> QED BY <4>1, <5>1
      <4>3. Over \in Nat /\ Over' \in Nat
        <5>1. fromDevice' \in Seq(FromDevice)
          BY <2>1, HeadTailProperties DEF TypeOK
        <5>2. Over' \in Nat
          BY <5>1, PlacesFinite DEF Over
        <5> QED BY <5>2, UnderwayType
      <4> QED BY <4>2, <4>3 DEF Over
    <3>2. Underway' = Underway /\ (InStep' <=> InStep)
      BY <2>1, <3>1 DEF Underway, Asked, InStep
    <3>3. InStep' => Underway' = One(FALSE)
      BY <2>1, <3>2 DEF ScanInv, One
    <3>4. scanning' = FALSE
      BY <2>1 DEF ScanInv, TypeOK
    <3>5. Underway' <= Underway'
      BY <3>2, UnderwayType
    <3> QED BY <2>1, <2>3, <3>3, <3>4, <3>5 DEF ScanInv, OneScan
  <2> QED BY <2>2, <2>3
<1>4. CASE Receive
  <2> DEFINE m == Head(fromDevice)
  <2>1. /\ service = "up" /\ fromDevice # <<>> /\ fromDevice' = Tail(fromDevice)
        /\ service' = IF m \in {Hello, Noise} THEN "deaf" ELSE "up"
        /\ scanning' = (scanning /\ m # Finished)
        /\ UNCHANGED <<toDevice, device, shouldScan, busy, joinFailed>>
    BY <1>4 DEF Receive, ScanningOver
  <2>2. /\ Over' + One(m = Finished) = Over /\ Over \in Nat /\ Over' \in Nat
        /\ One(TRUE) = 1 /\ One(FALSE) = 0
    <3>1. fromDevice' \in Seq(FromDevice)
      BY <2>1, HeadTailProperties DEF TypeOK
    <3>2. Over' \in Nat
      BY <3>1, PlacesFinite DEF Over
    <3> QED BY <2>1, <3>2, OverRead, UnderwayType
  <2>3. InStep' <=> InStep
    BY <2>1 DEF InStep
  <2>4. Underway = Underway' + One(m = Finished)
    <3>1. Asked' = Asked /\ Asked \in Nat
      BY <2>1, UnderwayType DEF Asked
    <3>2. One(shouldScan) \in {0, 1} /\ One(busy) \in {0, 1}
      BY DEF One
    <3>3. One(m = Finished) \in {0, 1}
      BY DEF One
    <3> HIDE DEF m
    <3> QED BY <2>1, <2>2, <3>1, <3>2, <3>3 DEF Underway
  <2>5. CASE m = Finished
    <3>1. scanning' = FALSE /\ One(m = Finished) = 1
      BY <2>1, <2>5 DEF One
    <3>2. Underway' \in Nat
      <4>1. TypeOK'
        BY ServiceType
      <4> QED BY <4>1, UnderwayTypeNext
    <3>3. One(scanning) \in {0, 1} /\ One(FALSE) = 0
      BY DEF One
    <3>4. InStep /\ service = "up" => Underway <= One(scanning)
      BY DEF ScanInv, OneScan
    <3>5. InStep => Underway' = 0
      BY <2>1, <2>4, <3>1, <3>2, <3>3, <3>4
    <3>6. One(scanning') = 0
      BY <3>1 DEF One
    <3>7. OneScan'
      BY <2>1, <2>3, <3>5, <3>6 DEF OneScan
    <3> QED BY <2>1, <3>1, <3>7 DEF ScanInv
  <2>6. CASE m # Finished
    <3>1. One(m = Finished) = 0
      BY <2>6 DEF One
    <3>2. Underway' \in Nat
      <4>1. TypeOK'
        BY ServiceType
      <4> QED BY <4>1, UnderwayTypeNext
    <3>3. Underway' = Underway
      BY <2>4, <3>1, <3>2
    <3>4. scanning' = scanning
      BY <2>1, <2>6 DEF TypeOK
    <3> QED BY <2>1, <2>3, <3>3, <3>4, ScanKept
  <2> QED BY <2>5, <2>6
<1>5. CASE Garbage
  BY <1>5 DEF Garbage, ScanInv, OneScan
<1>6. CASE PressScan
  <2>1. /\ service \in {"up", "deaf"} /\ scanning' = TRUE
        /\ scanning => UNCHANGED toDevice
        /\ ~scanning => ServiceSends(Scan)
        /\ UNCHANGED <<service, fromDevice, device, shouldScan, busy, joinFailed>>
    BY <1>6 DEF PressScan
  <2>2. CASE scanning
    <3>1. scanning' = scanning /\ Underway' = Underway /\ (InStep' <=> InStep)
      BY <2>1, <2>2 DEF TypeOK, Underway, Asked, Over, InStep
    <3> QED BY <2>1, <3>1, ScanKept
  <2>3. CASE ~scanning
    <3>1. Asked' = Asked + 1 /\ (InStep' => InStep)
      <4>1. Scan \in FromService
        BY MessageTypes
      <4>2. Asked' = Asked + One(Scan = Scan) /\ (InStep' => InStep)
        BY <2>1, <2>3, <4>1, AskedSent DEF InStep
      <4> QED BY <4>2 DEF One
    <3>2. Underway' = Underway + 1 /\ Underway \in Nat
      <4>1. One(shouldScan) \in {0, 1} /\ One(busy) \in {0, 1}
        BY DEF One
      <4>2. Over' = Over
        BY <2>1 DEF Over
      <4> QED BY <2>1, <3>1, <4>1, <4>2, UnderwayType DEF Underway
    <3>3. InStep /\ service = "up" =>
            Underway <= 0 /\ (~joinFailed => Underway = 0)
      BY <2>3 DEF ScanInv, OneScan, One
    <3>4. InStep' /\ service' = "up" =>
            Underway' <= 1 /\ (~joinFailed => Underway' = 1)
      BY <2>1, <3>1, <3>2, <3>3
    <3>5. One(scanning') = 1
      BY <2>1 DEF One
    <3> QED BY <2>1, <3>4, <3>5 DEF ScanInv, OneScan
  <2> QED BY <2>2, <2>3
<1>7. ASSUME NEW r \in pending, NEW a \in BOOLEAN, Answer(r, a)
      PROVE  ScanInv'
  <2>1. UNCHANGED <<service, fromDevice, device, shouldScan, busy, scanning, joinFailed>>
    BY <1>7 DEF Answer
  <2>2. (InStep' => InStep) /\ Asked' = Asked
    <3>1. CASE ~r.asks
      BY <1>7, <2>1, <3>1 DEF Answer, InStep, Asked
    <3>2. CASE r.asks
      <4> DEFINE m == IF a THEN Accept ELSE Reject
      <4>1. ServiceSends(m) /\ m \in FromService
        BY <1>7, <3>2, MessageTypes DEF Answer
      <4>2. (m = Scan) = FALSE
        BY Kinds
      <4> HIDE DEF m
      <4>3. Asked' = Asked + One(FALSE) /\ (InStep' => InStep)
        BY <2>1, <4>1, <4>2, AskedSent DEF InStep
      <4> QED BY <4>3, UnderwayType DEF One
    <3> QED BY <3>1, <3>2
  <2>3. Underway' = Underway
    BY <2>1, <2>2 DEF Underway, Over
  <2> QED BY <2>1, <2>2, <2>3, ScanKept
<1> QED BY <1>1, <1>2, <1>3, <1>4, <1>5, <1>6, <1>7 DEF Service, ServiceLoop

LEMMA ScanConnect ==
  ASSUME TypeOK, Idle, FreshStart, ScanInv, Connect
  PROVE  ScanInv'
<1> USE DEF serviceVars, deviceVars, scanVars, epVars
<1>1. /\ device = "waiting" /\ toDevice # <<>> /\ toDevice' = Tail(toDevice)
      /\ device' = IF Head(toDevice) = Hello THEN "up" ELSE "deaf"
      /\ DeviceSends(Hello)
      /\ UNCHANGED <<service, scanning, shouldScan, busy, joinFailed>>
  BY DEF Connect
<1>2. shouldScan = FALSE /\ busy = FALSE
  BY <1>1 DEF ScanInv, Idle, TypeOK
<1>3. CASE Head(toDevice) # Hello
  BY <1>1, <1>3 DEF ScanInv, OneScan, InStep
<1>4. CASE Head(toDevice) = Hello
  <2>1. /\ fromDevice = <<>> /\ service \in {"starting", "down"}
        /\ \A i \in 1..Len(toDevice) : toDevice[i] = Hello
    BY <1>1, <1>4 DEF FreshStart
  <2> SUFFICES ASSUME service = "starting" PROVE Underway' = 0
    BY <1>1, <2>1 DEF ScanInv, OneScan
  <2>2. Asked' = 0
    <3>1. /\ Len(toDevice') = Len(toDevice) - 1
          /\ \A i \in 1..Len(toDevice') : toDevice'[i] = toDevice[i + 1]
          /\ Len(toDevice) \in Nat
      BY <1>1, HeadTailProperties, EmptySeq DEF TypeOK
    <3>2. Places(toDevice', {Scan}) = {}
      BY <2>1, <3>1, Kinds DEF Places
    <3> QED BY <3>2, FS_EmptySet DEF Asked
  <2>3. Over' = 0
    <3>1. Hello \in FromDevice /\ (Hello = Finished) = FALSE
      BY MessageTypes, Kinds
    <3>2. Over' = Over + One(Hello = Finished)
      BY <1>1, <3>1, OverSent
    <3>3. Over = 0
      BY <2>1, PlacesEmpty DEF Over
    <3> QED BY <3>1, <3>2, <3>3 DEF One
  <2> QED BY <1>1, <1>2, <2>2, <2>3 DEF Underway, One
<1> QED BY <1>3, <1>4

LEMMA ScanPoll ==
  ASSUME TypeOK, Idle, ScanInv, Poll
  PROVE  ScanInv'
<1> USE DEF serviceVars, deviceVars, scanVars, epVars
<1> DEFINE m == Head(toDevice)
<1>1. /\ device = "up" /\ toDevice # <<>> /\ toDevice' = Tail(toDevice)
      /\ device' = IF m = Hello THEN "deaf" ELSE "up"
      /\ shouldScan' = (shouldScan \/ m = Scan)
      /\ UNCHANGED <<service, fromDevice, busy, scanning, joinFailed>>
  BY DEF Poll
<1>2. CASE m = Hello
  BY <1>1, <1>2 DEF ScanInv, OneScan, InStep
<1>3. CASE m # Hello
  <2>1. device' = device /\ (InStep' => InStep)
    BY <1>1, <1>3, AskedRead DEF InStep
  <2>2. /\ m = Scan => Asked' + 1 = Asked
        /\ m # Scan => Asked' = Asked
        /\ Asked' \in Nat /\ Asked \in Nat
    <3>1. toDevice' \in Seq(FromService)
      BY <1>1, HeadTailProperties DEF TypeOK
    <3>2. Asked' \in Nat
      BY <3>1, PlacesFinite DEF Asked
    <3>3. Asked' + (IF m = Scan THEN 1 ELSE 0) = Asked
      BY <1>1, AskedRead DEF One
    <3> HIDE DEF m
    <3> QED BY <3>2, <3>3, UnderwayType
  <2>3. Over' = Over /\ Over \in Nat
    BY <1>1, UnderwayType DEF Over
  <2>4. One(busy) \in {0, 1} /\ One(busy') = One(busy)
    BY <1>1 DEF One
  <2>5. m = Scan /\ shouldScan => Underway >= 2
    <3> SUFFICES ASSUME m = Scan, shouldScan PROVE Underway >= 2
      OBVIOUS
    <3>1. Asked >= 1 /\ One(shouldScan) = 1
      BY <2>2 DEF One, Asked
    <3>2. Asked \in Nat /\ Over \in Nat /\ One(busy) \in {0, 1}
      BY UnderwayType DEF One
    <3> QED BY <3>1, <3>2 DEF Underway, One
  <2>6. m = Scan /\ shouldScan =>
          ~(InStep /\ service \in {"starting", "up"})
    <3>1. One(scanning) \in {0, 1} /\ Underway \in Nat
      BY UnderwayType DEF One
    <3>2. InStep /\ service \in {"starting", "up"} => Underway <= 1
      BY <3>1 DEF ScanInv, OneScan
    <3> QED BY <2>5, <3>1, <3>2
  <2>7. ~(m = Scan /\ shouldScan) => Underway' = Underway
    <3>1. CASE m # Scan
      <4>1. shouldScan' = shouldScan /\ Asked' = Asked
        BY <1>1, <2>2, <3>1 DEF TypeOK
      <4> QED BY <1>1, <2>3, <4>1 DEF Underway
    <3>2. CASE m = Scan /\ ~shouldScan
      <4>1. One(shouldScan) = 0 /\ One(shouldScan') = 1 /\ Asked' + 1 = Asked
        BY <1>1, <2>2, <3>2 DEF One
      <4> QED BY <2>2, <2>3, <2>4, <4>1 DEF Underway, Asked
    <3> QED BY <3>1, <3>2
  <2> QED BY <1>1, <2>1, <2>6, <2>7, ScanKept
<1> QED BY <1>2, <1>3

LEMMA ScanScanner ==
  ASSUME TypeOK, Idle, FreshStart, ScanInv, Scanner
  PROVE  ScanInv'
<1> USE DEF serviceVars, deviceVars, scanVars, epVars
<1>1. CASE TimeoutReboot \/ PowerLoss
  BY <1>1 DEF TimeoutReboot, PowerLoss, Restarted, ScanInv, OneScan, InStep
<1>2. CASE Discard
  BY <1>2 DEF Discard, ScanInv, OneScan, InStep
<1>3. One(shouldScan) \in {0, 1} /\ One(busy) \in {0, 1} /\ Over \in Nat /\ Asked \in Nat
  BY UnderwayType DEF One
<1>4. CASE SendPing \/ Leave
  <2>1. /\ UNCHANGED <<service, scanning, device, toDevice, shouldScan, busy, joinFailed>>
        /\ \E m \in FromDevice : m # Finished /\ DeviceSends(m)
    BY <1>4, MessageTypes, Kinds DEF SendPing, Leave, TypeOK
  <2>2. service # "down" => Over' = Over
    BY <1>3, <2>1, OverSent DEF One
  <2>3. (InStep' <=> InStep) /\ (service # "down" => Underway' = Underway)
    BY <2>1, <2>2 DEF InStep, Underway, Asked
  <2> QED BY <2>1, <2>3, ScanKept
<1>5. ASSUME NEW found \in SUBSET Ep, BeginScan(found)
      PROVE  ScanInv'
  <2>1. /\ UNCHANGED <<service, scanning, device, toDevice, joinFailed>>
        /\ shouldScan /\ ~busy /\ shouldScan' = FALSE /\ busy' = TRUE
        /\ DeviceSends(Total(networks' = 0)) /\ device = "up"
    BY <1>5 DEF BeginScan
  <2>2. service # "down" => Over' = Over
    <3> DEFINE m == Total(networks' = 0)
    <3>1. m \in FromDevice /\ m # Finished
      BY MessageTypes, Kinds
    <3> HIDE DEF m
    <3>2. service # "down" => Over' = Over + One(m = Finished)
      BY <2>1, <3>1, OverSent DEF m
    <3> QED BY <1>3, <3>1, <3>2 DEF One
  <2>3. /\ One(shouldScan) = 1 /\ One(busy) = 0
        /\ One(shouldScan') = 0 /\ One(busy') = 1
    BY <2>1 DEF One
  <2>4. (InStep' <=> InStep) /\ (service # "down" => Underway' = Underway)
    <3>1. Asked' = Asked /\ (InStep' <=> InStep)
      BY <2>1 DEF Asked, InStep
    <3>2. service # "down" => Underway' = Underway
      BY <1>3, <2>2, <2>3, <3>1 DEF Underway
    <3> QED BY <3>1, <3>2
  <2> QED BY <2>1, <2>4, ScanKept
<1>6. ASSUME NEW d \in Ep, Join(d)
      PROVE  ScanInv'
  <2>1. UNCHANGED <<service, scanning, device, toDevice, fromDevice, shouldScan, busy, joinFailed>>
    BY <1>6 DEF Join
  <2> QED BY <2>1, ScanKept DEF InStep, Underway, Asked, Over
<1>7. CASE JoinFails
  <2>1. /\ UNCHANGED <<service, scanning, device, toDevice, fromDevice, shouldScan>>
        /\ busy /\ busy' = FALSE /\ joinFailed' = TRUE
    BY <1>7 DEF JoinFails
  <2>2. One(busy) = 1 /\ One(busy') = 0
    BY <2>1 DEF One
  <2>3. /\ InStep' <=> InStep
        /\ Underway' + 1 = Underway /\ Underway' \in Nat
    <3>1. /\ Asked' = Asked /\ Over' = Over /\ One(shouldScan') = One(shouldScan)
          /\ InStep' <=> InStep
      BY <2>1 DEF Asked, Over, InStep
    <3>2. Underway' + 1 = Underway /\ Underway' \in Nat
      BY <1>3, <2>2, <3>1 DEF Underway
    <3> QED BY <3>1, <3>2
  <2>4. One(scanning) \in {0, 1}
    BY DEF One
  <2>5. One(scanning') = One(scanning)
    BY <2>1
  <2>6. InStep /\ service = "up" => Underway' <= One(scanning')
    BY <2>3, <2>4, <2>5 DEF ScanInv, OneScan
  <2>7. ~(InStep /\ service = "starting")
    BY <2>3 DEF ScanInv
  <2> QED BY <2>1, <2>3, <2>6, <2>7 DEF ScanInv, OneScan
<1>8. CASE EndScan
  <2>1. /\ UNCHANGED <<service, scanning, device, toDevice, shouldScan, joinFailed>>
        /\ busy /\ busy' = FALSE /\ DeviceSends(Finished)
    BY <1>8 DEF EndScan
  <2>2. service # "down" => Over' = Over + 1
    BY <2>1, MessageTypes, OverSent DEF One
  <2>3. One(busy) = 1 /\ One(busy') = 0
    BY <2>1 DEF One
  <2>4. (InStep' <=> InStep) /\ (service # "down" => Underway' = Underway)
    <3>1. Asked' = Asked /\ (InStep' <=> InStep) /\ One(shouldScan') = One(shouldScan)
      BY <2>1 DEF Asked, InStep
    <3>2. service # "down" => Underway' = Underway
      BY <1>3, <2>2, <2>3, <3>1 DEF Underway
    <3> QED BY <3>1, <3>2
  <2> QED BY <2>1, <2>4, ScanKept
<1> QED BY <1>1, <1>2, <1>4, <1>5, <1>6, <1>7, <1>8, ScanConnect, ScanPoll
        DEF Scanner, DeviceLoop

LEMMA ScanEndpoint ==
  ASSUME TypeOK, ScanInv, NEW e \in Ep, Endpoint(e)
  PROVE  ScanInv'
<1> USE DEF serviceVars, deviceVars, scanVars, epVars
<1>1. UNCHANGED <<service, scanning, device, toDevice, shouldScan, busy, joinFailed>>
  BY DEF Endpoint, SendDetails, Reconnect, GiveUp, Disconnect, Reset
<1>2. service # "down" => Over' = Over
  <2>1. CASE UNCHANGED fromDevice
    BY <2>1 DEF Over
  <2>2. CASE DeviceSends(Request)
    <3>1. Request \in FromDevice /\ (Request = Finished) = FALSE
      BY MessageTypes, Kinds
    <3>2. service # "down" => Over' = Over + One(FALSE)
      BY <2>2, <3>1, OverSent
    <3> QED BY <3>2, UnderwayType DEF One
  <2> QED BY <2>1, <2>2 DEF Endpoint, SendDetails, Reconnect, GiveUp, Disconnect, Reset
<1> QED BY <1>1, <1>2, ScanKept DEF InStep, Underway, Asked

LEMMA ScanInvStep == IInv /\ ScanInv /\ [Next]_vars => ScanInv'
<1> SUFFICES ASSUME IInv, ScanInv, [Next]_vars PROVE ScanInv'
  OBVIOUS
<1>1. CASE UNCHANGED vars
  BY <1>1 DEF vars, serviceVars, deviceVars, scanVars, ScanInv, OneScan, InStep,
     Underway, Asked, Over
<1> QED BY <1>1, ScanService, ScanScanner, ScanEndpoint DEF IInv, Next

(* The safety that ScanEnds rests on: as long as service and device are in *)
(* step, a service that is scanning has exactly one scan on its way - to   *)
(* the device, waiting there, going on, or finished and on its way back -  *)
(* and one that is not scanning has none; so a scan neither vanishes nor   *)
(* overlaps another, unless a network could not be joined, after which     *)
(* there is none any more and the service shows one for ever.              *)
THEOREM OneScanAtATime == Spec => []OneScan
<1>1. Init => ScanInv
  BY DEF Init, ScanInv, OneScan, InStep
<1>2. ScanInv => OneScan
  BY DEF ScanInv
<1> QED BY <1>1, <1>2, ScanInvStep, ProvisioningInvariant, PTL DEF Spec

-----------------------------------------------------------------------------
(* The link: two ends in step fall out of it by a restart only.            *)

Marks == {Hello, Noise}

LinkInv ==
  InStep =>
    /\ service = "starting" => /\ fromDevice # <<>> /\ Head(fromDevice) = Hello
                               /\ Never(Tail(fromDevice), Marks)
    /\ service = "up" => Never(fromDevice, Marks)

LinkHolds ==
  [][Linked /\ Never(toDevice, {Hello})
       => (Linked /\ Never(toDevice, {Hello}))' \/ faults' = faults + 1]_vars

LEMMA HeadStays ==
  ASSUME TypeOK, NEW m \in FromDevice, fromDevice' = Append(fromDevice, m),
         fromDevice # <<>>
  PROVE  /\ fromDevice' # <<>> /\ Head(fromDevice') = Head(fromDevice)
         /\ Tail(fromDevice') = Append(Tail(fromDevice), m)
         /\ Tail(fromDevice) \in Seq(FromDevice)
<1> DEFINE f == fromDevice
<1>1. f \in Seq(FromDevice) /\ Len(f) \in Nat /\ Len(f) > 0 /\ Head(f) = f[1]
      /\ Tail(f) \in Seq(FromDevice) /\ Len(Tail(f)) = Len(f) - 1
      /\ \A i \in 1..Len(Tail(f)) : Tail(f)[i] = f[i + 1]
  BY HeadTailProperties, EmptySeq DEF TypeOK
<1>2. /\ f' \in Seq(FromDevice) /\ f' # <<>> /\ Len(f') = Len(f) + 1
      /\ \A i \in 1..Len(f) : f'[i] = f[i]
      /\ f'[Len(f) + 1] = m
  BY <1>1, AppendProperties
<1>3. /\ Head(f') = f'[1] /\ Tail(f') \in Seq(FromDevice)
      /\ Len(Tail(f')) = Len(f') - 1
      /\ \A i \in 1..Len(Tail(f')) : Tail(f')[i] = f'[i + 1]
  BY <1>2, HeadTailProperties
<1>4. Head(f') = Head(f)
  BY <1>1, <1>2, <1>3
<1>5. LET g == Append(Tail(f), m)
      IN  /\ g \in Seq(FromDevice) /\ Len(g) = Len(f)
          /\ \A i \in 1..Len(Tail(f)) : g[i] = Tail(f)[i]
          /\ g[Len(f)] = m
  BY <1>1, AppendProperties
<1>6. Tail(f') = Append(Tail(f), m)
  <2> DEFINE g == Append(Tail(f), m)
             h == Tail(f')
  <2>1. Len(h) = Len(g) /\ g \in Seq(FromDevice) /\ h \in Seq(FromDevice)
    BY <1>1, <1>2, <1>3, <1>5
  <2>2. ASSUME NEW i \in 1..Len(g)
        PROVE  h[i] = g[i]
    <3>1. i \in 1..Len(f) /\ h[i] = f'[i + 1]
      BY <1>1, <1>2, <1>3, <1>5
    <3>2. CASE i = Len(f)
      BY <1>2, <1>5, <3>1, <3>2
    <3>3. CASE i # Len(f)
      <4>1. i \in 1..Len(Tail(f)) /\ i + 1 \in 1..Len(f)
        <5> DEFINE n == Len(f)
        <5>1. n \in Nat /\ i \in 1..n /\ i # n /\ Len(Tail(f)) = n - 1
          BY <1>1, <3>1, <3>3
        <5> HIDE DEF n
        <5>2. i \in 1..(n - 1) /\ i + 1 \in 1..n
          BY <5>1
        <5> QED BY <5>1, <5>2 DEF n
      <4> QED BY <1>1, <1>2, <1>5, <3>1, <4>1
    <3> QED BY <3>2, <3>3
  <2> HIDE DEF g, h
  <2>3. h = g
    BY <2>1, <2>2, SeqEqual
  <2> QED BY <2>3 DEF g, h
<1> QED BY <1>1, <1>2, <1>4, <1>6

(* What neither end sends but at a start.                                  *)
LEMMA LinkSent ==
  ASSUME TypeOK, LinkInv, NEW m \in FromDevice \ Marks, DeviceSends(m),
         UNCHANGED <<service, device>>, InStep' => InStep
  PROVE  LinkInv'
<1> SUFFICES ASSUME InStep, service \in {"starting", "up"} PROVE LinkInv'
  BY DEF LinkInv
<1>1. fromDevice' = Append(fromDevice, m) /\ fromDevice \in Seq(FromDevice)
  BY DEF DeviceSends, TypeOK
<1>2. CASE service = "up"
  BY <1>1, <1>2, NeverAppend DEF LinkInv
<1>3. CASE service = "starting"
  <2>1. /\ fromDevice' # <<>> /\ Head(fromDevice') = Hello
        /\ Tail(fromDevice') = Append(Tail(fromDevice), m)
        /\ Tail(fromDevice) \in Seq(FromDevice)
    BY <1>1, <1>3, HeadStays DEF LinkInv
  <2>2. Never(Append(Tail(fromDevice), m), Marks)
    <3>1. Never(Tail(fromDevice), Marks)
      BY <1>3 DEF LinkInv
    <3> QED BY <2>1, <3>1, NeverAppend
  <2> QED BY <1>3, <2>1, <2>2 DEF LinkInv
<1> QED BY <1>2, <1>3

LEMMA LinkKept ==
  ASSUME LinkInv, UNCHANGED <<service, device, fromDevice>>, InStep' => InStep
  PROVE  LinkInv'
BY DEF LinkInv

(* What the service sends when it runs, and what the device reads in step. *)
LEMMA InStepKept ==
  ASSUME TypeOK, [Next]_vars, ~Start, InStep'
  PROVE  InStep \/ Connect
<1> USE DEF serviceVars, deviceVars, scanVars, epVars
<1>1. CASE UNCHANGED <<device, toDevice>>
  BY <1>1 DEF InStep
<1>2. CASE PressScan \/ \E r \in pending, a \in BOOLEAN : Answer(r, a)
  <2>1. device' = device
    BY <1>2 DEF PressScan, Answer
  <2>2. UNCHANGED toDevice \/ \E m \in FromService : ServiceSends(m)
    <3>1. CASE PressScan
      BY <3>1, MessageTypes DEF PressScan
    <3>2. ASSUME NEW r \in pending, NEW a \in BOOLEAN, Answer(r, a)
          PROVE  UNCHANGED toDevice \/ \E m \in FromService : ServiceSends(m)
      BY <3>2, MessageTypes DEF Answer
    <3> QED BY <1>2, <3>1, <3>2
  <2> QED BY <1>1, <2>1, <2>2, AskedSent DEF InStep
<1>3. CASE Poll
  BY <1>3, AskedRead DEF Poll, InStep
<1>4. CASE Discard \/ TimeoutReboot \/ PowerLoss
  BY <1>4 DEF Discard, TimeoutReboot, PowerLoss, Restarted, InStep
<1>5. CASE Stop \/ Initialize \/ Receive \/ Garbage
  BY <1>1, <1>5 DEF Stop, Initialize, Receive, Garbage
<1>6. CASE SendPing \/ JoinFails \/ Leave \/ EndScan
           \/ (\E found \in SUBSET Ep : BeginScan(found)) \/ \E d \in Ep : Join(d)
  BY <1>1, <1>6 DEF SendPing, JoinFails, Leave, EndScan, BeginScan, Join
<1>7. CASE \E e \in Ep : Endpoint(e)
  BY <1>1, <1>7 DEF Endpoint, SendDetails, Reconnect, GiveUp, Disconnect, Reset
<1>8. CASE UNCHANGED vars
  BY <1>1, <1>8 DEF vars
<1> QED BY <1>2, <1>3, <1>4, <1>5, <1>6, <1>7, <1>8
        DEF Next, Service, ServiceLoop, Scanner, DeviceLoop

LEMMA LinkService ==
  ASSUME TypeOK, LinkInv, Service
  PROVE  LinkInv'
<1> USE DEF serviceVars, deviceVars, scanVars, epVars
<1>1. CASE Start
  <2>1. ~Never(toDevice', {Hello})
    BY <1>1, MessageTypes, AskedSent DEF Start
  <2> QED BY <2>1 DEF LinkInv, InStep
<1>2. CASE Stop \/ Garbage
  BY <1>2 DEF Stop, Garbage, LinkInv
<1>3. CASE Initialize
  BY <1>3 DEF Initialize, LinkInv, InStep
<1>4. CASE Receive
  <2>1. /\ service = "up" /\ fromDevice # <<>> /\ fromDevice' = Tail(fromDevice)
        /\ service' \in {"up", "deaf"} /\ UNCHANGED <<device, toDevice>>
    BY <1>4 DEF Receive
  <2>2. Never(fromDevice, Marks) => Never(fromDevice', Marks)
    BY <2>1, NeverTail DEF TypeOK
  <2> QED BY <2>1, <2>2 DEF LinkInv, InStep
<1>5. CASE PressScan \/ \E r \in pending, a \in BOOLEAN : Answer(r, a)
  <2>1. UNCHANGED <<service, device, fromDevice>>
    BY <1>5 DEF PressScan, Answer
  <2>2. ~Start /\ ~Connect
    BY <1>5 DEF PressScan, Answer, Start, Connect, serviceVars
  <2> QED BY <1>5, <2>1, <2>2, InStepKept, LinkKept DEF Next, Service
<1> QED BY <1>1, <1>2, <1>3, <1>4, <1>5 DEF Service, ServiceLoop

LEMMA LinkScanner ==
  ASSUME TypeOK, Idle, FreshStart, LinkInv, Scanner
  PROVE  LinkInv'
<1> USE DEF serviceVars, deviceVars, scanVars, epVars
<1>1. CASE TimeoutReboot \/ PowerLoss
  BY <1>1 DEF TimeoutReboot, PowerLoss, Restarted, LinkInv, InStep
<1>2. CASE Discard
  BY <1>2 DEF Discard, LinkInv, InStep
<1>3. CASE Connect
  <2>1. /\ device = "waiting" /\ toDevice # <<>>
        /\ device' = IF Head(toDevice) = Hello THEN "up" ELSE "deaf"
        /\ DeviceSends(Hello) /\ service' = service
    BY <1>3 DEF Connect
  <2> SUFFICES ASSUME Head(toDevice) = Hello PROVE LinkInv'
    BY <2>1 DEF LinkInv, InStep
  <2>2. fromDevice = <<>> /\ service \in {"starting", "down"}
    BY <2>1 DEF FreshStart
  <2>3. CASE service = "down"
    BY <2>1, <2>3 DEF LinkInv
  <2>4. CASE service = "starting"
    <3>1. fromDevice' = <<Hello>>
      BY <2>1, <2>2, <2>4 DEF DeviceSends
    <3>2. fromDevice' # <<>> /\ Head(fromDevice') = Hello /\ Tail(fromDevice') = <<>>
      BY <3>1
    <3> QED BY <2>1, <2>4, <3>2, PlacesEmpty DEF LinkInv, Never
  <2> QED BY <2>2, <2>3, <2>4
<1>4. CASE Poll
  <2>1. /\ UNCHANGED <<service, fromDevice>> /\ device = "up"
        /\ device' \in {"up", "deaf"} /\ ~Connect /\ ~Start
        /\ toDevice # <<>> /\ toDevice' = Tail(toDevice)
        /\ device' = "up" => Head(toDevice) # Hello
    BY <1>4 DEF Poll, Connect, Start
  <2> SUFFICES ASSUME device' = "up" PROVE LinkInv'
    BY <2>1 DEF LinkInv, InStep
  <2>2. InStep' => InStep
    BY <2>1, AskedRead DEF InStep
  <2> QED BY <2>1, <2>2, LinkKept
<1>5. CASE JoinFails \/ \E d \in Ep : Join(d)
  BY <1>5, LinkKept DEF JoinFails, Join, InStep
<1>6. CASE SendPing \/ Leave \/ EndScan \/ \E found \in SUBSET Ep : BeginScan(found)
  <2>1. UNCHANGED <<service, device, toDevice>>
    BY <1>6 DEF SendPing, Leave, EndScan, BeginScan
  <2>2. \/ DeviceSends(Ping) \/ DeviceSends(Finished)
        \/ \E z \in BOOLEAN : DeviceSends(Total(z))
    <3>1. CASE SendPing \/ EndScan
      BY <3>1 DEF SendPing, EndScan
    <3>2. CASE Leave \/ \E found \in SUBSET Ep : BeginScan(found)
      BY <3>2 DEF Leave, BeginScan, TypeOK
    <3> QED BY <1>6, <3>1, <3>2
  <2>3. \E m \in FromDevice \ Marks : DeviceSends(m)
    BY <2>2, MessageTypes, Kinds DEF Marks
  <2> QED BY <2>1, <2>3, LinkSent DEF InStep
<1> QED BY <1>1, <1>2, <1>3, <1>4, <1>5, <1>6 DEF Scanner, DeviceLoop

LEMMA LinkEndpoint ==
  ASSUME TypeOK, LinkInv, NEW e \in Ep, Endpoint(e)
  PROVE  LinkInv'
<1> USE DEF serviceVars, deviceVars, scanVars, epVars
<1>1. UNCHANGED <<service, device, toDevice>>
  BY DEF Endpoint, SendDetails, Reconnect, GiveUp, Disconnect, Reset
<1>2. CASE UNCHANGED fromDevice
  BY <1>1, <1>2, LinkKept DEF InStep
<1>3. CASE DeviceSends(Request)
  <2>1. Request \in FromDevice \ Marks
    BY MessageTypes, Kinds DEF Marks
  <2> QED BY <1>1, <1>3, <2>1, LinkSent DEF InStep
<1> QED BY <1>2, <1>3 DEF Endpoint, SendDetails, Reconnect, GiveUp, Disconnect, Reset

LEMMA LinkInvStep == IInv /\ LinkInv /\ [Next]_vars => LinkInv'
<1> SUFFICES ASSUME IInv, LinkInv, [Next]_vars PROVE LinkInv'
  OBVIOUS
<1>1. CASE UNCHANGED vars
  BY <1>1 DEF vars, serviceVars, deviceVars, LinkInv, InStep
<1> QED BY <1>1, LinkService, LinkScanner, LinkEndpoint DEF IInv, Next

LEMMA SentInStep ==
  ASSUME TypeOK, Never(toDevice, {Hello}),
         NEW m \in FromService \ {Hello}, ServiceSends(m)
  PROVE  Never(toDevice', {Hello})
<1>1. Never(Append(toDevice, m), {Hello}) <=> Never(toDevice, {Hello}) /\ m \notin {Hello}
  BY NeverAppend DEF TypeOK
<1> QED BY <1>1 DEF ServiceSends

(* Once the two found each other, and no hello of a newer service is on its*)
(* way, nothing but a restart separates them: neither end is thrown out of *)
(* step, and the keep-alive reboots nobody.  LinkComesUp says that they    *)
(* find each other; this, that they stay together.                         *)
THEOREM LinkIsKept == Spec => LinkHolds
<1> USE DEF serviceVars, deviceVars, scanVars, epVars
<1>1. Init => LinkInv
  BY DEF Init, LinkInv, InStep
<1>2. IInv /\ LinkInv /\ [Next]_vars =>
        [Linked /\ Never(toDevice, {Hello})
           => (Linked /\ Never(toDevice, {Hello}))' \/ faults' = faults + 1]_vars
  <2> SUFFICES ASSUME TypeOK, LinkInv, Next, service = "up", InStep,
                      faults' # faults + 1
               PROVE  service' = "up" /\ InStep'
    BY DEF IInv, Linked, InStep
  <2>1. Never(fromDevice, Marks)
    BY DEF LinkInv
  <2>2. service' = "up"
    <3>1. CASE Receive
      <4>1. Head(fromDevice) \notin Marks
        BY <2>1, <3>1, NeverTail DEF Receive, TypeOK
      <4> QED BY <3>1, <4>1 DEF Receive, Marks
    <3>2. CASE Start \/ Stop \/ Initialize \/ Garbage \/ PressScan
               \/ \E r \in pending, a \in BOOLEAN : Answer(r, a)
      BY <3>2 DEF Start, Stop, Initialize, Garbage, PressScan, Answer
    <3>3. CASE Scanner
      BY <3>3 DEF Scanner, DeviceLoop, Connect, SendPing, Poll, Discard, JoinFails, Leave, EndScan,
         TimeoutReboot, PowerLoss, Restarted, BeginScan, Join
    <3>4. CASE \E e \in Ep : Endpoint(e)
      BY <3>4 DEF Endpoint, SendDetails, Reconnect, GiveUp, Disconnect, Reset
    <3> QED BY <3>1, <3>2, <3>3, <3>4 DEF Next, Service, ServiceLoop
  <2>3. InStep'
    <3>1. CASE Poll
      <4>1. toDevice # <<>> /\ toDevice' = Tail(toDevice)
        BY <3>1 DEF Poll
      <4>2. /\ \A i \in Places(toDevice', {Hello}) : i + 1 \in Places(toDevice, {Hello})
            /\ Head(toDevice) = Hello => Places(toDevice, {Hello}) # {}
        BY <4>1, PlacesTail DEF TypeOK
      <4>3. Never(toDevice', {Hello}) /\ Head(toDevice) # Hello
        BY <4>2 DEF InStep, Never
      <4> QED BY <3>1, <4>3 DEF Poll, InStep
    <3>2. CASE PressScan
      <4>1. device' = device /\ (UNCHANGED toDevice \/ ServiceSends(Scan))
        BY <3>2 DEF PressScan
      <4>2. Scan \in FromService \ {Hello}
        BY MessageTypes, Kinds
      <4> QED BY <4>1, <4>2, SentInStep DEF InStep
    <3>3. ASSUME NEW r \in pending, NEW a \in BOOLEAN, Answer(r, a)
          PROVE  InStep'
      <4>1. device' = device
        BY <3>3 DEF Answer
      <4>2. UNCHANGED toDevice \/ \E m \in FromService \ {Hello} : ServiceSends(m)
        BY <3>3, <4>1, MessageTypes, Kinds DEF Answer
      <4> QED BY <4>1, <4>2, SentInStep DEF InStep
    <3>4. CASE Start \/ Connect \/ Discard \/ TimeoutReboot \/ PowerLoss
      BY <3>4 DEF Start, Connect, Discard, TimeoutReboot, PowerLoss, Unanswered, InStep
    <3>5. CASE Stop \/ Initialize \/ Receive \/ Garbage
      BY <3>5 DEF Stop, Initialize, Receive, Garbage, InStep
    <3>6. CASE SendPing \/ JoinFails \/ Leave \/ EndScan
               \/ (\E found \in SUBSET Ep : BeginScan(found)) \/ \E d \in Ep : Join(d)
      BY <3>6 DEF SendPing, JoinFails, Leave, EndScan, BeginScan, Join, InStep
    <3>7. CASE \E e \in Ep : Endpoint(e)
      BY <3>7 DEF Endpoint, SendDetails, Reconnect, GiveUp, Disconnect, Reset, InStep
    <3> QED BY <3>1, <3>2, <3>3, <3>4, <3>5, <3>6, <3>7
            DEF Next, Service, ServiceLoop, Scanner, DeviceLoop
  <2> QED BY <2>2, <2>3
<1> QED BY <1>1, <1>2, LinkInvStep, ProvisioningInvariant, PTL DEF Spec, LinkHolds
-----------------------------------------------------------------------------
(* The link comes up: what LinkComesUp says of single steps.               *)

MeetingGoesOn == [][Meeting => Meeting' \/ Linked' \/ faults' > faults]_vars

(* While the two meet, the device has nothing to do but to answer.         *)
LEMMA MeetingIsQuiet ==
  ASSUME IInv, ScanInv, Meeting
  PROVE  ~busy /\ ~shouldScan /\ joined = NoEp
<1>1. CASE device = "waiting"
  BY <1>1 DEF ScanInv, IInv, Idle
<1>2. CASE device = "up"
  <2>1. service = "starting" /\ toDevice = <<>>
    BY <1>2 DEF Meeting
  <2>2. Underway = 0
    BY <1>2, <2>1, PlacesEmpty DEF ScanInv, InStep, Never
  <2>3. Asked \in Nat /\ Over \in Nat
    BY UnderwayType DEF IInv
  <2>4. One(shouldScan) = 0 /\ One(busy) = 0
    BY <2>2, <2>3 DEF Underway, One
  <2>5. ~shouldScan /\ ~busy
    BY <2>4 DEF One
  <2> QED BY <2>5 DEF IInv, Idle
<1> QED BY <1>1, <1>2 DEF Meeting

LEMMA MeetingStep ==
  ASSUME IInv, ScanInv, Meeting, Next
  PROVE  Meeting' \/ Linked' \/ faults' > faults
<1> USE DEF serviceVars, deviceVars, scanVars, epVars
<1>1. ~busy /\ ~shouldScan /\ joined = NoEp
  BY MeetingIsQuiet
<1>2. /\ service = "starting"
      /\ \/ device = "waiting" /\ toDevice = <<Hello>> /\ fromDevice = <<>>
         \/ device = "up" /\ toDevice = <<>> /\ fromDevice = <<Hello>>
  BY DEF Meeting
<1>3. /\ Head(<<Hello>>) = Hello /\ Tail(<<Hello>>) = <<>> /\ <<Hello>> # <<>>
      /\ Append(<<>>, Hello) = <<Hello>>
  OBVIOUS
<1>4. CASE Service
  <2>1. CASE Stop
    <3>1. faults \in Nat /\ faults' = faults + 1
      BY <2>1, ProvisioningAssumption DEF Stop, IInv, TypeOK
    <3>2. faults + 1 > faults
      BY <3>1
    <3> QED BY <3>1, <3>2
  <2>2. CASE Initialize
    <3>1. device = "up" /\ Head(fromDevice) = Hello
      BY <1>2, <1>3, <2>2 DEF Initialize
    <3> QED BY <2>2, <3>1 DEF Initialize, Linked
  <2>3. ~Start /\ ~Receive /\ ~Garbage /\ ~PressScan
        /\ ~\E r \in pending, a \in BOOLEAN : Answer(r, a)
    BY <1>2 DEF Start, Receive, Garbage, PressScan, Answer
  <2> QED BY <1>4, <2>1, <2>2, <2>3 DEF Service, ServiceLoop
<1>5. CASE Scanner
  <2>1. CASE Connect
    <3>1. /\ device = "waiting" /\ toDevice = <<Hello>> /\ fromDevice = <<>>
          /\ service = "starting"
      BY <1>2, <2>1 DEF Connect
    <3>2. /\ device' = "up" /\ toDevice' = <<>> /\ fromDevice' = <<Hello>>
          /\ service' = "starting"
      BY <1>3, <2>1, <3>1 DEF Connect, DeviceSends
    <3> QED BY <3>2 DEF Meeting
  <2>2. CASE PowerLoss
    <3>1. faults \in Nat /\ faults' = faults + 1
      BY <2>2, ProvisioningAssumption DEF PowerLoss, IInv, TypeOK
    <3>2. faults + 1 > faults
      BY <3>1
    <3> QED BY <3>1, <3>2
  <2>3. ~SendPing /\ ~TimeoutReboot
    BY <1>2, <1>3 DEF SendPing, TimeoutReboot, Unanswered
  <2>4. ~Poll /\ ~Discard
    BY <1>2 DEF Poll, Discard
  <2>5. /\ ~JoinFails /\ ~Leave /\ ~EndScan /\ ~\E e \in Ep : Join(e)
        /\ ~\E found \in SUBSET Ep : BeginScan(found)
    BY <1>1 DEF JoinFails, Leave, EndScan, Join, BeginScan
  <2> QED BY <1>5, <2>1, <2>2, <2>3, <2>4, <2>5 DEF Scanner, DeviceLoop
<1>6. ASSUME NEW e \in Ep, Endpoint(e)
      PROVE  Meeting'
  <2>1. joined # e
    BY <1>1, ProvisioningAssumption
  <2>2. UNCHANGED <<service, device, toDevice, fromDevice>>
    BY <1>6, <2>1
       DEF Endpoint, SendDetails, Reconnect, GiveUp, Disconnect, Reset
  <2> QED BY <1>2, <2>2 DEF Meeting
<1> QED BY <1>4, <1>5, <1>6 DEF Next

(* A service that has started while the device waits, and the device that  *)
(* answers it: nothing but a restart comes between them, no ping throws the*)
(* service out of step and no keep-alive reboots the device meanwhile.     *)
THEOREM MeetingIsKept == Spec => MeetingGoesOn
<1>1. Init => ScanInv
  BY DEF Init, ScanInv, OneScan, InStep
<1>2. IInv /\ ScanInv /\ [Next]_vars =>
        [Meeting => Meeting' \/ Linked' \/ faults' > faults]_vars
  BY MeetingStep
<1> QED BY <1>1, <1>2, ScanInvStep, ProvisioningInvariant, PTL
        DEF Spec, MeetingGoesOn
=============================================================================
