---------------------------- MODULE Provisioning ----------------------------
(***************************************************************************)
(* How a new device gets the credentials of the hub: the authentication    *)
(* service, the authentication device on its serial line, and the new      *)
(* devices, the endpoints, each an access point until it is configured.    *)
(*                                                                         *)
(* The user starts a scan in the service's interface; the authentication   *)
(* device joins every network it has not scanned before and reads who is   *)
(* there; the service asks the user; the answer goes back the same way.    *)
(*                                                                         *)
(* Both ends of the serial line read a stream of frames without marks.  One*)
(* that reads anything but a hello first, or a hello later, is out of step *)
(* for as long as it runs.  Bytes for a device that restarts are lost, and *)
(* the service flushes the line when it starts.                            *)
(*                                                                         *)
(* Every endpoint opens its network under the same name, that of           *)
(* ConnectionData::defaultData, and the device knows networks by name only.*)
(* So requests and answers tell nobody from nobody, whoever has the name   *)
(* may be the one that is joined, and a list of names is the number of its *)
(* entries.                                                                *)
(***************************************************************************)
EXTENDS Naturals, Sequences, FiniteSets

CONSTANTS
  Ep,        \* endpoints
  NoEp,      \* no endpoint
  MaxScans,  \* bound: times the user presses Scan
  MaxFaults  \* bound: restarts of the service, the device and endpoints

ASSUME ProvisioningAssumption ==
  /\ IsFiniteSet(Ep) /\ NoEp \notin Ep
  /\ MaxScans \in Nat /\ MaxFaults \in Nat

VARIABLES
  service,     \* "down"; "starting": waits for the device's hello, or "stuck"
               \* there; "up": its loop runs, or is "deaf" to the device
  scanning,    \* AuthServiceImpl::scanning
  authActions, \* actionCounter of the notification "Allow endpoint"
  infoActions, \* actionCounter of the notification "Scanning..."
  pending,     \* pendingNotifications at the UX service
  toDevice,    \* serial line
  fromDevice,  \* serial line
  device,      \* "waiting": not serviceConnected; "up" or "deaf"
  shouldScan,  \* AuthDevice::shouldScan
  busy,        \* scanNetworks is running
  networks,    \* how many of those it found it has yet to try
  joined,      \* the endpoint it is connected to
  details,     \* finishedReading, while it is connected
  first,       \* its index is 0, while it scans
  previouslyScanned, \* AuthDevice::previouslyScanned: its length
  mode,        \* of each endpoint: "offer" is SendAuthData, "wait" is
               \* WaitForReconnect, "configured" has stored data
  client,      \* what the connection each endpoint may accept has for it
  presses,     \* how often the user pressed Scan
  faults,      \* how many restarts there were
  yes, saved,  \* history: accepts by the user and configurations
  joinFailed,  \* history: a scan broke off since the service started
  forgotten    \* history: entries of previouslyScanned since Connect whose
               \* request or answer was lost, in one of the ways that exist

serviceVars == <<service, scanning, authActions, infoActions, pending>>
scanVars == <<shouldScan, busy, networks, joined, details, first>>
deviceVars == <<device, scanVars, previouslyScanned>>
epVars == <<mode, client, saved>>
vars == <<serviceVars, toDevice, fromDevice, deviceVars, epVars, presses,
          faults, yes, joinFailed, forgotten>>

Hello       == [kind |-> "hello"]
Noise       == [kind |-> "noise"]       \* what a restart prints
Ping        == [kind |-> "ping"]        \* KeepAlive
Scan        == [kind |-> "scan"]        \* ScanForNetworks
Total(zero) == [kind |-> "total", zero |-> zero] \* ScanStarted, ScanProgress
Finished    == [kind |-> "finished"]
Request     == [kind |-> "request"]
Accept      == [kind |-> "accept"]
Reject      == [kind |-> "reject"]

Answers == {Accept, Reject}
FromService == {Hello, Scan} \cup Answers
FromDevice == {Hello, Noise, Ping, Finished, Request}
              \cup {Total(z) : z \in BOOLEAN}

TypeOK ==
  /\ service \in {"down", "starting", "stuck", "up", "deaf"}
  /\ scanning \in BOOLEAN
  /\ authActions \in Nat /\ infoActions \in Nat
  /\ pending \subseteq [id : Nat, asks : BOOLEAN] /\ IsFiniteSet(pending)
  /\ toDevice \in Seq(FromService) /\ fromDevice \in Seq(FromDevice)
  /\ device \in {"waiting", "up", "deaf"}
  /\ shouldScan \in BOOLEAN /\ busy \in BOOLEAN /\ first \in BOOLEAN
  /\ networks \in Nat /\ joined \in Ep \cup {NoEp} /\ details \in BOOLEAN
  /\ previouslyScanned \in Nat
  /\ mode \in [Ep -> {"offer", "wait", "configured"}]
  /\ client \in [Ep -> {"none", "scan", "accept", "reject"}]
  /\ presses \in 0..MaxScans /\ faults \in 0..MaxFaults
  /\ yes \in Nat /\ saved \in Nat
  /\ joinFailed \in BOOLEAN /\ forgotten \in Nat

Init ==
  /\ service = "down" /\ scanning = FALSE
  /\ authActions = 0 /\ infoActions = 0 /\ pending = {}
  /\ toDevice = <<>> /\ fromDevice = <<>>
  /\ device = "waiting" /\ shouldScan = FALSE /\ busy = FALSE
  /\ networks = 0 /\ joined = NoEp /\ details = FALSE /\ first = FALSE
  /\ previouslyScanned = 0
  /\ mode = [e \in Ep |-> "offer"] /\ client = [e \in Ep |-> "none"]
  /\ presses = 0 /\ faults = 0
  /\ yes = 0 /\ saved = 0
  /\ joinFailed = FALSE /\ forgotten = 0

-----------------------------------------------------------------------------
(* The serial line.                                                        *)

(* sendBytes by the device; what nobody reads is flushed at the next start.*)
DeviceSends(m) ==
  fromDevice' = IF service = "down" THEN <<>> ELSE Append(fromDevice, m)

ServiceSends(m) == toDevice' = Append(toDevice, m)

-----------------------------------------------------------------------------
(* The service and its user.                                               *)

(* displayNotification, here and at the UX service, where pendingNotifica- *)
(* tions has one entry for an action id: a second one is not inserted.     *)
Displayed(id, asks) ==
  IF \E r \in pending : r.id = id THEN pending
  ELSE pending \cup {[id |-> id, asks |-> asks]}

DisplayRequest ==
  /\ pending' = Displayed(authActions, TRUE)
  /\ authActions' = authActions + 1
  /\ forgotten' = IF pending' = pending THEN forgotten + 1 ELSE forgotten
  /\ UNCHANGED infoActions

DisplayInfo ==
  /\ pending' = Displayed(infoActions, FALSE)
  /\ infoActions' = infoActions + 1
  /\ UNCHANGED <<authActions, forgotten>>

NoDisplay == UNCHANGED <<pending, authActions, infoActions, forgotten>>

(* main, initializeDispatch and initializeDevice up to its loop.           *)
Start ==
  /\ service = "down"
  /\ service' = "starting"
  /\ ServiceSends(Hello)
  /\ UNCHANGED <<scanning, authActions, infoActions, pending, fromDevice,
                 deviceVars, epVars, presses, faults, yes, joinFailed,
                 forgotten>>

(* The process ends, and its channel at the UX service with it.            *)
Stop ==
  /\ service # "down" /\ faults < MaxFaults
  /\ service' = "down"
  /\ scanning' = FALSE
  /\ authActions' = 0 /\ infoActions' = 0
  /\ pending' = {}
  /\ joinFailed' = FALSE
  /\ fromDevice' = <<>>
  /\ faults' = faults + 1
  /\ UNCHANGED <<toDevice, deviceVars, epVars, presses, yes, forgotten>>

(* initializeDevice waits for the mapping of LogMessage.                   *)
Initialize ==
  /\ service = "starting" /\ fromDevice # <<>>
  /\ service' = IF Head(fromDevice) = Hello THEN "up" ELSE "stuck"
  /\ fromDevice' = Tail(fromDevice)
  /\ UNCHANGED <<scanning, authActions, infoActions, pending, toDevice,
                 deviceVars, epVars, presses, faults, yes, joinFailed,
                 forgotten>>

(* loopBlocking reads the device: DeviceReqHandler, ScanStartHandler and   *)
(* ScanProgressHandler (both call scanStarted), ScanFinishedHandler.       *)
ScanningKept(m) == scanning                                           \* mutant
ScanningOver(m) == scanning /\ m # Finished

Receive ==
  LET m == Head(fromDevice)
  IN  /\ service = "up" /\ fromDevice # <<>>
      /\ fromDevice' = Tail(fromDevice)
      /\ service' = IF m \in {Hello, Noise} THEN "deaf" ELSE "up"
      /\ scanning' = ScanningOver(m)
      /\ \/ m = Request /\ DisplayRequest
         \/ m = Total(TRUE) /\ DisplayInfo
         \/ m \notin {Request, Total(TRUE)} /\ NoDisplay
      /\ UNCHANGED <<toDevice, deviceVars, epVars, presses, faults, yes,
                     joinFailed>>

(* What arrives when the line is out of step is lost.                      *)
Garbage ==
  /\ service \in {"stuck", "deaf"} /\ fromDevice # <<>>
  /\ fromDevice' = Tail(fromDevice)
  /\ UNCHANGED <<serviceVars, toDevice, deviceVars, epVars, presses, faults,
                 yes, joinFailed, forgotten>>

(* The button: AuthServiceUIImpl::scan and AuthServiceImpl::scan.          *)
PressScan ==
  /\ service \in {"up", "deaf"} /\ presses < MaxScans
  /\ presses' = presses + 1
  /\ scanning' = TRUE
  /\ IF scanning THEN DisplayInfo /\ UNCHANGED toDevice
                 ELSE NoDisplay /\ ServiceSends(Scan)
  /\ UNCHANGED <<service, fromDevice, deviceVars, epVars, faults, yes, joinFailed>>

(* The user answers: dismissNotification, NotificationImpl::execute and    *)
(* AuthServiceUIImpl::response.                                            *)
Answer(r, accepted) ==
  /\ service \in {"up", "deaf"}
  /\ r \in pending
  /\ pending' = pending \ {r}
  /\ IF r.asks
     THEN /\ ServiceSends(IF accepted THEN Accept ELSE Reject)
          /\ yes' = IF accepted THEN yes + 1 ELSE yes
     ELSE UNCHANGED <<toDevice, yes>>
  /\ UNCHANGED <<service, scanning, authActions, infoActions, fromDevice,
                 deviceVars, epVars, presses, faults, joinFailed, forgotten>>

-----------------------------------------------------------------------------
(* The authentication device.                                              *)

(* loop, not connected: the first byte, whatever it is.                    *)
Connect ==
  /\ device = "waiting" /\ toDevice # <<>>
  /\ device' = IF Head(toDevice) = Hello THEN "up" ELSE "deaf"
  /\ toDevice' = Tail(toDevice)
  /\ DeviceSends(Hello)
  /\ forgotten' = 0
  /\ UNCHANGED <<serviceVars, scanVars, previouslyScanned, epVars, presses,
                 faults, yes, joinFailed>>

(* sendPing.  A service that listens answers it; one that waits for a hello*)
(* is thrown out of step, and the first ping is enough.                    *)
SendPing ==
  /\ device # "waiting" /\ ~busy
  /\ service = "starting" /\ fromDevice = <<>>
  /\ DeviceSends(Ping)
  /\ UNCHANGED <<serviceVars, toDevice, deviceVars, epVars, presses, faults,
                 yes, joinFailed, forgotten>>

(* responseAccept and responseDeny: WiFi joins whichever endpoint has the  *)
(* name, and one entry of the list goes.  (NameIsListed: there is one.)    *)
NotErased == previouslyScanned                                        \* mutant
Erased == IF previouslyScanned = 0 THEN 0 ELSE previouslyScanned - 1

Respond(m) ==
  \/ \E e \in Ep :
       /\ mode[e] # "configured"
       /\ client' = [client EXCEPT ![e] = m.kind]
       /\ previouslyScanned' = Erased
       /\ UNCHANGED forgotten
  \/ /\ forgotten' = forgotten + 1             \* connectTo fails
     /\ UNCHANGED <<client, previouslyScanned>>

(* pollAndReadTimes.                                                       *)
Poll ==
  LET m == Head(toDevice)
  IN  /\ device = "up" /\ ~busy /\ toDevice # <<>>
      /\ toDevice' = Tail(toDevice)
      /\ device' = IF m = Hello THEN "deaf" ELSE "up"
      /\ shouldScan' = (shouldScan \/ m = Scan)
      /\ IF m \in Answers THEN Respond(m)
         ELSE UNCHANGED <<client, previouslyScanned, forgotten>>
      /\ UNCHANGED <<serviceVars, fromDevice, busy, networks, joined, details,
                     first, mode, saved, presses, faults, yes, joinFailed>>

Discard ==
  /\ device = "deaf" /\ toDevice # <<>>
  /\ toDevice' = Tail(toDevice)
  /\ UNCHANGED <<serviceVars, fromDevice, deviceVars, epVars, presses, faults,
                 yes, joinFailed, forgotten>>

(* scanNetworks, up to its loop: listNetworks has one entry for each access*)
(* point in range, all of the same name: new ones, or scanned before.      *)
BeginScan(found) ==
  /\ device = "up" /\ shouldScan /\ ~busy
  /\ \A e \in found : mode[e] # "configured"
  /\ shouldScan' = FALSE
  /\ busy' = TRUE
  /\ networks' = IF previouslyScanned = 0 THEN Cardinality(found) ELSE 0
  /\ first' = TRUE
  /\ DeviceSends(Total(networks' = 0))
  /\ UNCHANGED <<serviceVars, toDevice, device, joined, details,
                 previouslyScanned, epVars, presses, faults, yes, joinFailed,
                 forgotten>>

(* connectTo: again whichever endpoint has the name, one that was joined   *)
(* for an earlier entry included.                                          *)
Join(e) ==
  /\ busy /\ joined = NoEp /\ networks > 0
  /\ mode[e] # "configured"
  /\ networks' = networks - 1
  /\ joined' = e
  /\ client' = [client EXCEPT ![e] = "scan"]
  /\ UNCHANGED <<serviceVars, toDevice, fromDevice, device, shouldScan, busy,
                 details, first, previouslyScanned, mode, saved, presses, faults, yes,
                 joinFailed, forgotten>>

(* connectTo fails: scanNetworks returns.                                  *)
JoinFails ==
  /\ busy /\ joined = NoEp /\ networks > 0
  /\ busy' = FALSE
  /\ networks' = 0 /\ first' = FALSE
  /\ joinFailed' = TRUE
  /\ UNCHANGED <<serviceVars, toDevice, fromDevice, device, shouldScan, joined,
                 details, previouslyScanned, epVars, presses, faults, yes,
                 forgotten>>

(* The details came, or 100 attempts are over.                             *)
ListedIfSilent ==                                                     \* mutant
  IF details THEN previouslyScanned ELSE previouslyScanned + 1
ListedAfter == previouslyScanned + 1

Leave ==
  /\ busy /\ joined # NoEp
  /\ DeviceSends(Total(first))
  /\ first' = FALSE
  /\ previouslyScanned' = ListedAfter
  /\ forgotten' = IF details THEN forgotten ELSE forgotten + 1
  /\ joined' = NoEp /\ details' = FALSE
  /\ UNCHANGED <<serviceVars, toDevice, device, shouldScan, busy, networks,
                 epVars, presses, faults, yes, joinFailed>>

EndScan ==
  /\ busy /\ joined = NoEp /\ networks = 0
  /\ DeviceSends(Finished)
  /\ busy' = FALSE /\ first' = FALSE
  /\ UNCHANGED <<serviceVars, toDevice, device, shouldScan, networks, joined,
                 details, previouslyScanned, epVars, presses, faults, yes,
                 joinFailed, forgotten>>

Restarted ==
  /\ device' = "waiting"
  /\ shouldScan' = FALSE /\ busy' = FALSE /\ networks' = 0
  /\ joined' = NoEp /\ details' = FALSE /\ first' = FALSE
  /\ previouslyScanned' = 0 /\ forgotten' = 0
  /\ toDevice' = <<>>
  /\ DeviceSends(Noise)
  /\ UNCHANGED <<serviceVars, epVars, presses, yes, joinFailed>>

(* The keep-alive: no pong for five seconds.  A service that is about to   *)
(* read this device's hello is in time.                                    *)
UnansweredAtOnce == device = "deaf" \/ (device = "up" /\ service # "up") \* mutant
Unanswered ==
  \/ device = "deaf"
  \/ /\ device = "up" /\ service # "up"
     /\ ~(service = "starting" /\ fromDevice # <<>> /\ Head(fromDevice) = Hello)

TimeoutReboot ==
  /\ Unanswered /\ ~busy
  /\ Restarted
  /\ UNCHANGED faults

PowerLoss ==
  /\ device # "waiting" /\ faults < MaxFaults
  /\ Restarted
  /\ faults' = faults + 1

-----------------------------------------------------------------------------
(* An endpoint: BaseEndpointAuth::loopAP.                                  *)

(* SendAuthData: it tells whoever connects, and may fail to.  The device   *)
(* reads it only while it is still connected to scan (finishReading).      *)
SendDetails(e) ==
  /\ mode[e] = "offer" /\ client[e] # "none"
  /\ client' = [client EXCEPT ![e] = "none"]
  /\ \/ /\ mode' = [mode EXCEPT ![e] = "wait"]
        /\ IF joined = e /\ ~details
           THEN details' = TRUE /\ DeviceSends(Request)
           ELSE UNCHANGED <<details, fromDevice>>
     \/ UNCHANGED <<mode, details, fromDevice>>
  /\ UNCHANGED <<serviceVars, toDevice, device, shouldScan, busy, networks,
                 joined, first, previouslyScanned, saved, presses, faults, yes,
                 joinFailed, forgotten>>

(* WaitForReconnect: it reads whoever connects for ten seconds.  reject    *)
(* frees the builder that is reading; the endpoint crashes and offers      *)
(* itself again, or lives and does the same.                               *)
ConfiguresAny(purpose) == TRUE                                        \* mutant
Configures(purpose) == purpose = "accept"

Reconnect(e) ==
  /\ mode[e] = "wait" /\ client[e] # "none"
  /\ client' = [client EXCEPT ![e] = "none"]
  /\ IF Configures(client[e])
     THEN /\ mode' = [mode EXCEPT ![e] = "configured"]
          /\ saved' = saved + 1
     ELSE /\ mode' = [mode EXCEPT ![e] = "offer"]
          /\ UNCHANGED saved
  /\ UNCHANGED <<serviceVars, toDevice, fromDevice, deviceVars, presses, faults,
                 yes, joinFailed, forgotten>>

(* 3000 attempts without a connection.                                     *)
GiveUp(e) ==
  /\ mode[e] = "wait" /\ client[e] = "none"
  /\ mode' = [mode EXCEPT ![e] = "offer"]
  /\ UNCHANGED <<serviceVars, toDevice, fromDevice, deviceVars, client, saved,
                 presses, faults, yes, joinFailed, forgotten>>

(* The connection is closed before the endpoint accepts it.                *)
Disconnect(e) ==
  /\ client[e] # "none"
  /\ client' = [client EXCEPT ![e] = "none"]
  /\ UNCHANGED <<serviceVars, toDevice, fromDevice, deviceVars, mode, saved,
                 presses, faults, yes, joinFailed, forgotten>>

(* The factory reset button of a configured one.  (Loss of power does, to  *)
(* one that is not configured, what Disconnect and GiveUp do.)             *)
Reset(e) ==
  /\ faults < MaxFaults
  /\ mode[e] = "configured"
  /\ mode' = [mode EXCEPT ![e] = "offer"]
  /\ client' = [client EXCEPT ![e] = "none"]
  /\ faults' = faults + 1
  /\ UNCHANGED <<serviceVars, toDevice, fromDevice, deviceVars, saved, presses,
                 yes, joinFailed, forgotten>>

-----------------------------------------------------------------------------
(* What the loops of the two ends do by themselves.                        *)
ServiceLoop == Initialize \/ Receive \/ Garbage
DeviceLoop  == \/ Connect \/ SendPing \/ Poll \/ Discard \/ TimeoutReboot
               \/ (\E found \in SUBSET Ep : BeginScan(found))
               \/ JoinFails \/ Leave \/ EndScan \/ \E e \in Ep : Join(e)

Service == ServiceLoop \/ Start \/ Stop \/ PressScan
           \/ \E r \in pending, a \in BOOLEAN : Answer(r, a)
Scanner == DeviceLoop \/ PowerLoss
Endpoint(e) == SendDetails(e) \/ Reconnect(e) \/ GiveUp(e) \/ Disconnect(e)
               \/ Reset(e)

Next == Service \/ Scanner \/ \E e \in Ep : Endpoint(e)

Spec == Init /\ [][Next]_vars

(* Both ends of the line run loops.  Users, faults and endpoints owe       *)
(* nothing.                                                                *)
Fairness == WF_vars(ServiceLoop) /\ WF_vars(DeviceLoop)

FairSpec == Spec /\ Fairness

-----------------------------------------------------------------------------
Linked == service = "up" /\ device = "up"

(* Endpoints store credentials at most as often as the user accepted one,  *)
(* whatever is lost, restarted or answered late (accept, saveAPData).  They*)
(* all have one name: which endpoint it is, the user does not decide.      *)
ConfiguredIfAccepted == saved <= yes

(* responseAccept and responseDeny erase the name they find in             *)
(* previouslyScanned without looking whether it is there: it always is,    *)
(* also when the device was restarted with questions open.                 *)
NameIsListed ==
  (device = "up" /\ ~busy /\ toDevice # <<>> /\ Head(toDevice) \in Answers)
    => previouslyScanned > 0

(* Where a line has a message of M.                                        *)
Places(line, M) == {i \in 1..Len(line) : line[i] \in M}

(* Questions on their way to the user, before the user, and answered.      *)
Open == Cardinality(Places(fromDevice, {Request}))
        + Cardinality({r \in pending : r.asks})
        + Cardinality(Places(toDevice, Answers))

(* The request of the endpoint it is joined to precedes its entry.         *)
Listed == IF details THEN previouslyScanned + 1 ELSE previouslyScanned

(* Every entry of previouslyScanned, which keeps all endpoints from being  *)
(* offered again, has a question open of its own, unless the request or the*)
(* answer was lost: the endpoint did not tell its details, none could be   *)
(* joined with the answer, or another notification with the same action id *)
(* was open.  And every question has its entry.                            *)
NotForgotten ==
  (Linked /\ Places(toDevice, {Hello}) = {}) => Listed = Open + forgotten

(* A scan ends, unless a network could not be joined, or one of the two    *)
(* processes restarted (setScanFinished): then it never does.              *)
ScanEnds == []<>(~scanning \/ joinFailed \/ ~Linked)

(* The service has started while the device waits for it, or the device has*)
(* just answered.                                                          *)
Meeting ==
  /\ service = "starting"
  /\ \/ device = "waiting" /\ toDevice = <<Hello>> /\ fromDevice = <<>>
     \/ device = "up" /\ toDevice = <<>> /\ fromDevice = <<Hello>>

(* Then the two find each other, unless one of them restarts (loop,        *)
(* initializeDevice): nothing else comes between, and they go on.          *)
LinkComesUp ==
  /\ [][Meeting => Meeting' \/ Linked' \/ faults' > faults]_vars
  /\ []<>~Meeting
=============================================================================
