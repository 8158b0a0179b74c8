# CommProto in TLA+

Specifications, model-checking configurations and machine-checked proofs for
CommProto: a hub for home devices. A broker (the *dispatch service*) accepts
TCP connections, gives every client a channel name and copies the messages of
a channel to its subscribers. Devices and services are clients. One of them,
the UX service, shows the controls of all others in the browser.

Paths below are relative to `src/`.

## 1. The system

### Components

| Component | State it keeps | Operations | Modelled by |
|---|---|---|---|
| Dispatch service: `CommProtoService/src/service/Dispatch.cpp`, `Connection.cpp`, request handlers | directory of names, table of connections, subscribers to everything; per connection its name, subscribers, who was introduced, mapped types, output queue | accept, register, subscribe, unsubscribe, map a type, directed message, removal of dead connections, destruction | `Dispatch` (partly) |
| Delivery to an endpoint: `messagesOut` in `Connection.cpp`, `CommProtoLib/src/endpoint/ChannelParserDelegator.cpp` | the receiver's queue; the endpoint's delegators, channel names and known types | enqueue, dequeue, notify mapping, notify termination, parse, drop | `Delivery` (partly) |
| User interface controller of the UX service: `CommProtoService/src/control/ux/`, `UXService/HttpRequestHandler.cpp`, `UXService/html_files/update.js`, `scripts.js` | controls, trackers per browser session, pending notifications; in the page the session, polling loops, what is shown | device messages, poll, user actions, sweep | `UxTracker` (partly) |
| Controllers of the UX service: `UxControllers.cpp`, `UxDelegatorProvider.cpp`, `UxChannelParserDelegator.cpp` | controllers by name, delegators and names by id, cleared controllers | add, remove, look up, no user interface, crash and restart | `UxControllers` (partly) |
| Shared variables: `CommProtoLib/src/variable/` | out variables and names; in variables, names, callbacks, callbacks waiting for a name | register, assign, receive, subscribe by id and by name | `VariableSync` (partly) |
| Provisioning: `AuthService/`, `CommProtoDevice/src/AuthDevice.cpp`, `BaseEndpointAuth.cpp` | scanning flag, open questions, found devices, keep-alive clocks, stored credentials | scan, ask, accept, reject, authenticate, reboot, reset | `Provisioning` (partly) |
| Plant health: `PlantHealth/` and the smart pot, `sketches/smartpot/` | last band of the soil, target, desired interval, label; pump and pulse of the pot | reading, automatic action, toggle, sliders, pulses, reconnects | `PlantCare` (partly) |
| Framing: `MessageBuilder.cpp`, `TypeMapperImpl.cpp` | size, type and body of the frame being read | feed bytes, dispatch a frame, map a type | not modelled: its faults are in byte arithmetic and sizes |
| Login store: `UXService/LoginHandler.cpp` | tokens and their expiry, in memory and on file | save, validate, expire, load | not modelled: one function and a race on a map |
| Endpoint controls: `CommProtoLib/src/control/endpoint/` | slider limits, pending notification actions | set, answer | not modelled, but for the actions of notifications, which `Provisioning` has |
| Thermostat; Endpoint, Rotary, DiagnosticsService, PlantTester; plugins; sockets; templates; vendored code | — | straight-line clients, system calls, formatting | not modelled |

### How they interact

A client opens a socket, announces its pointer size, maps its types and
registers a name. In the broker one worker thread per connection reads the
client's messages, runs the handler of each and then sends what is on its own
output queue. Handlers reach into *other* connections: a subscription puts the
caller into the target's `subs`, a message of the target is then put on the
caller's `messagesOut` by the target's thread. A checker thread removes dead
connections. Connections are held by shared pointers in the table, in
`subscribedToAll`, in the `subs` of other connections and in local handles;
whoever drops the last one runs the destructor, which tells the subscribers.

At the receiving endpoint a channel mapping creates a delegator for the sender
id, a type mapping teaches it a type, a termination removes it. What arrives
before the mapping it depends on is dropped.

The UX service subscribes to everything, builds a controller for every channel
and asks it for its state by a directed message. Browsers poll; every HTTP
request runs on a thread of its own beside the thread that reads the socket.
Controllers are listed by name, channels come and go by id.

Two ends of a connection may share variables: the owner numbers its variables
as it registers them, the reader numbers what it receives, and only the order
of the messages makes the numbers agree.

The authentication service is a client with a user interface and a serial line
to a radio, the authentication device. It joins the network of each new device
in turn, asks the user through the UX service, and takes the answer back over
the air. The plant service listens to a smart pot and switches its pump by
directed messages, when the soil leaves or enters a band.

### What is hard

* **Lookups without a lock.** `getConnection` reads the directory unlocked,
  and the handle it returns is used later, when the target may have stopped,
  left the table, or be kept alive by this handle alone.
* **Three ways to be introduced.** A receiver must get the channel mapping and
  every type once: by a subscription, by a registration (subscribers to
  everything) or by a directed message; `sentMapping` suppresses repetitions.
* **Two locks.** Types are recorded without a lock and forwarded under
  `subscriberMutex`; registration runs under `connectionMutex` in two visible
  steps.
* **Destruction by reference count**, cascading through subscriber lists, on
  whichever thread lets go last; lists can form cycles.
* **An output queue that is not FIFO.** `moodycamel::ConcurrentQueue` keeps
  the order of one producing thread only, and there are three kinds of
  producers per queue.
* **Polling with flags.** A change and its flag are two steps; a flag is
  cleared when an answer is built, not when it arrives. What the user does on a
  page is posted by a request of its own, for whose fate the page does not wait.
* **Names that outlive connections.** A device that comes back has its old
  name and a new id, and its old connection may be terminated after that.
* **Two orders of arrival for one fact.** A callback may subscribe before or
  after the name, and before or after the value, of the variable it wants.
* **A stream without marks.** Either end of the serial line that reads
  anything but a greeting first is out of step until it restarts.
* **One name for all.** Every device that waits to be configured opens a network
  of the same name, and the radio finds them by that name.
* **Control by edges.** The plant service sends a command when the band of a
  reading changes, so a lost command is not repeated by the next reading.

`PROJECT.json` lists each hazard at its line with the properties that cover it.

### What makes each part correct

* Broker: no reference outlives its object; the directory leads exactly to
  the registered live connections; whoever receives a channel's traffic was
  introduced to it and knows its types; nobody is dropped silently; a
  subscription to everything misses nobody; a termination is final; dead
  connections do leave.
* Delivery: nothing a channel sends is lost behind its own introduction; what
  the endpoint knows when the queue has drained agrees with the broker; a
  terminated channel is forgotten.
* UX controller: every session is told of every change; pages converge to the
  state of the device; a dismissed notification disappears everywhere.
* Controllers: what the browser can find belongs to a living, known channel;
  one channel's end does not take another's controller; devices appear and
  vanish.
* Variables: the reader goes through the states of the owner, one by one;
  every subscriber is told; a name leads to its variable.
* Provisioning: devices are configured at most as often as the user accepted
  one; an entry in the list of those not to be offered again has its question
  open; a scan ends; the two ends of the serial line find each other.
* Plant health: the pump follows the soil; what the user is shown of the pump
  is true; a pump that is switched off comes to rest.

## 2. Modules

`Dispatch.tla` — the broker. State variables carry the names of the members
they stand for; `told[s]` is a history of everything ever put on the output
queue of `s`. One action per handler, except that a handler is split in two
where it lets another thread in: `RegisterChannel` / `FinishRegisterChannel`
(the name is in the directory, `connectionMutex` still held, `setName` and the
subscribers to everything to come), `Subscribe` / `FinishSubscribe` and
`Unsubscribe` / `FinishUnsubscribe` (the handle is looked up, then used),
`RegisterMapping` / `FinishRegisterMapping` (the type is recorded, then
forwarded). `Kept` is reference counting: the largest set of objects each held
from outside or by another of the set, so a cycle survives, as it does in the
code. `Release` runs the destructors. `CONSTANT Requests` says which requests
each client makes, so that a run can look at one kind of client.

`NameService.tla` — what a client may rely on in the directory: it claims a
free name, or leaves, and a name belongs to at most one live client. `Dispatch`
implements it with `live <- connections, owner <- connectionMapping`
(`ImplementsNameService`); the two steps of a registration map to one claim and
one stutter.

`Delivery.tla` — one receiver. The queue is a FIFO per producing thread: the
worker of each channel, the worker of the receiver itself (its own
subscriptions) and the checker. `Send` takes the head of *any* of them: which
one `try_dequeue` takes depends on sizes that are approximate while others
enqueue, so this allows every choice the code can make and a few more. The
handlers of `Dispatch` appear as what they enqueue for this receiver, as single
steps, for their interleavings are checked there; only the subscription to
everything goes through the table one connection at a time (`SubscribeAll`,
`JoinNext`), because the other connections receive and forward meanwhile: what
needs `connectionMutex` waits (`ConnectionMutexFree`). The socket keeps order and
nothing the endpoint does feeds back, so a message is parsed in the step that
sends it.

`UxTracker.tla` — one controller, its device and the pages. The version number
of a control stands for what it renders. `SetText` / `NotifyUpdate` and
`HandleToggle` / `Toggle` are the two halves of a change by the device and by a
user, which come in opposite orders. The user's answer to a notification is two
actions as well: `PostNotification` sends a request and takes the notification
off the page at once (`scripts.js:66`); `HandleNotification`, on a thread of the
service, dismisses it for everyone when that request is read, early, late,
after another page's answer to the same notification, or never (`LosePost`: the
request is not repeated). A toggle is posted likewise, and may name a session
that its page has left since; one that is lost changes nothing at the service, so
only its arrival is an action. A polling request passes `AddTracker` (when
forced), `GetUpdates`, `GetRemovals` and `GetNotifications`, each one critical
section of the code, and is parsed in `ParseUiUpdate`. `Select` is
`forceUpdateUI`: a new session *and* one more polling loop. `Lose`, `Sleep` and
`CheckTrackers` are the network, a page whose timers stop and the sweep.

`UxControllers.tla` — the UX service between channels and the browser: the
broker's side of each connection (`Connect`, `Register`, `RemoveConnection`,
`Destroy`), the queue for the UX service with one FIFO for each thread of the
broker, as in `Delivery`, and the handlers that build, list, fill, remove and
clear controllers. A controller is `<<c, k>>`, the k-th built for connection
`c`, so that an object that was cleared is told from its successor.
`GetController` / `GetUpdates` are the two halves of a forced update by an HTTP
thread; the second uses the HTML generator that `clear` has released
(`UIControllerImpl.cpp:339`), which is modelled as a crash, and `Restart` is
`main` again.

`SnapshotReader.tla`, `VariableSync.tla` — the first is the promise: the owner
goes through states, and what the reader has is one of them, never an earlier
one than before. The second is the two `ContextImpl` objects: registration with
its two messages, `Variable::operator=`, and the handlers of values and of
names at the reader. The socket is a log and a position in it. `VariableSync`
implements `SnapshotReader` (`ImplementsSnapshot`).

`Provisioning.tla` — the service (`AuthServiceImpl`, its user interface and the
open questions at the UX service), the authentication device with its loop and
`scanNetworks`, the endpoints with their two loops, and the serial line both
ways. `DeviceSends` and `ServiceSends` are the writes; `"stuck"` and `"deaf"`
are the two ways to be out of step. A scan is `BeginScan`, then for each network
`Join` and `Leave` (or `JoinFails`), then `EndScan`; an endpoint answers in
between with `SendDetails` and is configured in `Reconnect`.

All endpoints open their network under the one name of
`CommProtoDevice/src/Structures.cpp:7` (`BaseEndpointAuth.cpp:86`), requests and
answers carry that name, and the device connects by it
(`AuthDevice.cpp:157`, `193`, `290`). So `Join` and `Respond` lead to *any* endpoint
that is not configured yet, whichever the question was about: the acceptance of
one may configure another, and two entries of a scan may lead to the same. Since
the names in `previouslyScanned` are all equal, the list is its length; while it
has an entry, no network is new (`alreadyScanned`), and a scan finds none. What
can be promised is therefore about numbers and not about who.

`PlantCare.tla` — the pot (readings, pump, pulses of `pumpFunction`, reboots),
the broker's view of its connections, and the soil tracker. `Execute` is the
three actions of a reading in their order; `was` is the memory of the band that
makes it act on edges; `SendPump` drops a command when the pot is unknown.

`MC*.tla` and `*.cfg` — instances. `*Proofs.tla` — theorems (section 5).

Definitions marked `\* mutant` stand before the definition they distort: each
is a plausible mistake in that piece of code, and substituting it violates the
property `PROJECT.json` pairs it with. No specification uses them.

## 3. Runs

`CHECK_DEADLOCK FALSE` is in every configuration because the modelled
environments may stop: clients owe the broker no further request, devices and
users may rest, and the bounded counters run out.

| Run | Question | Instance | Distinct states |
|---|---|---|---|
| `subscriptions` | Are the directory, references, introductions, terminations and lists right under every interleaving of subscriptions with connects, registrations, mappings and deaths? | one subscriber using all three requests; two devices of one name, of which one maps a type and one registers again and again; three suffix levels | 169,131 |
| `user_interface` | Does a subscription to everything cover everything, and does the directory implement the name service? | the UX service, a second one that sends directed messages, a device | 58,466 |
| `endings` | Are subscribers told of a death? (liveness) | a chain: c1 subscribes to everything, c2 to c3 | 7,371 |
| `directed` | Does every subscriber know every mapping, directed messages or not? (violated) | two clients | — |
| `delivery` | What survives a queue that is FIFO per thread only? | one channel, two types, two payloads, three producers, at most three queued messages each | 301,997 |
| `ux_controls` | Is every session told of every change, and does a page catch up? (liveness) | one page that may select twice, a label, a toggle | 773,583 |
| `ux_notices` | Do pages agree with the pending notifications? (liveness) | two pages, both of which may answer; one notification | 51,620 |
| `ux_controllers` | Does the list of controllers follow the channels? (liveness) | two connections of one name, each with or without a user interface, one HTTP thread, one crash | 113,413 |
| `variables` | Does the reader follow the owner, and is every callback told? | two variables, one of them unique-only, one name both may want, two values, two callbacks, five messages | 132,288 |
| `provisioning` | Are no more configured than were accepted, is no question lost track of, do scans end and the two ends meet? (liveness) | two endpoints of one network name, two scans, one restart of any of the four | 638,049 |
| `plant` | Does the pump follow the soil, and the label the pump? (liveness) | three levels, two connections of the pot, two runs of the service, one move of a slider | 319,344 |
| `plant_stop` | Does a pump that is switched off come to rest? (violated) | one connection, one run | — |

Why these bounds are enough to be interesting. Two devices and a subscriber
give every pair of threads that touch one connection (its own worker, another
client's worker, the checker); a third device behaves as the second. Names
collide because `Base` has fewer names than there are clients, and `MaxSuffix`
bounds how often one may be suffixed; a client that wants a name beyond it waits.
One type suffices, since types do not interact; `Delivery` has two so that one
may be known and the other not. In `Delivery` channels do not influence one
another, so one channel with its three producers is the whole question; three
queued messages hold an introduction with both its types. In `UxTracker` a
control and a notification share the polling but no data, so they are checked
apart; two versions are enough to be one behind, and two selections give a page
two sessions and two polling loops that answer each other's. In `UxControllers`
what matters is a pair of channels with one name, alive together or one after
the other; a third only repeats the pair. In `VariableSync` two variables make
ids that could be confused, and five messages two named registrations and an
assignment between or after them. In `Provisioning` two endpoints
are enough for an answer to reach the wrong one and for two questions to be open
together; two scans let a question outlive the scan that asked it and be answered
late, and one restart may fall anywhere; longer sequences are the same steps
again, and the proofs cover them. In
`PlantCare` three levels are below, in and above the interval; two connections
and two runs are an old one and its successor.

### Properties

Broker. `Lifecycle` (no dangling reference; a worker runs only for a connection
in the table; notices come from destructors), `DirectoryExact`,
`ReceiversIntroduced`, `SubscribersKnowTypes`, `TerminationFinal`,
`NoSilentLoss` and `AllMeansAll` (action properties), `AllSubscribersKnowNames`,
`ImplementsNameService` (refinement), `SubscribersAreTold` (liveness). The exceptions they name are real:

* `DirectoryExact`: a client that registers twice leaves its first name in the
  directory for good. No client of the repository does.
* `SubscribersKnowTypes` is for channels whose clients send no directed
  messages. For the others it is false: see `directed` below.
* `AllSubscribersKnowNames`: a client introduced to a channel *before* it
  registered knows it as "".
* `SubscribersAreTold`: a dead connection that something still holds — a cycle
  of subscriptions, or its own place in `subscribedToAll`, from which
  `removeConnection` fails to take it — is kept for ever and its subscribers
  are never told.

Delivery. `SelfIntroducedHeard`, `DrainedKnown`, `TerminationForgets`. The
exceptions: a channel introduced by the receiver's own subscription may have its
first messages overtake the introduction; a termination may overtake one too, and then leaves a delegator behind; a type
mapped while the receiver was unsubscribed is unknown.

UX controller. `NothingUntold`, `NoticesAgree`, `PageCatchesUp`. The
exceptions: a toggle or slider moved by one user may go unnoticed by a session
that polls between the two halves of the handler; a page that lost a response,
slept for half a minute or selected twice may keep showing old values; a page
that answered a notification does not show it while its request is under way,
and never again if the request is lost, although the notification is still
pending and every other page shows it (`acted`); a notification that was pending
before a session began is not taken off its page when another page dismisses it.
The order in which two responses of one session are applied on a page with two
polling loops is left to the loops, and is what `PageCatchesUp` exempts by
speaking of pages that selected once.

Controllers. `ListedAreKnown`, `OthersSpared`, `DevicesAppear`,
`LeaversVanish`. The exceptions:

* two connections known by one name at the same time (`overlapped`): the second
  is not listed, and the end of either takes whichever is listed off the list;
* a device that has the name of one without a user interface (`HasNamesake`):
  the `Unsubscribe` that is meant for the latter is by name, and may hit the
  former, which then never appears;
* a termination that overtakes the introduction of its channel: the controller
  stays listed for good;
* an HTTP thread that uses a controller after it was cleared: the service goes
  down, and every property speaks of the time until then or after its restart.

Variables. `ImplementsSnapshot` (refinement), `Informed`, `NamesAgree`,
`ReadableSoon`. They hold without exception for the use the repository makes of
contexts: one thread per context, a variable registered once, the empty name for
none. `get(name)` indexes `inVariables` unchecked where its documentation
promises an empty handle; `ReadableSoon` says how long that matters: from the
message with the name until the very next one, which the owner has sent already.

Provisioning. `ConfiguredIfAccepted`, `NameIsListed`, `NotForgotten`,
`ScanEnds`, `LinkComesUp`. The exceptions:

* `ConfiguredIfAccepted` bounds how many configurations there are by how many
  acceptances. *Which* endpoint is configured it does not say, for the code does
  not decide it: an acceptance reaches whichever endpoint the shared network
  name leads to. Endpoints with names of their own, which the repository does
  not have, would need the identity that `Join` and `Respond` leave open;
* `NotForgotten` relates the number of entries of `previouslyScanned` to the
  number of questions open. An endpoint that did not tell its details before the
  device left, an answer with which no endpoint could be joined, and a question
  that had the action id of another open one each leave an entry for good
  (`forgotten`); because the name is shared, one such entry keeps *every*
  endpoint from being offered until the device restarts;
* `ScanEnds`: a network that cannot be joined makes `scanNetworks` return
  without `ScanFinished`, and a restart of either end does the same; the service
  then shows a scan for ever and refuses to start another (`joinFailed`).

Plant care. `LabelAgrees`, `WetStops`, `DryStarts`, `PumpRests`. The exceptions:
a command for a pot that is not known yet is swallowed, together with the edge
that caused it (`swallowed`); the service subscribes once, so that a pot that
was not there then, or came back, is heard of only after the service restarts
(`Linked`); a pulse that was cut short, below (`cutShort`).

### Findings

`directed` is expected to fail. `Connection::registerSubscription` carries the
comment "forward current mappings" (`Connection.cpp:146`). If the subscriber
was introduced before by a directed message, `sendMappings` sends nothing, and
the types mapped in between never reach it.

`plant_stop` is expected to fail. `PlantMessages.h:24` says of `TogglePump`
"true - irrigate, false - stop". The pump runs while its pin is LOW
(`toggleRealPump`, `smartpot.ino:114`). When a stop arrives in the middle of a
pulse, `RealPot::loop` (`smartpot.ino:85`) writes LOW and notes the pump as off:
it runs on until the end of a later pulse, or a reboot.

## 4. Fairness

`Dispatch`: weak fairness of `Finish(c)` (a worker that started a handler
completes it; the handlers block on locks that are released) and of
`CheckActiveConnections` (the checker loops for as long as the process lives).
Clients owe nothing. Weak fairness on the checker means that it is not starved
of `connectionMutex` for ever: in a bounded instance registrations run out, in
the code a client that re-registers endlessly could compete with it, which an
operating system's mutex does not let win for ever.

`Delivery`: weak fairness of `Send`, the loop of the receiver's worker.

`VariableSync`: none; it states safety and a refinement without liveness.

`Provisioning`: weak fairness of `ServiceLoop` and of `DeviceLoop`, the two ends
of the serial line as a whole (`loopBlocking`; the device's `loop` with
`scanNetworks` and its keep-alive clock): each goes on as long as it has
something to do. That a join succeeds or fails is fair, which of the two, and
which endpoint it leads to, is not. Users, faults and endpoints owe nothing, and nobody has
to start the service.

`UxControllers`: weak fairness of the thread that reads the socket, of the
broker's destructors, of the device's answer and of the delivery of an
`Unsubscribe`. Users and HTTP threads owe nothing, devices need not connect, and
nobody has to restart a crashed service.

`PlantCare`: weak fairness of the pot's loop and of its pulses and pauses, which
have an end, of the delivery of readings, commands, the subscription and the
introduction. The soil, the user and connections owe nothing.

`UxTracker`: weak fairness of the second half of each handler, of each polling
loop (its timer, the steps of its request, the parsing) and of
`HandleNotification`: an answer that is on its way arrives, unless it is lost,
which it may be at any time before. Devices, users, loss and sleep owe nothing;
the liveness property speaks of pages that lost nothing and never slept.

## 5. Proofs

Every theorem holds for every value of the constants under the assumption of
its module (the special values are distinct, the bounds are natural numbers,
`Id` of `UxControllers`, `Page` of `UxTracker` and `Types` of `Delivery` are
finite). The inductive
invariants were checked by TLC first.

* `DispatchProofs`: `TypeCorrect`, `LifecycleHolds`. `TypeOK /\ Lifecycle` is
  inductive. The heart is `ReleaseSafe`: `Kept` is closed under the references
  of what it keeps (`KeptClosed`), so whatever refers to a destroyed object was
  destroyed with it; then every action is an instance of it or of `JoiningSafe`.
  The second half of the module is about the directory: `DirectoryIsExact`,
  `TerminationIsFinal`, `DirectoryRefines`. The invariant adds `DirectoryExact`
  and `NamesInOrder`, which ties a name to a connection between the two steps
  of a registration: without it `FinishRegisterChannel` could set a name that
  belongs to another. `DirectoryRefines` assumes `RegistersOnce`.
* `DispatchIntroductionProofs`: `NobodyDroppedSilently`,
  `EveryReceiverIntroduced`, `EverySubscriberKnowsTypes`. The inductive
  invariant adds `IntroducedReceive`: where no directed messages are sent,
  whoever was introduced to a living channel is in its `subs`. Without it
  `SubscribersKnowTypes` is not inductive: someone in `sentMapping` but not in
  `subs` would miss a mapping and then join without being sent it — which is
  what `directed` shows to happen once directed messages are allowed. All
  joins are instances of `JoinStep`, all departures of `LeaveStep`.

  `EveryNameIsKnown` and `NothingIsMissed` are about subscribers to everything
  and rest on `AllInvariant`, whose part `Everything` says that whoever makes no
  subscription of its own is in a list only because it is in `subscribedToAll`,
  from which nobody is ever taken (`NobodyUnsubscribed`), and that a connection
  is unnamed until it registers. `ListsStep` names the four actions that add to
  the lists and describes all the others at once.

  `NothingLingers` is the other half of `Lifecycle`: not only does nothing refer
  to what was destroyed, whatever is not destroyed is held. `Kept` is the
  largest set of its kind, so each of its members is held from outside or by
  another member (`KeptHeld`), and after a release nothing else lives
  (`ReleaseHeld`). Hence `CheckerFindsStopped`: a stopped connection that
  nothing but the table holds is seen by the checker and destroyed in its next
  round, each of its subscribers with a notice.
* `DeliveryProofs`: `DeliveryTypesCorrect`, `SelfIntroducedAreHeard`,
  `DrainedIsKnown`. The invariant speaks of one thread's queue at a time: in the
  queue of the receiver's worker an introduction precedes every type
  (`Introduced`), in that of a channel which introduced itself an introduction
  precedes everything and a mapping every payload of its type, and each type
  mapped is known or still queued (`SelfIntroduced`). `QueueSound` says which
  messages a thread may have on the queue at all. The lemmas `Grown...` and
  `Shrunk...` carry this over an append and a dequeue; `BrokerStep` describes
  every step of the broker at once, and `BrokerSteps` shows of each action that
  it is one. `late` exists because the statement is false without it.
  `LeaversStayForgotten`: a channel whose termination is behind all its
  introductions (`Leaving`) stays so until the endpoint has
  forgotten it, and is never introduced again; a destroyed channel enqueues
  nothing, and a dequeue takes the termination only to forget.
* `VariableProofs`: `SnapshotImplemented`, `SubscribersInformed`, `NamesLead`,
  `ReadableAtOnce`, `VariablesTypeCorrect`. The invariant reads the log as a
  program: `published[i + 1]` is message `i` applied to `published[i]`
  (`Applied`), and the reader is at one of these states (`ReaderAtLog`). So the
  reader's own numbering agrees with the owner's, although no message says so;
  a refinement step is then one more position. `OneList` (a callback waits in
  one place) makes `Informed` inductive. `CaughtUpReaderAgrees` reads the same
  invariant at the end of the log: the state reached there is the owner's own.
* `UxControllerProofs`: `UxControllersTypesCorrect`, `ListedBelong`,
  `OthersAreSpared`. `Agreement`: the controller behind a delegator is the last
  one built for its connection, and only built ones are cleared, so that a new
  one is never among the cleared. For `OthersSpared`, `SpareInv`: two known
  channels of one name were known together, and only a device without a user
  interface says that it has none, wherever its message is on the queue.

  `DevicesAreHeard`, `RestingListIsComplete`, `LeaversStayAway`. `ShownInv`
  follows a device from the broker to the browser: who is registered is known or
  an introduction of it is queued (`RegisteredHeard`); who is heard of and has no
  namesake is subscribed to (`HeardSubscribed`), for an `Unsubscribe` of its name
  can only be meant for a namesake; and who is known is still asked, or its
  answer is queued, or its controls are there (`KnownAsked`). `SaysTrue` says
  that terminations on the queues are of destroyed connections, which is what
  makes a departure final. The lemmas `...Queued` say of each action which
  messages are queued after it, whatever the queues; `RestartQueued` does it for
  the introductions to a new run of the service.
* `PlantCareProofs`: `PlantTypesCorrect`, `LabelIsRight`. The invariant follows
  a command from the tracker to the pot: a run of the service finds one target
  at most (`TargetOnce`), its commands are for that target and behind those of
  earlier runs (`CommandsInOrder`), the last one says what the label says
  (`LastAgrees`), and a pot that obeyed this run hears no other (`PumpObeys`).
  `PumpFollowsBand` adds what the tracker remembers (`BandsInv`): its band and
  its label agree (`BandInv`), what it asked for since it last decided was obeyed
  or is under way (`ReachedInv`), and its band is that of the last level while
  no slider moves (`EvaluatedInv`). `PumpRunsInPulses` and `CutPumpRunsOn` are about
  the pot alone and say that the finding `plant_stop` is the only way for the
  pump to run outside a pulse, and that nothing but an order to run or a reboot
  ends it.
* `ProvisioningProofs`: `ProvisioningTypesCorrect`, `StoredIfAccepted`,
  `ErasedIsListed`, `NobodyIsForgotten`. Endpoints share one name, so nothing
  tells one from another on the line, and the proofs count. `Given`: the accepts
  on the line, those in the connections to endpoints and those stored are together
  at most those the user gave; a step moves an accept from one place to the
  next, whichever endpoint it reaches. `Counted`: the answers that a device will
  read in step (`Near`) are at most its entries, and, unless a greeting on the
  line ends the argument (a device that reads it is out of step afterwards),
  entries equal questions on the line, before the user and answered, plus those
  lost. `Listed` counts the endpoint being read, whose request precedes its
  entry. `FreshStart` carries it over restarts: a device that waits and will find
  a greeting first has nothing else to come.

  `OneScanAtATime`, `LinkIsKept`. `Underway` adds up the requests to scan on the
  line and at the device, the scan going on, and the reports of its end on the
  way back; `ScanInv` says that the sum is one while the service scans and none
  otherwise. A greeting makes both sides start anew, so the invariant speaks of
  ends that are in step and is established whenever a service comes up.
  `MeetingIsKept` proves the action part of `LinkComesUp`: while the two meet, the
  device has nothing to do but to answer (`MeetingIsQuiet`), so no ping or
  reboot of its own comes between.
* `UxTrackerProofs`: `UxTrackerTypesCorrect`, `NothingGoesUntold`,
  `NoticesAreRight`. A tracker
  tracks every control (`Tracking`), and while a toggle is between its flag and
  its change every session is flagged or has been answered since
  (`ActingFlagged`), which is what `overtaken` records. `Bounded` counts the
  changes that have begun; `Selected` bounds the sessions of requests.
  `NoticesAreRight` has an invariant of its own, `NoticeInv`: on a page with one
  polling loop only the first request is forced and each notification is given
  once (`OnceAt`), so that one removal takes it away; what an answer carries is
  consistent with `pending` whenever it was filled (`Answers`); and a session
  with a tracker keeps a note of what it was promised (`Noted`). An answer of the
  user is "posted", "lost" or "taken" from then on, and while a notification is
  pending no answer to it was taken (`Pages`): so a calm page that shows nothing
  of it has an answer under way or lost, which is the exception the theorem names. `LoopStep`
  says once what a step of a polling loop owes to the other pages.

  `ScreenInvariant` and `RestingPagesAreRight` bring the two together on the
  screen. `RelayedAt`: what a calm page shows of a control, overlaid with the
  answer it carries, is what its session was told last; with `NothingUntold` and
  `NoticesAgree` that is the truth once nothing is flagged and no answer of its
  own is under way, but for notifications its answer to was lost.

Every invariant and every action property that a run expects to hold is a
theorem, and so are both refinements. Only model-checked is every liveness
property: liveness under fairness and `ENABLED` are beyond the prover, as is
induction over recursively defined data. The modules declare no recursive
operators. What is proved of a liveness property is the safety it rests on: that
a state in which nothing is under way is a right one, or that what was reached
is kept. Progress to such a state is what TLC adds.

| Liveness property | Safety proved for every value of the constants |
|---|---|
| `SubscribersAreTold` | `CheckerFindsStopped`, `NothingLingers` |
| `TerminationForgets` | `LeaversStayForgotten` |
| `PageCatchesUp` | `RestingPagesAreRight` |
| `DevicesAppear` | `RestingListIsComplete` |
| `LeaversVanish` | `LeaversStayAway` |
| `ScanEnds` | `OneScanAtATime` |
| `LinkComesUp` | `MeetingIsKept` (its action part), `LinkIsKept` |
| `WetStops`, `DryStarts` | `PumpFollowsBand` |
| `PumpRests` | `PumpRunsInPulses`, `CutPumpRunsOn` |

## 6. What the models leave out, and why

* Reads of `std::map` and `std::vector` members without a lock while another
  thread changes them (`getConnection`, `sentMapping`, `addTracker`'s look at
  `pendingNotifications`) are data races. They are modelled as atomic reads:
  the outcomes of a race on a map node have no finite description.
* `sendTo`'s handshake and `registerSubscription` use different locks for
  `sentMapping`; both are atomic here, so that a doubled introduction, which an
  endpoint ignores, does not appear.
* `RequestAllChannels` reads the directory and replies; `~Dispatch`, `sendAll`
  and `unsubsribeAll` run only when the service ends, which it does not.
* A channel registered under the name "" would deadlock `registerChannel` on
  its own mutex; no client does it and `Base` has no such name.
* The wire format, the callbacks an endpoint runs for a new channel, HTML
  rendering, hashing and logging.
* In `UxTracker`, the ghost entries that `addTracker` makes in the tracker of
  controls for pending notifications: they only keep `hasUpdates` true.
* In `UxTracker`, the `clear` of a removed controller, which `UxControllers`
  has, and the second controller a page may select.
* In `VariableSync`, `registerInVariable` with a name, which only tests call;
  the types of values (a value stands for its type); two threads on a context,
  which nothing guards.
* In `Provisioning`, the progress bar, log lines, the contents of the
  configuration, and networks of a name other than the one all endpoints open
  (`Structures.cpp:7`).
* In `PlantCare`, the order of commands between two runs of the service: they are
  one FIFO, while in the broker the workers of the two connections enqueue each
  for itself, so that a late command of the old run might overtake a first one of
  the new. Light (the same tracker), temperature and humidity, scores,
  the settings file, and calibration: two equal ends make it divide by zero, in
  one function of one reading.
* The login store: `load` and the expiry are faults or merits of one function at
  a time, and its race on the map of tokens has no finite description.
* The framing (`MessageBuilder`, `ByteStream`, `TypeMapper`): a single-threaded
  reader of bytes, whose risks are sizes and widths that small instances do not
  tell apart. Everything above takes a frame as one message.
* The thermostat, `Endpoint`, `Rotary`, `DiagnosticsService` and `PlantTester`
  make requests that `Dispatch` offers to its clients, in a straight line.
* Plugins, sockets, serial streams, templates and vendored code.

## 7. Plan

Done, in the order of importance: `NameService` and `Dispatch` with their proofs
(everything else rests on the broker), `Delivery`, `UxTracker`, `UxControllers`,
`VariableSync` with `SnapshotReader`, `Provisioning`, `PlantCare`, the proofs
of each, and of the safety that the liveness properties rest on.

Left: `UxControllers` composed with `UxTracker`, for the page that polls a
controller while it is cleared.
