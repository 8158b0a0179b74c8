--------------------------- MODULE UxControllers ----------------------------
(***************************************************************************)
(* The controllers of the UX service: one object for every channel that is *)
(* announced to it, of which the browser reaches those listed by name in   *)
(* UxControllers.                                                          *)
(*                                                                         *)
(* The thread that reads the socket knows channels by id, the list knows   *)
(* them by name, and names outlive connections: a device that comes back   *)
(* has a new id, its old name, and an old connection that may not have been*)
(* terminated yet.  HTTP threads look a controller up and use it later.    *)
(*                                                                         *)
(* What the broker sends is a FIFO for each thread of the broker that      *)
(* enqueues it and has no order between them (see Delivery).  Type mappings*)
(* and the controls of a state are left out: the state is one message.     *)
(***************************************************************************)
EXTENDS Naturals, Sequences, SequencesExt, FiniteSets

CONSTANTS
  Id,         \* connections of devices, in no order
  NameOf,     \* the name each registers
  Unnamed,    \* the "" it is called before
  Request,    \* HTTP threads
  Receiver,   \* the broker's thread for the connection of the UX service
  Checker,    \* the broker's thread that destroys connections
  NoObject,   \* no controller
  MaxCrashes  \* bound: crashes of the UX service

Name   == {NameOf[c] : c \in Id}
Thread == Id \cup {Receiver, Checker}
Object == Id \X Nat    \* <<c, k>>: the k-th controller built for c

ASSUME UxControllersAssumption ==
  /\ IsFiniteSet(Id)
  /\ Unnamed \notin Name
  /\ Receiver \notin Id /\ Checker \notin Id /\ Receiver # Checker
  /\ NoObject \notin Object
  /\ MaxCrashes \in Nat

VARIABLES
  status,       \* broker: of each connection; "removed" is out of the
                \* directory but not yet destroyed
  withUi,       \* those whose device has a user interface
  subs,         \* broker: connections with the UX service in their subs
  messagesOut,  \* what the broker has for the UX service, by thread
  asked,        \* connections with a RequestControllerState on its way
  leaving,      \* names with an Unsubscribe on its way
  delegators,   \* UX service: the controller behind the delegator of each id
  channelNames, \* UX service: the name of each id in delegators
  built,        \* UX service: how many controllers it has built for each id
  controllers,  \* UxControllers::controllers
  cleared,      \* controllers that were cleared
  filled,       \* controllers that have controls
  handle,       \* the controller each HTTP thread has looked up
  crashed,      \* the UX service is down
  crashes,      \* how often it crashed
  overlapped    \* history: ids that were known together with a namesake

broker  == <<status, withUi, subs, asked, leaving>>
service == <<delegators, channelNames, built, controllers, cleared, filled>>
run     == <<crashed, crashes>>
vars == <<broker, messagesOut, service, handle, run, overlapped>>

Mapping(c, n) == [kind |-> "mapping", from |-> c, name |-> n]
State(c)      == [kind |-> "state", from |-> c]
NoUx(c)       == [kind |-> "noUx", from |-> c]    \* NoControllerResponse
Gone(c)       == [kind |-> "gone", from |-> c]

Message == [kind : {"mapping"}, from : Id, name : Name \cup {Unnamed}]
           \cup [kind : {"state", "noUx", "gone"}, from : Id]

Status == {"new", "connected", "registered", "removed", "destroyed"}

TypeOK ==
  /\ status \in [Id -> Status]
  /\ withUi \in SUBSET Id
  /\ subs \in SUBSET Id /\ asked \in SUBSET Id /\ leaving \in SUBSET Name
  /\ messagesOut \in [Thread -> Seq(Message)]
  /\ delegators \in [Id -> Object \cup {NoObject}]
  /\ channelNames \in [Id -> Name \cup {Unnamed}]
  /\ built \in [Id -> Nat]
  /\ controllers \in [Name \cup {Unnamed} -> Object \cup {NoObject}]
  /\ cleared \in SUBSET Object /\ filled \in SUBSET Object
  /\ handle \in [Request -> Object \cup {NoObject}]
  /\ crashed \in BOOLEAN /\ crashes \in 0..MaxCrashes
  /\ overlapped \in SUBSET Id

NothingKnown ==
  /\ delegators' = [c \in Id |-> NoObject]
  /\ channelNames' = [c \in Id |-> Unnamed]
  /\ built' = [c \in Id |-> 0]
  /\ controllers' = [n \in Name \cup {Unnamed} |-> NoObject]
  /\ cleared' = {} /\ filled' = {}
  /\ handle' = [r \in Request |-> NoObject]
  /\ overlapped' = {}

Init ==
  /\ status = [c \in Id |-> "new"]
  /\ withUi = {} /\ subs = {} /\ asked = {} /\ leaving = {}
  /\ messagesOut = [p \in Thread |-> <<>>]
  /\ delegators = [c \in Id |-> NoObject]
  /\ channelNames = [c \in Id |-> Unnamed]
  /\ built = [c \in Id |-> 0]
  /\ controllers = [n \in Name \cup {Unnamed} |-> NoObject]
  /\ cleared = {} /\ filled = {}
  /\ handle = [r \in Request |-> NoObject]
  /\ crashed = FALSE /\ crashes = 0
  /\ overlapped = {}

-----------------------------------------------------------------------------
(* The broker and the devices.                                             *)

Alive == {c \in Id : status[c] \in {"connected", "registered"}}

(* While the UX service is down nothing is kept for it.                    *)
Enqueued(p, ms) ==
  messagesOut' = IF crashed THEN messagesOut
                 ELSE [messagesOut EXCEPT ![p] = @ \o ms]

Connect(c, ui) ==
  /\ status[c] = "new"
  /\ status' = [status EXCEPT ![c] = "connected"]
  /\ withUi' = IF ui THEN withUi \cup {c} ELSE withUi
  /\ UNCHANGED <<subs, asked, leaving, messagesOut, service, handle, run,
                 overlapped>>

(* registerChannel: a name is suffixed if it is taken, so c has the name it*)
(* is known by only if that is free.  The UX service, subscribed to        *)
(* everything, is told the name, and again unless it was introduced before.*)
Register(c) ==
  /\ status[c] = "connected"
  /\ \A d \in Id : status[d] = "registered" => NameOf[d] # NameOf[c]
  /\ status' = [status EXCEPT ![c] = "registered"]
  /\ Enqueued(c, IF c \in subs THEN <<Mapping(c, NameOf[c])>>
                 ELSE <<Mapping(c, NameOf[c]), Mapping(c, NameOf[c])>>)
  /\ subs' = IF crashed THEN subs ELSE subs \cup {c}
  /\ UNCHANGED <<withUi, asked, leaving, service, handle, run, overlapped>>

(* removeConnection: the name is free from now on.                         *)
RemoveConnection(c) ==
  /\ c \in Alive
  /\ status' = [status EXCEPT ![c] = "removed"]
  /\ UNCHANGED <<withUi, subs, asked, leaving, messagesOut, service, handle,
                 run, overlapped>>

(* ~Connection: clearSubscriptions.                                        *)
Destroy(c) ==
  /\ status[c] = "removed"
  /\ status' = [status EXCEPT ![c] = "destroyed"]
  /\ Enqueued(Checker, IF c \in subs THEN <<Gone(c)>> ELSE <<>>)
  /\ subs' = subs \ {c}
  /\ UNCHANGED <<withUi, asked, leaving, service, handle, run, overlapped>>

(* The device answers a RequestControllerState, to all its subscribers.    *)
Answer(c) ==
  /\ c \in asked
  /\ asked' = asked \ {c}
  /\ Enqueued(c, IF c \notin subs \cap Alive THEN <<>>
                 ELSE IF c \in withUi THEN <<State(c)>> ELSE <<NoUx(c)>>)
  /\ UNCHANGED <<status, withUi, subs, leaving, service, handle, run,
                 overlapped>>

(* unsubscribe(name): whoever has the name now.                            *)
Unsubscribe(n) ==
  /\ n \in leaving
  /\ leaving' = leaving \ {n}
  /\ subs' = {c \in subs : ~(status[c] = "registered" /\ NameOf[c] = n)}
  /\ UNCHANGED <<status, withUi, asked, messagesOut, service, handle, run,
                 overlapped>>

-----------------------------------------------------------------------------
(* The thread of the UX service that reads the socket.                     *)

Known == {c \in Id : delegators[c] # NoObject}

(* A mapping of a known id is passed over.                                 *)
FreshAlways(c) == TRUE                                                \* mutant
Fresh(c) == c \notin Known

(* addController: the first of a name is listed.                           *)
Added(n, o) ==
  [controllers EXCEPT ![n] = IF @ = NoObject THEN o ELSE @]

(* requestState.                                                           *)
NotAsked(c) == asked                                                  \* mutant
Asked(c) == asked \cup {c}

(* removeController: whichever is listed by the name.                      *)
RemoveController(n) ==
  /\ controllers' = [controllers EXCEPT ![n] = NoObject]
  /\ cleared' = cleared \cup ({controllers[n]} \ {NoObject})
  /\ filled' = filled \ {controllers[n]}

(* notifyMapping and provide, which asks the channel for its state.        *)
NotifyMapping(m) ==
  LET c == m.from
      o == <<c, built[c] + 1>>
  IN  /\ m.kind = "mapping" /\ Fresh(c)
      /\ built' = [built EXCEPT ![c] = @ + 1]
      /\ delegators' = [delegators EXCEPT ![c] = o]
      /\ channelNames' = [channelNames EXCEPT ![c] = m.name]
      /\ controllers' = Added(m.name, o)
      /\ asked' = Asked(c)
      /\ overlapped' = overlapped \cup
           LET namesakes == {d \in Known \ {c} : channelNames[d] = m.name}
           IN  IF namesakes = {} THEN {} ELSE namesakes \cup {c}
      /\ UNCHANGED <<leaving, cleared, filled>>

(* Controls go to the controller behind the delegator, listed or not.      *)
Fill(m) ==
  /\ m.kind = "state" /\ m.from \in Known
  /\ filled' = filled \cup {delegators[m.from]}
  /\ UNCHANGED <<asked, leaving, delegators, channelNames, built, controllers,
                 cleared, overlapped>>

(* notifyNoUx and removeControllerNoUx, unless the channel is known by "". *)
(* The delegator stays.                                                    *)
HasAnyName(c) == TRUE                                                 \* mutant
HasName(c) == channelNames[c] # Unnamed

NotifyNoUx(m) ==
  /\ m.kind = "noUx" /\ m.from \in Known
  /\ IF HasName(m.from)
     THEN /\ RemoveController(channelNames[m.from])
          /\ leaving' = leaving \cup {channelNames[m.from]}
     ELSE UNCHANGED <<controllers, cleared, filled, leaving>>
  /\ UNCHANGED <<asked, delegators, channelNames, built, overlapped>>

(* notifyTermination: the subscriber looks the name up before it is erased.*)
NameErased(c) == Unnamed                                              \* mutant
NameKept(c) == channelNames[c]

NotifyTermination(m) ==
  /\ m.kind = "gone" /\ m.from \in Known
  /\ RemoveController(NameKept(m.from))
  /\ delegators' = [delegators EXCEPT ![m.from] = NoObject]
  /\ channelNames' = [channelNames EXCEPT ![m.from] = Unnamed]
  /\ UNCHANGED <<asked, leaving, built, overlapped>>

(* A mapping of a known id, or anything else of an unknown one.            *)
Ignore(m) ==
  /\ (m.kind = "mapping") <=> (m.from \in Known)
  /\ UNCHANGED <<asked, leaving, service, overlapped>>

PollAndRead ==
  \E p \in Thread :
    /\ ~crashed
    /\ messagesOut[p] # <<>>
    /\ LET m == Head(messagesOut[p])
       IN  NotifyMapping(m) \/ Fill(m) \/ NotifyNoUx(m) \/ NotifyTermination(m)
           \/ Ignore(m)
    /\ messagesOut' = [messagesOut EXCEPT ![p] = Tail(@)]
    /\ UNCHANGED <<status, withUi, subs, handle, run>>

-----------------------------------------------------------------------------
(* HTTP threads, on a forced update: getController ...                     *)
GetController(r, n) ==
  /\ ~crashed
  /\ handle[r] = NoObject /\ controllers[n] # NoObject
  /\ handle' = [handle EXCEPT ![r] = controllers[n]]
  /\ UNCHANGED <<broker, messagesOut, service, run, overlapped>>

(* ... and then addTracker and getUpdates, which uses the generator that a *)
(* cleared controller has lost.  A bound on crashes is a bound on those.   *)
GetUpdates(r) ==
  /\ ~crashed
  /\ handle[r] # NoObject
  /\ handle[r] \in cleared => crashes < MaxCrashes
  /\ handle' = [handle EXCEPT ![r] = NoObject]
  /\ crashed' = (handle[r] \in cleared)
  /\ crashes' = IF crashed' THEN crashes + 1 ELSE crashes
  /\ UNCHANGED <<broker, messagesOut, service, overlapped>>

(* main, after a crash: a new connection, subscribed to everything.        *)
Restart ==
  LET cs == SetToSeq(Alive)
  IN  /\ crashed
      /\ crashed' = FALSE
      /\ NothingKnown
      /\ subs' = Alive
      /\ leaving' = {}
      /\ messagesOut' = [p \in Thread |->
           IF p # Receiver THEN <<>>
           ELSE [i \in 1..Len(cs) |->
                   Mapping(cs[i], IF status[cs[i]] = "registered"
                                  THEN NameOf[cs[i]] ELSE Unnamed)]]
      /\ UNCHANGED <<status, withUi, asked, crashes>>

-----------------------------------------------------------------------------
Next ==
  \/ \E c \in Id, ui \in BOOLEAN : Connect(c, ui)
  \/ \E c \in Id : Register(c) \/ RemoveConnection(c) \/ Destroy(c) \/ Answer(c)
  \/ \E n \in Name : Unsubscribe(n)
  \/ PollAndRead
  \/ \E r \in Request : GetUpdates(r) \/ \E n \in Name : GetController(r, n)
  \/ Restart

Spec == Init /\ [][Next]_vars

(* The broker, the devices and the UX service run loops.  Users owe        *)
(* nothing, and nobody has to restart the service.                         *)
FairSpec ==
  /\ Spec
  /\ WF_vars(PollAndRead)
  /\ \A c \in Id : WF_vars(Answer(c)) /\ WF_vars(Destroy(c))
  /\ \A n \in Name : WF_vars(Unsubscribe(n))

-----------------------------------------------------------------------------
(* A controller that is listed belongs to a channel that is known by that  *)
(* name, and was never cleared: what the browser finds still has somebody  *)
(* behind it, whatever order terminations and mappings came in             *)
(* (removeController, notifyTermination).                                  *)
ListedAreKnown ==
  \A n \in Name \cup {Unnamed} :
    controllers[n] # NoObject =>
      LET c == controllers[n][1]
      IN  /\ delegators[c] = controllers[n]
          /\ channelNames[c] = n
          /\ controllers[n] \notin cleared

Listed(c) == c \in Known /\ controllers[channelNames[c]] = delegators[c]

(* Every known channel with a user interface is listed, unless a namesake  *)
(* was known at the same time: only then does it take the other's place, or*)
(* the other's termination takes it away.                                  *)
OthersSpared ==
  \A c \in (Known \cap withUi) \ overlapped : Listed(c)

(* A device without a user interface has had the name of c, so that the    *)
(* Unsubscribe meant for that device may hit c.                            *)
HasNamesake(c) ==
  \E d \in Id \ ({c} \cup withUi) : NameOf[d] = NameOf[c] /\ status[d] # "new"

(* A registered device with a user interface appears in the browser with   *)
(* its controls, also after the UX service crashed and came back.          *)
DevicesAppear ==
  \A c \in Id :
    (status[c] = "registered" /\ c \in withUi /\ ~crashed)
      ~> \/ Listed(c) /\ delegators[c] \in filled
         \/ status[c] # "registered" \/ crashed
         \/ c \in overlapped \/ HasNamesake(c)

Queued(m) ==
  \E p \in Thread : \E i \in 1..Len(messagesOut[p]) : messagesOut[p][i] = m

(* A device that left disappears from the browser, unless its termination  *)
(* overtakes an introduction.                                              *)
LeaversVanish ==
  \A c \in Id :
    ( /\ Queued(Gone(c)) /\ ~crashed
      /\ ~Queued(Mapping(c, NameOf[c])) /\ ~Queued(Mapping(c, Unnamed)) )
    ~> (crashed \/ [](c \notin Known /\ ~\E n \in Name \cup {Unnamed} :
                        controllers[n] # NoObject /\ controllers[n][1] = c))
=============================================================================
