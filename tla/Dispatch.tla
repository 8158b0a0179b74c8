------------------------------ MODULE Dispatch ------------------------------
(***************************************************************************)
(* The broker of CommProtoService: the Dispatch object (directory of       *)
(* channel names, table of connections, list of subscribers to everything) *)
(* and its Connection objects, each driven by one worker thread.           *)
(*                                                                         *)
(* Threads: the acceptor (addConnection), the checker (removes dead        *)
(* connections), and one worker per connection, which runs that client's   *)
(* requests one at a time.  A handler is split into two actions exactly    *)
(* where it lets another thread in between: where it uses a handle or a    *)
(* table after the lookup that gave it, or before the lock that guards it. *)
(*                                                                         *)
(* Messages are not delivered here: told[s] collects what was ever put on  *)
(* the output queue of s (the order of delivery is another matter).        *)
(***************************************************************************)
EXTENDS Naturals

CONSTANTS
  Id,         \* connection ids; idCounter hands each out once
  NoId,       \* the 0 that getId returns for an unknown name
  Base,       \* the channel names clients ask for (never "")
  MaxSuffix,  \* bound: how many "#1" suffixes a name may collect
  Unnamed,    \* the "" that a connection is called before it registers
  Types,      \* message types a client maps; bound on its mappings
  Requests    \* the kinds of request each client makes, by id

Name == Base \X (0..MaxSuffix)    \* <<b, k>> is b followed by "#1" k times

RequestKinds == {"register", "rename", "subscribe", "subscribeAll",
                 "unsubscribe", "mapType", "sendTo"}

ASSUME DispatchAssumption ==
  /\ NoId \notin Id
  /\ MaxSuffix \in Nat
  /\ Unnamed \notin Name
  /\ Requests \in [Id -> SUBSET RequestKinds]

VARIABLES
  accepted,         \* ids handed out so far
  connections,      \* ids in Dispatch::connections
  connectionMapping,\* Dispatch::connectionMapping; NoId where a name is absent
  subscribedToAll,  \* ids in Dispatch::subscribedToAll
  running,          \* Connection::running
  name,             \* Connection::name
  subs,             \* Connection::subs: who receives what this client sends
  sentMapping,      \* Connection::sentMapping: who was introduced to it
  types,            \* what the client mapped (ParserDelegator::nameToId)
  task,             \* what the worker is in the middle of
  destroyed,        \* objects whose destructor has run
  told              \* history: what was enqueued on messagesOut

vars == <<accepted, connections, connectionMapping, subscribedToAll, running,
          name, subs, sentMapping, types, task, destroyed, told>>

-----------------------------------------------------------------------------
(* Messages a client is sent about the channels of others.  Of the name in *)
(* a channel mapping only whether it is a name or still "" is kept.        *)

ChannelMsg(c, n) == [kind |-> "channel", from |-> c, arg |-> n # Unnamed]
TypeMsg(c, t)    == [kind |-> "type", from |-> c, arg |-> t]

GoneMsgSwapped(c) == [kind |-> "gone", from |-> NoId, arg |-> c]     \* mutant
GoneMsg(c)        == [kind |-> "gone", from |-> c, arg |-> NoId]

Message == [kind : {"channel"}, from : Id, arg : BOOLEAN]
           \cup [kind : {"type"}, from : Id, arg : Types]
           \cup [kind : {"gone"}, from : Id, arg : {NoId}]

(* What the worker of a connection is in the middle of.                    *)
Idle           == [op |-> "idle", arg |-> NoId]
Registering(n) == [op |-> "register", arg |-> n]     \* holds connectionMutex
Subscribing(t) == [op |-> "subscribe", arg |-> t]    \* holds a handle on t
Leaving(t)     == [op |-> "unsubscribe", arg |-> t]  \* holds a handle on t
Forwarding(ty) == [op |-> "forward", arg |-> ty]

Task == {Idle} \cup [op : {"register"}, arg : Name]
        \cup [op : {"subscribe", "unsubscribe"}, arg : Id]
        \cup [op : {"forward"}, arg : Types]

TypeOK ==
  /\ accepted \subseteq Id
  /\ connections \subseteq Id
  /\ connectionMapping \in [Name -> Id \cup {NoId}]
  /\ subscribedToAll \subseteq Id
  /\ running \subseteq Id
  /\ name \in [Id -> Name \cup {Unnamed}]
  /\ subs \in [Id -> SUBSET Id]
  /\ sentMapping \in [Id -> SUBSET Id]
  /\ types \in [Id -> SUBSET Types]
  /\ task \in [Id -> Task]
  /\ destroyed \subseteq Id
  /\ told \in [Id -> SUBSET Message]

Init ==
  /\ accepted = {}
  /\ connections = {}
  /\ connectionMapping = [n \in Name |-> NoId]
  /\ subscribedToAll = {}
  /\ running = {}
  /\ name = [c \in Id |-> Unnamed]
  /\ subs = [c \in Id |-> {}]
  /\ sentMapping = [c \in Id |-> {}]
  /\ types = [c \in Id |-> {}]
  /\ task = [c \in Id |-> Idle]
  /\ destroyed = {}
  /\ told = [c \in Id |-> {}]

-----------------------------------------------------------------------------
(* Locks and threads.                                                      *)

(* connectionMutex is held across two steps only inside registerChannel.   *)
ConnectionMutexFree == \A c \in Id : task[c].op # "register"

(* The worker of c is between two messages of its client.                  *)
Ready(c, kind) ==
  /\ kind \in Requests[c]
  /\ c \in running
  /\ task[c] = Idle

(* sendMappings: the channel of c and every type c has mapped so far.      *)
IntroductionTypesOnly(c, n) == {TypeMsg(c, t) : t \in types[c]}      \* mutant
Introduction(c, n) == {ChannelMsg(c, n)} \cup {TypeMsg(c, t) : t \in types[c]}

(* registerSubscription(s) on c for every <<c, s>> of pairs, each under    *)
(* the subscriberMutex of c: s joins subs unless it is there, and is       *)
(* introduced unless sentMapping says it already was.                      *)
JoiningUnknown(pairs, c) ==                                           \* mutant
  {s \in Id : <<c, s>> \in pairs /\ s \notin sentMapping[c]}
Joining(pairs, c) == {s \in Id : <<c, s>> \in pairs /\ s \notin subs[c]}
Subscribed(pairs) == [c \in Id |-> subs[c] \cup Joining(pairs, c)]
Introduced(pairs) == [c \in Id |-> sentMapping[c] \cup Joining(pairs, c)]
Welcome(pairs, s, names) ==
  UNION {Introduction(c, names[c]) :
           c \in {d \in Id : s \in Joining(pairs, d) \ sentMapping[d]}}

-----------------------------------------------------------------------------
(* Object lifetime.  Connections are reference counted: the table, the     *)
(* subscribe-to-all list, the subs of other objects and the handle of a    *)
(* worker in mid-request keep one alive.  Counting does not collect        *)
(* cycles: Kept is the largest set of objects each held from outside or by *)
(* another of the set.                                                     *)

Existing == accepted \ destroyed

Handles(tasks) ==
  {t \in Id : \E c \in Id : tasks[c] \in {Subscribing(t), Leaving(t)}}

KeptByRoots(roots, subscribers) == Existing \cap roots                \* mutant

KeptBySubscribers(roots, subscribers) ==                              \* mutant
  {o \in Existing : o \in roots \/ subscribers[o] # {}}

Kept(roots, subscribers) ==
  UNION {S \in SUBSET Existing :
           \A o \in S : o \in roots \/ \E p \in S : o \in subscribers[p]}

(* clearSubscriptions tells every subscriber of the dying objects.         *)
NoticesWhileListed(dying, subscribers, s) ==                          \* mutant
  {GoneMsg(c) : c \in {d \in dying \cap connections : s \in subscribers[d]}}

Notices(dying, subscribers, s) ==
  {GoneMsg(c) : c \in {d \in dying : s \in subscribers[d]}}

(* Dropping the last handle runs ~Connection on the spot: stop(), then     *)
(* clearSubscriptions(), which also drops the handles on the subscribers,  *)
(* and so on down.                                                         *)
Release(roots, subscribers, queued) ==
  LET dying == Existing \ Kept(roots, subscribers)
  IN  /\ destroyed' = destroyed \cup dying
      /\ running' = running \ dying
      /\ subs' = [c \in Id |-> IF c \in dying THEN {} ELSE subscribers[c]]
      /\ told' = [s \in Id |-> queued[s] \cup Notices(dying, subscribers, s)]

-----------------------------------------------------------------------------
(* The acceptor thread.                                                    *)

AddConnection(c) ==
  /\ ConnectionMutexFree
  /\ c \notin accepted
  /\ accepted' = accepted \cup {c}
  /\ connections' = connections \cup {c}
  /\ running' = running \cup {c}
  /\ UNCHANGED <<connectionMapping, subscribedToAll, name, subs, sentMapping,
                 types, task, destroyed, told>>

(* The socket of a client fails in the send part of the worker's loop; the *)
(* loop ends and never runs another handler.                               *)
Interrupted(c) ==
  /\ c \in running
  /\ task[c] = Idle
  /\ running' = running \ {c}
  /\ UNCHANGED <<accepted, connections, connectionMapping, subscribedToAll,
                 name, subs, sentMapping, types, task, destroyed, told>>

(* unsubscribeAllNoLock looks each id up in connections before it touches  *)
(* subscribedToAll; removeConnection calls it after erasing the id.        *)
UnsubscribedNoLock(ids, table) == ids \cap table \cap subscribedToAll

Dead == connections \ running

MappingUntouched(ids) == connectionMapping                            \* mutant
MappingWithout(ids) ==
  [n \in Name |-> IF \E c \in ids : name[c] = n
                  THEN NoId ELSE connectionMapping[n]]

(* The checker thread: every stopped connection leaves the tables.         *)
CheckActiveConnections ==
  /\ ConnectionMutexFree
  /\ Dead # {}
  /\ connections' = connections \ Dead
  /\ connectionMapping' = MappingWithout(Dead)
  /\ LET unsubs == UnsubscribedNoLock(Dead, connections')
     IN  /\ subscribedToAll' = subscribedToAll \ unsubs
         /\ sentMapping' = [c \in Id |-> IF c \in connections'
                                         THEN sentMapping[c] \ unsubs
                                         ELSE sentMapping[c]]
         /\ Release(connections' \cup subscribedToAll' \cup Handles(task),
                    [c \in Id |-> IF c \in connections'
                                  THEN subs[c] \ unsubs ELSE subs[c]],
                    told)
  /\ UNCHANGED <<accepted, name, types, task>>

-----------------------------------------------------------------------------
(* registerChannel, by the worker of c under connectionMutex.  A client of *)
(* this repository registers once; a second registration is "rename".      *)

FirstName(b, k) == k = 0                                              \* mutant
FreeName(b, k) ==
  /\ connectionMapping[<<b, k>>] = NoId
  /\ \A j \in 0..MaxSuffix : j < k => connectionMapping[<<b, j>>] # NoId

(* The name, suffixed until it is free, enters the directory.              *)
RegisterChannel(c) ==
  /\ Ready(c, IF name[c] = Unnamed THEN "register" ELSE "rename")
  /\ ConnectionMutexFree
  /\ c \in connections
  /\ \E b \in Base, k \in 0..MaxSuffix :
       /\ FreeName(b, k)
       /\ connectionMapping' = [connectionMapping EXCEPT ![<<b, k>>] = c]
       /\ task' = [task EXCEPT ![c] = Registering(<<b, k>>)]
  /\ UNCHANGED <<accepted, connections, subscribedToAll, running, name, subs,
                 sentMapping, types, destroyed, told>>

Followers(c) == subscribedToAll

AnnouncementToNew(c, n, s) ==                                         \* mutant
  IF s \in Followers(c) \ subs[c] THEN {ChannelMsg(c, n)} ELSE {}
Announcement(c, n, s) ==
  IF s \in Followers(c) THEN {ChannelMsg(c, n)} ELSE {}

(* setName, then every subscriber to everything subscribes to the name:    *)
(* each is sent the channel mapping and joins subs.  Still under the lock. *)
FinishRegisterChannel(c) ==
  /\ task[c].op = "register"
  /\ LET pairs == {c} \X Followers(c)
     IN  /\ name' = [name EXCEPT ![c] = task[c].arg]
         /\ subs' = Subscribed(pairs)
         /\ sentMapping' = Introduced(pairs)
         /\ told' = [s \in Id |-> told[s] \cup Welcome(pairs, s, name')
                                  \cup Announcement(c, task[c].arg, s)]
  /\ task' = [task EXCEPT ![c] = Idle]
  /\ UNCHANGED <<accepted, connections, connectionMapping, subscribedToAll,
                 running, types, destroyed>>

-----------------------------------------------------------------------------
(* Subscriptions, by the worker of the subscriber s.                       *)

(* addToAllAsSubscriber passes over the subscriber itself.                 *)
AllOthers(s) == connections \ {s}

(* subscribe(""): subsribeAll, under connectionMutex throughout.           *)
SubscribeAll(s) ==
  /\ Ready(s, "subscribeAll")
  /\ ConnectionMutexFree
  /\ s \in connections
  /\ LET pairs == AllOthers(s) \X {s}
     IN  /\ subs' = Subscribed(pairs)
         /\ sentMapping' = Introduced(pairs)
         /\ told' = [told EXCEPT ![s] = @ \cup Welcome(pairs, s, name)]
  /\ subscribedToAll' = subscribedToAll \cup {s}
  /\ UNCHANGED <<accepted, connections, connectionMapping, running, name,
                 types, task, destroyed>>

(* getConnection takes no lock; an unknown name ends the handler there.    *)
Subscribe(s, n) ==
  /\ Ready(s, "subscribe")
  /\ connectionMapping[n] \in connections
  /\ task' = [task EXCEPT ![s] = Subscribing(connectionMapping[n])]
  /\ UNCHANGED <<accepted, connections, connectionMapping, subscribedToAll,
                 running, name, subs, sentMapping, types, destroyed, told>>

(* The target's mapping, registerSubscription, and the handle is dropped.  *)
FinishSubscribe(s) ==
  /\ task[s].op = "subscribe"
  /\ LET t     == task[s].arg
         pairs == {<<t, s>>}
     IN  /\ sentMapping' = Introduced(pairs)
         /\ task' = [task EXCEPT ![s] = Idle]
         /\ Release(connections \cup subscribedToAll \cup Handles(task'),
                    Subscribed(pairs),
                    [told EXCEPT ![s] = @ \cup {ChannelMsg(t, name[t])}
                                          \cup Welcome(pairs, s, name)])
  /\ UNCHANGED <<accepted, connections, connectionMapping, subscribedToAll,
                 name, types>>

Unsubscribe(s, n) ==
  /\ Ready(s, "unsubscribe")
  /\ connectionMapping[n] \in connections
  /\ task' = [task EXCEPT ![s] = Leaving(connectionMapping[n])]
  /\ UNCHANGED <<accepted, connections, connectionMapping, subscribedToAll,
                 running, name, subs, sentMapping, types, destroyed, told>>

SentMappingKept(t, s) == sentMapping[t]                               \* mutant
SentMappingWithout(t, s) == sentMapping[t] \ {s}

FinishUnsubscribe(s) ==
  /\ task[s].op = "unsubscribe"
  /\ LET t == task[s].arg
     IN  /\ sentMapping' = [sentMapping EXCEPT ![t] = SentMappingWithout(t, s)]
         /\ task' = [task EXCEPT ![s] = Idle]
         /\ Release(connections \cup subscribedToAll \cup Handles(task'),
                    [subs EXCEPT ![t] = @ \ {s}], told)
  /\ UNCHANGED <<accepted, connections, connectionMapping, subscribedToAll,
                 name, types>>

-----------------------------------------------------------------------------
(* Traffic of client c.                                                    *)

(* ParserDelegator::registerMapping records the type without a lock...     *)
RegisterMapping(c, t) ==
  /\ Ready(c, "mapType")
  /\ t \notin types[c]
  /\ types' = [types EXCEPT ![c] = @ \cup {t}]
  /\ task' = [task EXCEPT ![c] = Forwarding(t)]
  /\ UNCHANGED <<accepted, connections, connectionMapping, subscribedToAll,
                 running, name, subs, sentMapping, destroyed, told>>

(* ... and Connection::receive forwards it under subscriberMutex.          *)
FinishRegisterMapping(c) ==
  /\ task[c].op = "forward"
  /\ told' = [s \in Id |-> IF s \in subs[c]
                           THEN told[s] \cup {TypeMsg(c, task[c].arg)}
                           ELSE told[s]]
  /\ task' = [task EXCEPT ![c] = Idle]
  /\ UNCHANGED <<accepted, connections, connectionMapping, subscribedToAll,
                 running, name, subs, sentMapping, types, destroyed>>

(* sendTo: the receiver is introduced to the sender, then gets the payload. *)
SendTo(c, r) ==
  /\ Ready(c, "sendTo")
  /\ ConnectionMutexFree
  /\ c \in connections
  /\ r \in connections
  /\ sentMapping' = [sentMapping EXCEPT ![c] = @ \cup {r}]
  /\ told' = IF r \in sentMapping[c] THEN told
             ELSE [told EXCEPT ![r] = @ \cup Introduction(c, name[c])]
  /\ UNCHANGED <<accepted, connections, connectionMapping, subscribedToAll,
                 running, name, subs, types, task, destroyed>>

-----------------------------------------------------------------------------
Request(c) ==
  \/ RegisterChannel(c)
  \/ SubscribeAll(c)
  \/ \E n \in Name : Subscribe(c, n) \/ Unsubscribe(c, n)
  \/ \E t \in Types : RegisterMapping(c, t)
  \/ \E r \in Id : SendTo(c, r)

Finish(c) ==
  \/ FinishRegisterChannel(c)
  \/ FinishSubscribe(c)
  \/ FinishUnsubscribe(c)
  \/ FinishRegisterMapping(c)

Next ==
  \/ \E c \in Id : AddConnection(c) \/ Interrupted(c) \/ Request(c) \/ Finish(c)
  \/ CheckActiveConnections

Spec == Init /\ [][Next]_vars

(* A worker that started a handler finishes it; the checker thread loops   *)
(* for as long as the process lives.  Clients owe nothing.                 *)
Fairness ==
  /\ \A c \in Id : WF_vars(Finish(c))
  /\ WF_vars(CheckActiveConnections)

FairSpec == Spec /\ Fairness

-----------------------------------------------------------------------------
(* Safety.                                                                 *)

(* The directory (registerChannel, removeConnection) is exact: a connection*)
(* in the table is found under its own name, and every entry is the name   *)
(* of a connection still in the table, or the one registerChannel is about *)
(* to give it.  A client that registers twice leaves its first name behind.*)
DirectoryExact ==
  /\ \A c \in connections :
       name[c] # Unnamed => connectionMapping[name[c]] = c
  /\ \A n \in Name : \A c \in Id :
       /\ connectionMapping[n] = c
       /\ "rename" \notin Requests[c]
       => /\ c \in connections
          /\ name[c] = n \/ task[c] = Registering(n)

(* Whoever receives the traffic of c, as a subscriber (Connection::receive)*)
(* or as the target of a sendTo, has been sent the channel mapping of c,   *)
(* without which the endpoint drops what c sends; and sentMapping, which   *)
(* suppresses a second introduction, never runs ahead of the introduction. *)
ReceiversIntroduced ==
  \A c, s \in Id :
    /\ s \in subs[c] => s \in sentMapping[c]
    /\ s \in sentMapping[c] =>
         \E named \in BOOLEAN :
           [kind |-> "channel", from |-> c, arg |-> named] \in told[s]

(* Every subscriber of c has been sent every type c has mapped, except the *)
(* one c's worker is just forwarding: whether the subscriber joined before *)
(* the mapping (receive), after it (sendMappings) or between its two steps.*)
SubscriberKnowsTypes(c, s) ==
  \A t \in types[c] : TypeMsg(c, t) \in told[s] \/ task[c] = Forwarding(t)

(* That holds for the channels whose clients send no directed messages.    *)
SubscribersKnowTypes ==
  \A c \in Id : "sendTo" \notin Requests[c] =>
    \A s \in subs[c] : SubscriberKnowsTypes(c, s)

(* What the comment "forward current mappings" in registerSubscription     *)
(* says of every subscription, directed messages or not.                   *)
CurrentMappingsForwarded ==
  \A c \in Id : \A s \in subs[c] : SubscriberKnowsTypes(c, s)

(* Nothing refers to an object whose destructor has run; what runs is in   *)
(* the table, only what runs is in mid-request, and a termination notice   *)
(* comes from the destructor alone.                                        *)
Lifecycle ==
  /\ destroyed \subseteq accepted
  /\ running \subseteq connections
  /\ connections \cup subscribedToAll \cup Handles(task) \subseteq Existing
  /\ \A c \in Id : /\ subs[c] \subseteq Existing
                   /\ c \notin Existing => subs[c] = {}
                   /\ task[c] # Idle => c \in running
  /\ \A c, s \in Id : GoneMsg(c) \in told[s] => c \in destroyed

(* A termination notice (clearSubscriptions) is final: the channel it is   *)
(* about is out of the table, out of every list, and has no worker left to *)
(* send anything more.                                                     *)
TerminationFinal ==
  \A c, s \in Id : GoneMsg(c) \in told[s] =>
    /\ c \notin connections \cup running \cup subscribedToAll
    /\ task[c] = Idle
    /\ \A d \in Id : c \notin subs[d] /\ task[d] # Subscribing(c)
    /\ \A n \in Name : connectionMapping[n] = c => "rename" \in Requests[c]

(* A client subscribed to everything has been sent the real name of each   *)
(* registered channel, unless it was introduced to it earlier by a directed*)
(* message or by its own subscription.                                     *)
AllSubscribersKnowNames ==
  \A c \in Id : \A r \in subscribedToAll \cap subs[c] :
    /\ "sendTo" \notin Requests[c]
    /\ "subscribe" \notin Requests[r]
    /\ name[c] # Unnamed
    => ChannelMsg(c, name[c]) \in told[r]

-----------------------------------------------------------------------------
(* The directory implements the name service clients see, with connections *)
(* as its members and connectionMapping as its table of owners.            *)
NS == INSTANCE NameService
        WITH joined <- accepted, live <- connections, owner <- connectionMapping

ImplementsNameService == NS!NSSpec

-----------------------------------------------------------------------------
(* Action properties.                                                      *)

(* No subscriber is dropped silently: it leaves subs by its own unsubscribe*)
(* or with a termination notice on its queue.                              *)
NoSilentLoss ==
  [][\A c, s \in Id :
       s \in subs[c] /\ s \notin subs'[c] =>
         task[s] = Leaving(c) \/ GoneMsg(c) \in told'[s]]_vars

(* A registered channel that a subscriber to everything does not receive.  *)
Missing(r, c) ==
  /\ r \in subscribedToAll
  /\ c \in connections \ {r}
  /\ name[c] # Unnamed
  /\ r \notin subs[c]

(* subscribe("") means every channel, those that register later included,  *)
(* whichever of connect, register and subscribe comes first: only its own  *)
(* unsubscribe takes one away.                                             *)
AllMeansAll ==
  [][\A r, c \in Id :
       ~Missing(r, c) /\ Missing(r, c)' => task[r] = Leaving(c)]_vars

-----------------------------------------------------------------------------
(* Liveness, under Fairness.                                               *)

(* No list, no other connection and no worker holds c.                     *)
Unheld(c) ==
  /\ c \notin subscribedToAll
  /\ c \notin Handles(task)
  /\ \A d \in Id : c \notin subs[d]

(* The subscribers of a stopped connection that nobody else holds are told *)
(* of its end, although the checker that takes it out of the table competes*)
(* for connectionMutex with every worker.  (One that something holds is    *)
(* kept, and they may never be.)                                           *)
SubscribersAreTold ==
  \A c \in Id : \A s \in Id \ {c} :
    (c \in accepted \ running /\ Unheld(c) /\ s \in subs[c])
      ~> (GoneMsg(c) \in told[s] \/ s \notin subs[c])
=============================================================================
