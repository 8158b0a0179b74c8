------------------------------ MODULE Delivery ------------------------------
(***************************************************************************)
(* How what Dispatch puts on the output queue of one connection reaches    *)
(* the endpoint behind it.  The receiver is that connection; the channels  *)
(* are the other clients.                                                  *)
(*                                                                         *)
(* messagesOut is a moodycamel queue: first in, first out for each thread  *)
(* that enqueues, with no order between threads.  A channel is introduced  *)
(* by its own worker (it registers, or sends a directed message) or by the *)
(* worker of the receiver (which subscribes); what the channel sends later *)
(* is enqueued by its own worker, and its termination by the thread that   *)
(* runs ~Connection.  The endpoint drops what it cannot attribute.         *)
(*                                                                         *)
(* The socket keeps the order and nothing the endpoint does feeds back, so *)
(* a message is parsed in the step that takes it off the queue.            *)
(***************************************************************************)
EXTENDS Naturals, Sequences, SequencesExt

CONSTANTS
  Id,         \* the channels
  Types,      \* message types a channel maps
  Receiver,   \* the thread of the receiver's worker
  Checker,    \* the thread that destroys connections
  NoThread,   \* no thread: of channels not introduced so far
  MaxSent,    \* bound: payloads a channel sends
  MaxQueued   \* bound: messages one thread may have on the queue

Thread == Id \cup {Receiver, Checker}

ASSUME DeliveryAssumption ==
  /\ Receiver \notin Id /\ Checker \notin Id /\ Receiver # Checker
  /\ NoThread \notin Thread
  /\ IsFiniteSet(Types)
  /\ MaxSent \in Nat /\ MaxQueued \in Nat

VARIABLES
  accepted,        \* channels that have connected
  alive,           \* channels whose Connection exists
  named,           \* channels that have registered a name
  types,           \* ParserDelegator::nameToId, by channel
  subs,            \* channels with the receiver in Connection::subs
  sentMapping,     \* channels with the receiver in Connection::sentMapping
  subscribedToAll, \* the receiver is in Dispatch::subscribedToAll
  joining,         \* those its subscription to everything has yet to reach
  messagesOut,     \* the receiver's queue: a FIFO for each thread
  delegators,      \* endpoint: ChannelParserDelegator::delegators
  channelNames,    \* endpoint: those of them known by a real name
  idToParser,      \* endpoint: the types each delegator can parse
  sent,            \* payloads each channel has sent to the receiver
  dropped,         \* history: <<channel, type>> of messages dropped
  introducedBy,    \* history: the thread of the first introduction
  nameless,        \* history: channels first introduced by the name ""
  late             \* history: types mapped after it, with nobody subscribed

broker == <<accepted, alive, named, types, subs, sentMapping, subscribedToAll,
            joining, messagesOut, sent, introducedBy, nameless, late>>
endpoint == <<delegators, channelNames, idToParser, dropped>>
vars == <<broker, endpoint>>

Channel(c, n)    == [kind |-> "channel", from |-> c, named |-> n]
Mapping(c, t)    == [kind |-> "type", from |-> c, type |-> t]
Payload(c, t)    == [kind |-> "payload", from |-> c, type |-> t]
Gone(c)          == [kind |-> "gone", from |-> c]

Message == [kind : {"channel"}, from : Id, named : BOOLEAN]
           \cup [kind : {"type"}, from : Id, type : Types]
           \cup [kind : {"payload"}, from : Id, type : Types]
           \cup [kind : {"gone"}, from : Id]

TypeOK ==
  /\ accepted \subseteq Id /\ alive \subseteq accepted /\ named \subseteq accepted
  /\ types \in [Id -> SUBSET Types]
  /\ subs \subseteq alive /\ sentMapping \subseteq accepted
  /\ subscribedToAll \in BOOLEAN /\ joining \subseteq alive
  /\ messagesOut \in [Thread -> Seq(Message)]
  /\ delegators \subseteq Id /\ channelNames \subseteq delegators
  /\ idToParser \in [Id -> SUBSET Types]
  /\ sent \in [Id -> 0..MaxSent]
  /\ dropped \subseteq Id \X Types
  /\ introducedBy \in [Id -> Thread \cup {NoThread}]
  /\ nameless \subseteq Id
  /\ late \in [Id -> SUBSET Types]

Init ==
  /\ accepted = {} /\ alive = {} /\ named = {}
  /\ types = [c \in Id |-> {}]
  /\ subs = {} /\ sentMapping = {} /\ subscribedToAll = FALSE
  /\ joining = {}
  /\ messagesOut = [p \in Thread |-> <<>>]
  /\ delegators = {} /\ channelNames = {}
  /\ idToParser = [c \in Id |-> {}]
  /\ sent = [c \in Id |-> 0]
  /\ dropped = {}
  /\ introducedBy = [c \in Id |-> NoThread]
  /\ nameless = {}
  /\ late = [c \in Id |-> {}]

-----------------------------------------------------------------------------
(* The broker's side: who enqueues what.                                   *)

(* enqueue by thread p.                                                    *)
Enqueued(p, ms) ==
  /\ Len(messagesOut[p]) + Len(ms) <= MaxQueued
  /\ messagesOut' = [messagesOut EXCEPT ![p] = @ \o ms]

(* sendMappings: the channel mapping, then the types in some map order.    *)
TypesFirst(c, n) ==                                                   \* mutant
  SetToSeq({Mapping(c, t) : t \in types[c]}) \o <<Channel(c, n)>>
Mappings(c, n) ==
  <<Channel(c, n)>> \o SetToSeq({Mapping(c, t) : t \in types[c]})

(* ... unless sentMapping has the receiver.                                *)
NewMappings(c, n) == IF c \in sentMapping THEN <<>> ELSE Mappings(c, n)

(* registerSubscription of the receiver on c: nothing if it is in subs.    *)
Forwarded(c, n) == IF c \in subs THEN <<>> ELSE NewMappings(c, n)

(* Thread p introduces those of cs not introduced before, as names has it.*)
Introducing(p, cs, names) ==
  LET new == {c \in cs : introducedBy[c] = NoThread}
  IN  /\ introducedBy' = [c \in Id |-> IF c \in new THEN p ELSE introducedBy[c]]
      /\ nameless' = nameless \cup (new \ names)

(* connectionMutex is held for as long as a subscription to everything goes*)
(* through the table; receive and registerMapping do without it.           *)
ConnectionMutexFree == joining = {}

AddConnection(c) ==
  /\ ConnectionMutexFree
  /\ c \notin accepted
  /\ accepted' = accepted \cup {c}
  /\ alive' = alive \cup {c}
  /\ UNCHANGED <<named, types, subs, sentMapping, subscribedToAll, joining,
                 messagesOut, sent, introducedBy, nameless, late, endpoint>>

(* registerChannel, by the worker of c.  A receiver that is subscribed to  *)
(* everything subscribes to the new name, on this same thread.             *)
RegisterChannel(c) ==
  /\ ConnectionMutexFree
  /\ c \in alive \ named
  /\ named' = named \cup {c}
  /\ IF subscribedToAll
     THEN /\ Enqueued(c, <<Channel(c, TRUE)>> \o Forwarded(c, TRUE))
          /\ subs' = subs \cup {c}
          /\ sentMapping' = sentMapping \cup {c}
          /\ Introducing(c, {c}, named')
     ELSE UNCHANGED <<messagesOut, subs, sentMapping, introducedBy, nameless>>
  /\ UNCHANGED <<accepted, alive, types, subscribedToAll, joining, sent, late,
                 endpoint>>

(* subscribe(""), by the worker of the receiver: every connection there is,*)
(* registered or not ...                                                   *)
SubscribeAll ==
  /\ ~subscribedToAll
  /\ subscribedToAll' = TRUE
  /\ joining' = alive
  /\ UNCHANGED <<accepted, alive, named, types, subs, sentMapping, messagesOut,
                 sent, introducedBy, nameless, late, endpoint>>

(* ... one after the other, in the order of the table.                     *)
JoinNext(c) ==
  /\ c \in joining
  /\ joining' = joining \ {c}
  /\ Enqueued(Receiver, Forwarded(c, c \in named))
  /\ subs' = subs \cup {c}
  /\ sentMapping' = sentMapping \cup {c}
  /\ Introducing(Receiver, {c}, named)
  /\ UNCHANGED <<accepted, alive, named, types, subscribedToAll, sent, late,
                 endpoint>>

(* subscribe(name), by the worker of the receiver.                         *)
Subscribe(c) ==
  /\ ConnectionMutexFree    \* the worker is not in SubscribeAll
  /\ c \in alive \cap named
  /\ Enqueued(Receiver, <<Channel(c, TRUE)>> \o Forwarded(c, TRUE))
  /\ subs' = subs \cup {c}
  /\ sentMapping' = sentMapping \cup {c}
  /\ Introducing(Receiver, {c}, named)
  /\ UNCHANGED <<accepted, alive, named, types, subscribedToAll, joining, sent,
                 late, endpoint>>

(* unsubscribe(name): the endpoint is told nothing.                        *)
Unsubscribe(c) ==
  /\ ConnectionMutexFree
  /\ c \in alive \cap named
  /\ subs' = subs \ {c}
  /\ sentMapping' = sentMapping \ {c}
  /\ UNCHANGED <<accepted, alive, named, types, subscribedToAll, joining,
                 messagesOut, sent, introducedBy, nameless, late, endpoint>>

(* The client of c maps a type: recorded, and forwarded to the subscribers.*)
RegisterMapping(c, t) ==
  /\ c \in alive
  /\ t \notin types[c]
  /\ types' = [types EXCEPT ![c] = @ \cup {t}]
  /\ Enqueued(c, IF c \in subs THEN <<Mapping(c, t)>> ELSE <<>>)
  /\ late' = [late EXCEPT ![c] = IF introducedBy[c] # NoThread /\ c \notin subs
                                 THEN @ \cup {t} ELSE @]
  /\ UNCHANGED <<accepted, alive, named, subs, sentMapping, subscribedToAll,
                 joining, sent, introducedBy, nameless, endpoint>>

(* It sends a message of a type it mapped; receive forwards it.            *)
Receive(c, t) ==
  /\ c \in alive \cap subs
  /\ t \in types[c]
  /\ sent[c] < MaxSent
  /\ sent' = [sent EXCEPT ![c] = @ + 1]
  /\ Enqueued(c, <<Payload(c, t)>>)
  /\ UNCHANGED <<accepted, alive, named, types, subs, sentMapping,
                 subscribedToAll, joining, introducedBy, nameless, late,
                 endpoint>>

(* sendTo the receiver: handshake, then the payload.                       *)
NoHandshake(c) == <<>>                                                \* mutant
Handshake(c) == NewMappings(c, c \in named)

SendTo(c, t) ==
  /\ ConnectionMutexFree
  /\ c \in alive
  /\ t \in types[c]
  /\ sent[c] < MaxSent
  /\ sent' = [sent EXCEPT ![c] = @ + 1]
  /\ Enqueued(c, Handshake(c) \o <<Payload(c, t)>>)
  /\ sentMapping' = sentMapping \cup {c}
  /\ Introducing(c, {c}, named)
  /\ UNCHANGED <<accepted, alive, named, types, subs, subscribedToAll, joining,
                 late, endpoint>>

(* ~Connection of c: the worker is joined, then clearSubscriptions, on the *)
(* thread that drops the last handle.                                      *)
Destroy(c, p) ==
  /\ c \in alive \ joining
  /\ alive' = alive \ {c}
  /\ subs' = subs \ {c}
  /\ Enqueued(p, IF c \in subs THEN <<Gone(c)>> ELSE <<>>)
  /\ UNCHANGED <<accepted, named, types, sentMapping, subscribedToAll, joining,
                 sent, introducedBy, nameless, late, endpoint>>

-----------------------------------------------------------------------------
(* The endpoint's side.                                                    *)

(* notifyMapping: the first mapping of an id counts, later ones do not.    *)
NotifyMapping(m) ==
  /\ m.kind = "channel"
  /\ delegators' = delegators \cup {m.from}
  /\ channelNames' = IF m.named /\ m.from \notin delegators
                     THEN channelNames \cup {m.from} ELSE channelNames
  /\ UNCHANGED <<idToParser, dropped>>

(* notifyTermination: the delegator goes, with the types it learnt.        *)
WithNames(c) == channelNames                                          \* mutant
WithoutName(c) == channelNames \ {c}

KeepParsers(c) == idToParser                                          \* mutant
WithoutParsers(c) == [idToParser EXCEPT ![c] = {}]

NotifyTermination(m) ==
  /\ m.kind = "gone"
  /\ delegators' = delegators \ {m.from}
  /\ channelNames' = WithoutName(m.from)
  /\ idToParser' = WithoutParsers(m.from)
  /\ UNCHANGED dropped

(* parse: the delegator of the sender, then the parser of the type.        *)
Parse(m) ==
  /\ m.kind \in {"type", "payload"}
  /\ m.from \in delegators
  /\ m.kind = "payload" => m.type \in idToParser[m.from]
  /\ idToParser' = IF m.kind = "type"
                   THEN [idToParser EXCEPT ![m.from] = @ \cup {m.type}]
                   ELSE idToParser
  /\ UNCHANGED <<delegators, channelNames, dropped>>

(* "Could not find a parser delegator", "Could not find a parser".         *)
Drop(m) ==
  /\ m.kind \in {"type", "payload"}
  /\ \/ m.from \notin delegators
     \/ m.kind = "payload" /\ m.type \notin idToParser[m.from]
  /\ dropped' = dropped \cup {<<m.from, m.type>>}
  /\ UNCHANGED <<delegators, channelNames, idToParser>>

(* try_dequeue: the head of some sub-queue that is not empty.  Which one   *)
(* depends on sizes that are approximate while others enqueue.             *)
FirstIn(p) ==
  [msg |-> Head(messagesOut[p]), rest |-> Tail(messagesOut[p])]

(* The send part of the receiver's loop.                                   *)
Send ==
  \E p \in Thread :
    /\ messagesOut[p] # <<>>
    /\ LET m == FirstIn(p).msg
       IN  NotifyMapping(m) \/ NotifyTermination(m) \/ Parse(m) \/ Drop(m)
    /\ messagesOut' = [messagesOut EXCEPT ![p] = FirstIn(p).rest]
    /\ UNCHANGED <<accepted, alive, named, types, subs, sentMapping,
                   subscribedToAll, joining, sent, introducedBy, nameless, late>>

-----------------------------------------------------------------------------
Client(c) ==
  \/ AddConnection(c)
  \/ RegisterChannel(c)
  \/ \E p \in {Receiver, Checker} : Destroy(c, p)
  \/ \E t \in Types : RegisterMapping(c, t) \/ Receive(c, t) \/ SendTo(c, t)

Next ==
  \/ \E c \in Id : Client(c) \/ Subscribe(c) \/ Unsubscribe(c) \/ JoinNext(c)
  \/ SubscribeAll
  \/ Send

(* The loop of the receiver's worker runs while the connection lives.      *)
Spec == Init /\ [][Next]_vars /\ WF_vars(Send)

-----------------------------------------------------------------------------
(* A channel that its own worker introduced (it registered, or sent a      *)
(* directed message, before the receiver subscribed to it) loses nothing   *)
(* for as long as it lives, whatever other threads enqueue and however     *)
(* often the receiver unsubscribes and subscribes again; only types it     *)
(* mapped while the receiver was not subscribed may be unknown.            *)
SelfIntroducedHeard ==
  \A c \in alive : introducedBy[c] = c =>
    \A t \in Types \ late[c] : <<c, t>> \notin dropped

QueueEmpty == \A p \in Thread : messagesOut[p] = <<>>

(* Once the queue has drained, what the endpoint believes of the channels  *)
(* alive agrees with the broker: those introduced have a delegator, no     *)
(* delegator knows a type its channel did not map, a channel introduced    *)
(* with a name is known by it, and one that introduced itself is known with*)
(* every type it mapped but the late ones.                                 *)
DrainedKnown ==
  QueueEmpty =>
    \A c \in alive :
      /\ c \in sentMapping => c \in delegators
      /\ idToParser[c] \subseteq types[c]
      /\ c \in sentMapping \ nameless => c \in channelNames
      /\ introducedBy[c] = c /\ c \in subs =>
           types[c] \ late[c] \subseteq idToParser[c]

Queued(p, m) == \E i \in 1..Len(messagesOut[p]) : messagesOut[p][i] = m

(* A termination that does not overtake an introduction still on the queue *)
(* removes the delegator and what it learnt, for good.                     *)
TerminationForgets ==
  \A c \in Id :
    ( /\ \E p \in Thread : Queued(p, Gone(c))
      /\ \A p \in Thread, n \in BOOLEAN : ~Queued(p, Channel(c, n)) )
    ~> [](c \notin delegators /\ idToParser[c] = {})
=============================================================================
