--------------------------- MODULE DeliveryProofs ---------------------------
(***************************************************************************)
(* The proofs about Delivery, for any channels and types.                  *)
(*                                                                         *)
(* A channel that introduced itself is heard because everything it enqueues*)
(* is on one FIFO, behind its introduction, and what the worker of the     *)
(* receiver enqueues about it is behind an introduction of its own.  Each  *)
(* is a statement about one queue, so it survives whatever the others do.  *)
(***************************************************************************)
EXTENDS Delivery, SequenceTheorems, FiniteSetTheorems, TLAPS

-----------------------------------------------------------------------------
(* What is said of one queue q.                                            *)

(* q introduces c.                                                         *)
Introduces(q, c) ==
  \E j \in 1..Len(q) : q[j].kind = "channel" /\ q[j].from = c

(* q maps type t of c.                                                     *)
Maps(q, c, t) == \E j \in 1..Len(q) : q[j] = Mapping(c, t)

(* What q has from c follows an introduction, unless c is in D already.    *)
IntroducedFirst(q, c, D) ==
  c \in D \/ \A i \in 1..Len(q) :
               q[i].from = c /\ q[i].kind \in {"type", "payload"} =>
                 \E j \in 1..(i - 1) : q[j].kind = "channel" /\ q[j].from = c

(* A payload of c in q follows the mapping of its type, unless that is in  *)
(* K already or in L.                                                      *)
MappedFirst(q, c, K, L) ==
  \A i \in 1..Len(q) :
    q[i].from = c /\ q[i].kind = "payload" /\ q[i].type \notin K \cup L =>
      \E j \in 1..(i - 1) : q[j] = Mapping(c, q[i].type)

-----------------------------------------------------------------------------
(* The invariant.                                                          *)

(* A message m that thread p may have on the queue.                        *)
Sound(p, m) ==
  /\ p \in Id => m.from = p /\ m.kind # "gone"
  /\ p = Receiver => m.kind # "payload"
  /\ p = Checker => m.kind = "gone"
  /\ introducedBy[m.from] # NoThread
  /\ m.kind = "channel" => m.named \/ m.from \in nameless
  /\ m.kind \in {"type", "payload"} => m.type \in types[m.from]
  /\ m.kind = "gone" => m.from \notin alive

QueueSound ==
  \A p \in Thread : \A i \in 1..Len(messagesOut[p]) : Sound(p, messagesOut[p][i])

(* Of a channel not introduced nothing is known.                           *)
Fresh ==
  \A c \in Id :
    /\ c \notin accepted => introducedBy[c] = NoThread
    /\ c \in subs => c \in sentMapping
    /\ introducedBy[c] = NoThread =>
         c \notin subs \cup sentMapping /\ \A t \in Types : <<c, t>> \notin dropped
    /\ introducedBy[c] # NoThread => c \in named \cup nameless

(* The endpoint knows, or will when it has read the queue, the channels the*)
(* broker introduced, by their names ...                                   *)
Introduced ==
  /\ \A c \in alive \cap sentMapping :
       c \in delegators \/ \E p \in Thread : Introduces(messagesOut[p], c)
  /\ \A c \in alive : IntroducedFirst(messagesOut[Receiver], c, delegators)
  /\ delegators \subseteq channelNames \cup nameless

(* ... and the types they mapped, if they introduced themselves.           *)
SelfIntroduced(c) ==
  /\ IntroducedFirst(messagesOut[c], c, delegators)
  /\ c \in delegators \/ Introduces(messagesOut[c], c)
  /\ \A t \in types[c] \ late[c] : t \in idToParser[c] \/ Maps(messagesOut[c], c, t)
  /\ MappedFirst(messagesOut[c], c, idToParser[c], late[c])

Mapped ==
  /\ \A c \in Id : idToParser[c] \subseteq types[c]
  /\ \A c \in alive : introducedBy[c] = c => SelfIntroduced(c)

DeliveryInv ==
  QueueSound /\ Fresh /\ Introduced /\ Mapped /\ SelfIntroducedHeard

-----------------------------------------------------------------------------
(* Messages, and what sendMappings writes.                                 *)

(* Every message a step enqueues is a message.                             *)
LEMMA MessageTypes ==
  ASSUME NEW c \in Id
  PROVE  /\ \A n \in BOOLEAN : Channel(c, n) \in Message
         /\ \A t \in Types : Mapping(c, t) \in Message /\ Payload(c, t) \in Message
         /\ Gone(c) \in Message
BY DEF Channel, Mapping, Payload, Gone, Message

(* What can be read of a message.                                          *)
LEMMA MessageFields ==
  ASSUME NEW m \in Message
  PROVE  /\ m.kind \in {"channel", "type", "payload", "gone"} /\ m.from \in Id
         /\ m.kind = "channel" => m.named \in BOOLEAN
         /\ m.kind \in {"type", "payload"} => m.type \in Types
         /\ m.kind = "type" => m = Mapping(m.from, m.type)
BY DEF Message, Mapping

(* SetToSeq lists the members of a finite set.                             *)
LEMMA Listing ==
  ASSUME NEW S, IsFiniteSet(S)
  PROVE  /\ SetToSeq(S) \in Seq(S)
         /\ \A x \in S : \E i \in 1..Len(SetToSeq(S)) : SetToSeq(S)[i] = x
<1>1. Cardinality(S) \in Nat /\ ExistsBijection(1..Cardinality(S), S)
  BY FS_CardinalityType
<1>2. PICK g \in Bijection(1..Cardinality(S), S) : TRUE
  BY <1>1 DEF ExistsBijection
<1>3. g \in [1..Cardinality(S) -> S] /\ IsInjective(g)
  BY <1>2 DEF Bijection, Injection
<1> DEFINE f == SetToSeq(S)
<1>4. f \in [1..Cardinality(S) -> S] /\ IsInjective(f)
  BY <1>3 DEF SetToSeq
<1> HIDE DEF f
<1>5. f \in Seq(S) /\ Len(f) = Cardinality(S)
  BY <1>1, <1>4
<1>6. f \in Injection(1..Cardinality(S), S)
  BY <1>4 DEF Injection
<1>7. IsFiniteSet(1..Cardinality(S)) /\ Cardinality(1..Cardinality(S)) = Cardinality(S)
  BY <1>1, FS_Interval
<1>8. f \in Surjection(1..Cardinality(S), S)
  BY <1>6, <1>7, FS_Injection
<1>9. \A x \in S : \E i \in 1..Cardinality(S) : f[i] = x
  BY <1>8 DEF Surjection
<1> QED BY <1>5, <1>9 DEF f

(* sendMappings: the channel, then exactly the types mapped.               *)
LEMMA MappingsLayout ==
  ASSUME TypeOK, NEW c \in Id, NEW n \in BOOLEAN
  PROVE  /\ Mappings(c, n) \in Seq(Message)
         /\ Mappings(c, n) # <<>> /\ Mappings(c, n)[1] = Channel(c, n)
         /\ \A i \in 2..Len(Mappings(c, n)) :
              \E t \in types[c] : Mappings(c, n)[i] = Mapping(c, t)
         /\ \A t \in types[c] : Maps(Mappings(c, n), c, t)
<1> DEFINE S == {Mapping(c, t) : t \in types[c]}
           s == SetToSeq(S)
           g == [t \in types[c] |-> Mapping(c, t)]
           q == <<Channel(c, n)>>
<1>1. types[c] \subseteq Types /\ IsFiniteSet(types[c])
  BY DeliveryAssumption, FS_Subset DEF TypeOK
<1>2. g \in Surjection(types[c], S)
  BY DEF Surjection
<1>3. IsFiniteSet(S)
  <2> HIDE DEF g, S
  <2> QED BY <1>1, <1>2, FS_Surjection
<1>4. S \subseteq Message /\ Channel(c, n) \in Message
  BY <1>1, MessageTypes
<1>5. s \in Seq(S) /\ \A x \in S : \E i \in 1..Len(s) : s[i] = x
  BY <1>3, Listing
<1>6. Mappings(c, n) = q \o s
  BY DEF Mappings
<1>7. \A i \in 1..Len(s) : s[i] \in S
  <2> HIDE DEF s, S
  <2> QED BY <1>5, ElementOfSeq
<1>8. \A i \in 1..Len(s) : \E t \in types[c] : s[i] = Mapping(c, t)
  BY <1>7
<1>9. \A t \in types[c] : \E i \in 1..Len(s) : s[i] = Mapping(c, t)
  BY <1>5
<1>10. /\ s \in Seq(Message) /\ Len(s) \in Nat
       /\ q \in Seq(Message) /\ Len(q) = 1 /\ q[1] = Channel(c, n)
  BY <1>4, <1>5
<1> HIDE DEF s, q, S
<1>11. /\ q \o s \in Seq(Message) /\ Len(q \o s) = 1 + Len(s)
       /\ \A i \in 1..1 + Len(s) : (q \o s)[i] = IF i <= 1 THEN q[i] ELSE s[i - 1]
  BY <1>10, ConcatProperties
<1>12. q \o s # <<>> /\ (q \o s)[1] = Channel(c, n)
  BY <1>10, <1>11
<1>13. \A i \in 2..Len(q \o s) : \E t \in types[c] : (q \o s)[i] = Mapping(c, t)
  <2> TAKE i \in 2..Len(q \o s)
  <2>1. i - 1 \in 1..Len(s) /\ (q \o s)[i] = s[i - 1]
    BY <1>10, <1>11
  <2> QED BY <1>8, <2>1
<1>14. \A t \in types[c] : Maps(q \o s, c, t)
  <2> TAKE t \in types[c]
  <2>1. PICK i \in 1..Len(s) : s[i] = Mapping(c, t)
    BY <1>9
  <2>2. i + 1 \in 1..Len(q \o s) /\ (q \o s)[i + 1] = s[i]
    BY <1>10, <1>11
  <2> QED BY <2>1, <2>2 DEF Maps
<1> QED BY <1>6, <1>11, <1>12, <1>13, <1>14

-----------------------------------------------------------------------------
(* A queue that grows at its end, or loses its head.                       *)

LEMMA Grown ==
  ASSUME NEW q \in Seq(Message), NEW ms \in Seq(Message)
  PROVE  /\ q \o ms \in Seq(Message) /\ Len(q) \in Nat /\ Len(ms) \in Nat
         /\ Len(q \o ms) = Len(q) + Len(ms)
         /\ \A i \in 1..Len(q) : (q \o ms)[i] = q[i]
         /\ \A i \in 1..Len(ms) : (q \o ms)[Len(q) + i] = ms[i]
         /\ \A i \in 1..Len(q \o ms) :
              i \notin 1..Len(q) => i - Len(q) \in 1..Len(ms)
                                    /\ (q \o ms)[i] = ms[i - Len(q)]
<1>1. Len(q) \in Nat /\ Len(ms) \in Nat
  OBVIOUS
<1> QED BY <1>1, ConcatProperties

LEMMA Shrunk ==
  ASSUME NEW q \in Seq(Message), q # <<>>
  PROVE  /\ Tail(q) \in Seq(Message) /\ Head(q) \in Message /\ Head(q) = q[1]
         /\ Len(q) \in Nat \ {0} /\ Len(Tail(q)) = Len(q) - 1
         /\ \A i \in 1..Len(Tail(q)) : i + 1 \in 1..Len(q) /\ Tail(q)[i] = q[i + 1]
         /\ \A i \in 2..Len(q) : i - 1 \in 1..Len(Tail(q)) /\ Tail(q)[i - 1] = q[i]
<1>1. Len(q) \in Nat \ {0} /\ Head(q) = q[1]
  OBVIOUS
<1> QED BY <1>1, HeadTailProperties

(* What a queue says, it says when it has grown.                           *)
LEMMA GrownSays ==
  ASSUME NEW q \in Seq(Message), NEW ms \in Seq(Message), NEW c
  PROVE  /\ Introduces(q, c) \/ Introduces(ms, c) => Introduces(q \o ms, c)
         /\ \A t : Maps(q, c, t) \/ Maps(ms, c, t) => Maps(q \o ms, c, t)
<1> USE Grown
<1>1. ASSUME NEW j \in 1..Len(q)
      PROVE  j \in 1..Len(q \o ms) /\ (q \o ms)[j] = q[j]
  BY <1>1
<1>2. ASSUME NEW j \in 1..Len(ms)
      PROVE  Len(q) + j \in 1..Len(q \o ms) /\ (q \o ms)[Len(q) + j] = ms[j]
  BY <1>2
<1> HIDE Grown
<1> QED BY <1>1, <1>2 DEF Introduces, Maps

(* Introductions stay first ...                                            *)
LEMMA GrownIntroducedFirst ==
  ASSUME NEW q \in Seq(Message), NEW ms \in Seq(Message), NEW c, NEW D,
         IntroducedFirst(q, c, D),
         IntroducedFirst(ms, c, D) \/ c \in D \/ Introduces(q, c)
  PROVE  IntroducedFirst(q \o ms, c, D)
<1> SUFFICES ASSUME c \notin D, NEW i \in 1..Len(q \o ms),
                    (q \o ms)[i].from = c, (q \o ms)[i].kind \in {"type", "payload"}
             PROVE  \E j \in 1..(i - 1) : (q \o ms)[j].kind = "channel"
                                          /\ (q \o ms)[j].from = c
  BY DEF IntroducedFirst
<1>1. CASE i \in 1..Len(q)
  <2>1. (q \o ms)[i] = q[i]
    BY <1>1, Grown
  <2>2. PICK j \in 1..(i - 1) : q[j].kind = "channel" /\ q[j].from = c
    BY <1>1, <2>1 DEF IntroducedFirst
  <2>3. (q \o ms)[j] = q[j]
    BY <1>1, Grown
  <2> QED BY <2>2, <2>3
<1>2. CASE i \notin 1..Len(q)
  <2>1. i - Len(q) \in 1..Len(ms) /\ (q \o ms)[i] = ms[i - Len(q)]
    BY <1>2, Grown
  <2>2. CASE Introduces(q, c)
    <3>1. PICK j \in 1..Len(q) : q[j].kind = "channel" /\ q[j].from = c
      BY <2>2 DEF Introduces
    <3>2. j \in 1..(i - 1) /\ (q \o ms)[j] = q[j]
      BY <1>2, Grown
    <3> QED BY <3>1, <3>2
  <2>3. CASE IntroducedFirst(ms, c, D)
    <3>1. PICK j \in 1..(i - Len(q) - 1) : ms[j].kind = "channel" /\ ms[j].from = c
      BY <2>1, <2>3 DEF IntroducedFirst
    <3>2. Len(q) + j \in 1..(i - 1) /\ (q \o ms)[Len(q) + j] = ms[j]
      BY <2>1, Grown
    <3> QED BY <3>1, <3>2
  <2> QED BY <2>2, <2>3
<1> QED BY <1>1, <1>2

(* ... and mappings before payloads.                                       *)
LEMMA GrownMappedFirst ==
  ASSUME NEW q \in Seq(Message), NEW ms \in Seq(Message), NEW c, NEW K, NEW L,
         MappedFirst(q, c, K, L),
         \A i \in 1..Len(ms) :
           ms[i].from = c /\ ms[i].kind = "payload" /\ ms[i].type \notin K \cup L =>
             \/ Maps(q, c, ms[i].type)
             \/ \E j \in 1..(i - 1) : ms[j] = Mapping(c, ms[i].type)
  PROVE  MappedFirst(q \o ms, c, K, L)
<1> SUFFICES ASSUME NEW i \in 1..Len(q \o ms),
                    (q \o ms)[i].from = c, (q \o ms)[i].kind = "payload",
                    (q \o ms)[i].type \notin K \cup L
             PROVE  \E j \in 1..(i - 1) : (q \o ms)[j] = Mapping(c, (q \o ms)[i].type)
  BY DEF MappedFirst
<1>1. CASE i \in 1..Len(q)
  <2>1. (q \o ms)[i] = q[i]
    BY <1>1, Grown
  <2>2. PICK j \in 1..(i - 1) : q[j] = Mapping(c, q[i].type)
    BY <1>1, <2>1 DEF MappedFirst
  <2>3. (q \o ms)[j] = q[j]
    BY <1>1, Grown
  <2> QED BY <2>1, <2>2, <2>3
<1>2. CASE i \notin 1..Len(q)
  <2> DEFINE k == i - Len(q)
  <2>1. k \in 1..Len(ms) /\ (q \o ms)[i] = ms[k]
    BY <1>2, Grown
  <2>2. CASE Maps(q, c, ms[k].type)
    <3>1. PICK j \in 1..Len(q) : q[j] = Mapping(c, ms[k].type)
      BY <2>2 DEF Maps
    <3>2. j \in 1..(i - 1) /\ (q \o ms)[j] = q[j]
      BY <1>2, Grown
    <3> QED BY <2>1, <3>1, <3>2
  <2>3. CASE \E j \in 1..(k - 1) : ms[j] = Mapping(c, ms[k].type)
    <3>1. PICK j \in 1..(k - 1) : ms[j] = Mapping(c, ms[k].type)
      BY <2>3
    <3>2. Len(q) + j \in 1..(i - 1) /\ (q \o ms)[Len(q) + j] = ms[j]
      BY <2>1, Grown
    <3> QED BY <2>1, <3>1, <3>2
  <2> QED BY <2>1, <2>2, <2>3
<1> QED BY <1>1, <1>2

(* What a queue says without its head, if that said nothing new.           *)
LEMMA ShrunkSays ==
  ASSUME NEW q \in Seq(Message), q # <<>>, NEW c
  PROVE  /\ Introduces(q, c) => \/ Introduces(Tail(q), c)
                                \/ Head(q).kind = "channel" /\ Head(q).from = c
         /\ \A t : Maps(q, c, t) => Maps(Tail(q), c, t) \/ Head(q) = Mapping(c, t)
<1>1. \A j \in 1..Len(q) : \/ q[j] = Head(q)
                           \/ j - 1 \in 1..Len(Tail(q)) /\ Tail(q)[j - 1] = q[j]
  BY Shrunk
<1> QED BY <1>1 DEF Introduces, Maps

(* An introduction that was the head has been heard of.                    *)
LEMMA ShrunkIntroducedFirst ==
  ASSUME NEW q \in Seq(Message), q # <<>>, NEW c, NEW D, NEW E,
         IntroducedFirst(q, c, D), c \in D => c \in E,
         Head(q).kind = "channel" /\ Head(q).from = c => c \in E
  PROVE  IntroducedFirst(Tail(q), c, E)
<1> SUFFICES ASSUME c \notin E, NEW i \in 1..Len(Tail(q)),
                    Tail(q)[i].from = c, Tail(q)[i].kind \in {"type", "payload"}
             PROVE  \E j \in 1..(i - 1) : Tail(q)[j].kind = "channel"
                                          /\ Tail(q)[j].from = c
  BY DEF IntroducedFirst
<1>1. i + 1 \in 1..Len(q) /\ Tail(q)[i] = q[i + 1]
  BY Shrunk
<1>2. PICK j \in 1..((i + 1) - 1) : q[j].kind = "channel" /\ q[j].from = c
  BY <1>1 DEF IntroducedFirst
<1>3. j # 1
  BY <1>2, Shrunk
<1>4. j - 1 \in 1..(i - 1) /\ Tail(q)[j - 1] = q[j]
  BY <1>1, <1>3, Shrunk
<1> QED BY <1>2, <1>4

(* A mapping that was the head has been learnt.                            *)
LEMMA ShrunkMappedFirst ==
  ASSUME NEW q \in Seq(Message), q # <<>>, NEW c, NEW K, NEW M, NEW L,
         MappedFirst(q, c, K, L), K \subseteq M,
         \A t : Head(q) = Mapping(c, t) => t \in M
  PROVE  MappedFirst(Tail(q), c, M, L)
<1> SUFFICES ASSUME NEW i \in 1..Len(Tail(q)),
                    Tail(q)[i].from = c, Tail(q)[i].kind = "payload",
                    Tail(q)[i].type \notin M \cup L
             PROVE  \E j \in 1..(i - 1) : Tail(q)[j] = Mapping(c, Tail(q)[i].type)
  BY DEF MappedFirst
<1>1. i + 1 \in 1..Len(q) /\ Tail(q)[i] = q[i + 1]
  BY Shrunk
<1>2. PICK j \in 1..((i + 1) - 1) : q[j] = Mapping(c, q[i + 1].type)
  BY <1>1 DEF MappedFirst
<1>3. j # 1
  BY <1>1, <1>2, Shrunk
<1>4. j - 1 \in 1..(i - 1) /\ Tail(q)[j - 1] = q[j]
  BY <1>1, <1>3, Shrunk
<1> QED BY <1>1, <1>2, <1>4

-----------------------------------------------------------------------------
(* The steps of the broker.                                                *)

(* Of one message enqueued, beyond that it is sound: the type of a payload *)
(* was mapped before the step.                                             *)
WasMapped(m) == m.kind = "payload" => m.type \in types[m.from]

(* ms is what a channel enqueues to introduce itself.                      *)
Introduction(ms, c) ==
  /\ Introduces(ms, c) /\ IntroducedFirst(ms, c, {})
  /\ \A t \in types[c] : Maps(ms, c, t)
  /\ MappedFirst(ms, c, {}, {})

(* What all of them do: a thread p enqueues messages ms, for good reasons. *)
Enqueueing(p, ms) ==
  /\ messagesOut' = [messagesOut EXCEPT ![p] = @ \o ms]
  /\ UNCHANGED endpoint
  /\ \A i \in 1..Len(ms) : Sound(p, ms[i])' /\ WasMapped(ms[i])
  /\ p = Receiver => \A c \in Id : IntroducedFirst(ms, c, {})
  /\ \A c \in sentMapping' \ sentMapping : Introduces(ms, c)
  /\ \A c \in Id :
       introducedBy[c] = c =>
         \A t \in types'[c] \ late'[c] : \/ t \in types[c] \ late[c]
                                         \/ p = c /\ Maps(ms, c, t)
  /\ \A c \in Id : introducedBy[c] = NoThread /\ introducedBy'[c] = c =>
                     p = c /\ Introduction(ms, c)'

Onward ==
  /\ nameless \subseteq nameless' /\ alive' \cap accepted \subseteq alive
  /\ \A c \in Id :
       /\ types[c] \subseteq types'[c] /\ late[c] \subseteq late'[c]
       /\ introducedBy[c] # NoThread => introducedBy'[c] = introducedBy[c]

BrokerStep ==
  \E p \in Thread, ms \in Seq(Message) : Enqueueing(p, ms) /\ Onward /\ Fresh'

(* Such a step keeps the invariant.                                        *)
LEMMA BrokerStepKeeps ==
  ASSUME TypeOK, TypeOK', DeliveryInv, BrokerStep
  PROVE  DeliveryInv'
<1>1. PICK p \in Thread, ms \in Seq(Message) :
        Enqueueing(p, ms) /\ Onward /\ Fresh'
  BY DEF BrokerStep
<1>2. /\ messagesOut \in [Thread -> Seq(Message)]
      /\ \A r \in Thread : messagesOut[r] \in Seq(Message)
      /\ messagesOut'[p] = messagesOut[p] \o ms
      /\ \A r \in Thread \ {p} : messagesOut'[r] = messagesOut[r]
      /\ Receiver \in Thread /\ Id \subseteq Thread
  BY <1>1 DEF Enqueueing, TypeOK, Thread
<1>3. /\ delegators' = delegators /\ channelNames' = channelNames
      /\ idToParser' = idToParser /\ dropped' = dropped
  BY <1>1 DEF Enqueueing, endpoint
<1>4. /\ QueueSound /\ Fresh /\ Introduced /\ Mapped /\ SelfIntroducedHeard
      /\ alive' \subseteq Id /\ alive \subseteq Id
  BY DEF DeliveryInv, TypeOK
<1>5. \A c \in alive' \ alive : introducedBy[c] = NoThread
  BY <1>1, <1>4 DEF Onward, Fresh
<1>6. \A c \in Id, r \in Thread : \A i \in 1..Len(messagesOut[r]) :
        messagesOut[r][i].from = c => introducedBy[c] # NoThread
  BY <1>4 DEF QueueSound, Sound
<1>7. QueueSound'
  <2>1. ASSUME NEW r \in Thread, NEW m \in Message, Sound(r, m)
        PROVE  Sound(r, m)'
    <3>1. m.from \in Id
      BY <2>1, MessageFields
    <3>2. m.kind = "gone" => m.from \notin alive'
      BY <1>5, <2>1, <3>1 DEF Sound
    <3> QED BY <1>1, <2>1, <3>1, <3>2 DEF Sound, Onward
  <2>2. ASSUME NEW r \in Thread, NEW i \in 1..Len(messagesOut[r])
        PROVE  Sound(r, messagesOut[r][i]) /\ messagesOut[r][i] \in Message
    BY <1>2, <1>4, <2>2 DEF QueueSound
  <2>3. ASSUME NEW r \in Thread, NEW i \in 1..Len(messagesOut'[r])
        PROVE  \/ i \in 1..Len(messagesOut[r]) /\ messagesOut'[r][i] = messagesOut[r][i]
               \/ r = p /\ \E k \in 1..Len(ms) : messagesOut'[r][i] = ms[k]
    <3>1. CASE r = p
      <4> DEFINE q == messagesOut[p]
      <4>1. q \in Seq(Message) /\ i \in 1..Len(q \o ms)
            /\ messagesOut'[r][i] = (q \o ms)[i]
        BY <1>2, <2>3, <3>1
      <4> HIDE DEF q
      <4>2. \/ i \in 1..Len(q) /\ messagesOut'[r][i] = q[i]
            \/ \E k \in 1..Len(ms) : messagesOut'[r][i] = ms[k]
        BY <4>1, Grown
      <4> QED BY <3>1, <4>2 DEF q
    <3>2. CASE r # p
      BY <1>2, <2>3, <3>2
    <3> QED BY <3>1, <3>2
  <2>4. \A k \in 1..Len(ms) : Sound(p, ms[k])'
    BY <1>1 DEF Enqueueing
  <2>5. ASSUME NEW r \in Thread, NEW i \in 1..Len(messagesOut'[r]),
               NEW m, m = messagesOut'[r][i]
        PROVE  Sound(r, m)'
    <3>1. CASE i \in 1..Len(messagesOut[r]) /\ m = messagesOut[r][i]
      BY <2>1, <2>2, <3>1
    <3>2. CASE r = p /\ \E k \in 1..Len(ms) : m = ms[k]
      BY <2>4, <3>2
    <3> QED BY <2>3, <2>5, <3>1, <3>2
  <2> QED BY <2>5 DEF QueueSound, Sound
<1>8. \A r \in Thread, c \in Id :
        /\ Introduces(messagesOut[r], c) => Introduces(messagesOut'[r], c)
        /\ \A t : Maps(messagesOut[r], c, t) => Maps(messagesOut'[r], c, t)
  BY <1>2, GrownSays
<1>9. \A c \in Id : /\ Introduces(ms, c) => Introduces(messagesOut'[p], c)
                    /\ \A t : Maps(ms, c, t) => Maps(messagesOut'[p], c, t)
  BY <1>2, GrownSays
<1>10. Introduced'
  <2>1. ASSUME NEW c \in alive', c \in sentMapping'
        PROVE  c \in delegators \/ \E r \in Thread : Introduces(messagesOut'[r], c)
    <3>1. CASE c \in sentMapping
      <4>1. c \in alive
        BY <1>1, <2>1, <3>1 DEF TypeOK, Onward
      <4> QED BY <1>4, <1>8, <3>1, <4>1 DEF Introduced
    <3>2. CASE c \notin sentMapping
      BY <1>1, <1>4, <1>9, <2>1, <3>2 DEF Enqueueing
    <3> QED BY <3>1, <3>2
  <2>2. ASSUME NEW c \in alive'
        PROVE  IntroducedFirst(messagesOut'[Receiver], c, delegators)
    <3>1. IntroducedFirst(messagesOut[Receiver], c, delegators)
      <4>1. CASE c \in alive
        BY <1>4, <4>1 DEF Introduced
      <4>2. CASE c \notin alive
        BY <1>2, <1>4, <1>5, <1>6, <4>2 DEF IntroducedFirst
      <4> QED BY <4>1, <4>2
    <3>2. CASE p = Receiver
      <4>1. IntroducedFirst(ms, c, delegators)
        BY <1>1, <1>4, <3>2 DEF Enqueueing, IntroducedFirst
      <4> QED BY <1>2, <3>1, <3>2, <4>1, GrownIntroducedFirst
    <3> QED BY <1>2, <3>1, <3>2
  <2> QED BY <1>1, <1>3, <1>4, <2>1, <2>2 DEF Introduced, Onward
<1>11. ASSUME NEW c \in alive', introducedBy'[c] = c
       PROVE  SelfIntroduced(c)'
  <2> DEFINE q == messagesOut[c]
  <2>1. c \in Id /\ c \in Thread /\ q \in Seq(Message) /\ q' = messagesOut'[c]
        /\ messagesOut' \in [Thread -> Seq(Message)]
    BY <1>2, <1>4 DEF TypeOK
  <2>2. CASE introducedBy[c] = NoThread
    <3>1. p = c /\ Introduction(ms, c)' /\ q' = q \o ms
      BY <1>1, <1>2, <1>11, <2>1, <2>2 DEF Enqueueing
    <3>2. IntroducedFirst(q, c, delegators) /\ MappedFirst(q, c, idToParser[c], late'[c])
      BY <1>6, <2>1, <2>2 DEF IntroducedFirst, MappedFirst
    <3>3. IntroducedFirst(ms, c, delegators)
      BY <3>1 DEF Introduction, IntroducedFirst
    <3>4. MappedFirst(ms, c, {}, {})
      BY <3>1 DEF Introduction
    <3> HIDE DEF q
    <3>5. IntroducedFirst(q \o ms, c, delegators)
      BY <2>1, <3>2, <3>3, GrownIntroducedFirst
    <3>6. MappedFirst(q \o ms, c, idToParser[c], late'[c])
      <4>1. \A i \in 1..Len(ms) :
              ms[i].from = c /\ ms[i].kind = "payload" =>
                \E j \in 1..(i - 1) : ms[j] = Mapping(c, ms[i].type)
        BY <3>4 DEF MappedFirst
      <4> QED BY <2>1, <3>2, <4>1, GrownMappedFirst
    <3>7. /\ Introduces(messagesOut'[c], c)
          /\ \A t \in types'[c] : Maps(messagesOut'[c], c, t)
      BY <1>9, <2>1, <3>1 DEF Introduction
    <3> QED BY <1>3, <2>1, <3>1, <3>5, <3>6, <3>7 DEF SelfIntroduced
  <2>3. CASE introducedBy[c] # NoThread
    <3>1. introducedBy[c] = c /\ c \in alive
      BY <1>1, <1>5, <1>11, <2>1, <2>3 DEF Onward
    <3>2. SelfIntroduced(c)
      BY <1>4, <3>1 DEF Mapped
    <3>3. c \in delegators \/ Introduces(messagesOut'[c], c)
      BY <1>8, <2>1, <3>2 DEF SelfIntroduced
    <3>4. \A t \in types'[c] \ late'[c] :
            t \in idToParser[c] \/ Maps(messagesOut'[c], c, t)
      <4> TAKE t \in types'[c] \ late'[c]
      <4>1. t \in types[c] \ late[c] \/ (p = c /\ Maps(ms, c, t))
        BY <1>1, <2>1, <3>1 DEF Enqueueing
      <4>2. t \in types[c] \ late[c] => t \in idToParser[c] \/ Maps(q, c, t)
        BY <3>2 DEF SelfIntroduced
      <4> QED BY <1>8, <1>9, <2>1, <4>1, <4>2
    <3>5. IntroducedFirst(messagesOut'[c], c, delegators)
      <4>1. IntroducedFirst(q, c, delegators) /\ (c \in delegators \/ Introduces(q, c))
        BY <3>2 DEF SelfIntroduced
      <4>2. IntroducedFirst(q \o ms, c, delegators)
        <5> HIDE DEF q
        <5> QED BY <2>1, <4>1, GrownIntroducedFirst
      <4> QED BY <1>2, <2>1, <4>1, <4>2
    <3>6. MappedFirst(messagesOut'[c], c, idToParser[c], late'[c])
      <4>1. late[c] \subseteq late'[c]
        BY <1>1, <2>1 DEF Onward
      <4>2. MappedFirst(q, c, idToParser[c], late'[c])
        BY <3>2, <4>1 DEF SelfIntroduced, MappedFirst
      <4>3. CASE p = c
        <5>1. ASSUME NEW i \in 1..Len(ms), ms[i].from = c, ms[i].kind = "payload",
                     ms[i].type \notin idToParser[c] \cup late'[c]
              PROVE  Maps(q, c, ms[i].type)
          <6>1. ms[i].type \in types[c] \ late[c]
            BY <1>1, <4>1, <5>1 DEF Enqueueing, WasMapped
          <6> QED BY <3>2, <5>1, <6>1 DEF SelfIntroduced
        <5>2. MappedFirst(q \o ms, c, idToParser[c], late'[c])
          <6> HIDE DEF q
          <6> QED BY <2>1, <4>2, <5>1, GrownMappedFirst
        <5> QED BY <1>2, <4>3, <5>2
      <4> QED BY <1>2, <2>1, <4>2, <4>3
    <3> QED BY <1>3, <3>3, <3>4, <3>5, <3>6 DEF SelfIntroduced
  <2> QED BY <2>2, <2>3
<1>12. Mapped'
  BY <1>1, <1>3, <1>4, <1>11 DEF Mapped, Onward
<1>13. SelfIntroducedHeard'
  <2> SUFFICES ASSUME NEW c \in alive', introducedBy'[c] = c, NEW t \in Types \ late'[c]
               PROVE  <<c, t>> \notin dropped
    BY <1>3 DEF SelfIntroducedHeard
  <2>1. CASE introducedBy[c] = NoThread
    BY <1>4, <2>1 DEF Fresh
  <2>2. CASE introducedBy[c] # NoThread
    <3>1. introducedBy[c] = c /\ c \in alive /\ t \notin late[c]
      BY <1>1, <1>4, <1>5, <2>2 DEF Onward
    <3> QED BY <1>4, <3>1 DEF SelfIntroducedHeard
  <2> QED BY <2>1, <2>2
<1> QED BY <1>1, <1>7, <1>10, <1>12, <1>13 DEF DeliveryInv

-----------------------------------------------------------------------------
(* Types.                                                                  *)

LEMMA EnqueuedTypes ==
  ASSUME TypeOK, NEW p \in Thread, NEW ms \in Seq(Message), Enqueued(p, ms)
  PROVE  /\ messagesOut' = [messagesOut EXCEPT ![p] = @ \o ms]
         /\ messagesOut' \in [Thread -> Seq(Message)]
<1>1. messagesOut[p] \o ms \in Seq(Message)
  BY Grown DEF TypeOK
<1> QED BY <1>1 DEF Enqueued, TypeOK

LEMMA IntroducingTypes ==
  ASSUME TypeOK, NEW p \in Thread, NEW cs \in SUBSET Id, NEW names,
         Introducing(p, cs, names)
  PROVE  introducedBy' \in [Id -> Thread \cup {NoThread}] /\ nameless' \subseteq Id
BY DEF Introducing, TypeOK

LEMMA ForwardedTypes ==
  ASSUME TypeOK, NEW c \in Id, NEW n \in BOOLEAN
  PROVE  /\ NewMappings(c, n) \in Seq(Message) /\ Forwarded(c, n) \in Seq(Message)
         /\ <<Channel(c, n)>> \o Forwarded(c, n) \in Seq(Message)
<1>1. Mappings(c, n) \in Seq(Message) /\ <<>> \in Seq(Message)
  BY MappingsLayout
<1>2. NewMappings(c, n) \in Seq(Message) /\ Forwarded(c, n) \in Seq(Message)
  BY <1>1 DEF NewMappings, Forwarded
<1>3. <<Channel(c, n)>> \in Seq(Message)
  BY MessageTypes
<1> QED BY <1>2, <1>3, Grown

LEMMA HandshakeTypes ==
  ASSUME TypeOK, NEW c \in Id, NEW t \in Types
  PROVE  Handshake(c) \o <<Payload(c, t)>> \in Seq(Message)
<1>1. Handshake(c) \in Seq(Message)
  <2>1. (c \in named) \in BOOLEAN
    OBVIOUS
  <2> QED BY <2>1, ForwardedTypes DEF Handshake
<1>2. <<Payload(c, t)>> \in Seq(Message)
  BY MessageTypes
<1> QED BY <1>1, <1>2, Grown

(* No action of the broker breaks a type ...                               *)
LEMMA BrokerTypes ==
  ASSUME TypeOK, NEW c \in Id,
         Client(c) \/ Subscribe(c) \/ Unsubscribe(c) \/ JoinNext(c)
  PROVE  TypeOK'
<1> USE DEF Thread
<1>1. CASE AddConnection(c)
  BY <1>1 DEF AddConnection, endpoint, TypeOK
<1>2. CASE RegisterChannel(c)
  <2>1. CASE subscribedToAll
    <3>1. messagesOut' \in [Thread -> Seq(Message)]
      BY <1>2, <2>1, ForwardedTypes, EnqueuedTypes DEF RegisterChannel
    <3>2. introducedBy' \in [Id -> Thread \cup {NoThread}] /\ nameless' \subseteq Id
      BY <1>2, <2>1, IntroducingTypes DEF RegisterChannel
    <3> QED BY <1>2, <2>1, <3>1, <3>2 DEF RegisterChannel, endpoint, TypeOK
  <2>2. CASE ~subscribedToAll
    BY <1>2, <2>2 DEF RegisterChannel, endpoint, TypeOK
  <2> QED BY <2>1, <2>2
<1>3. CASE \E p \in {Receiver, Checker} : Destroy(c, p)
  <2>1. PICK p \in {Receiver, Checker} : Destroy(c, p)
    BY <1>3
  <2>2. <<>> \in Seq(Message) /\ <<Gone(c)>> \in Seq(Message)
    BY MessageTypes
  <2>3. messagesOut' \in [Thread -> Seq(Message)]
    BY <2>1, <2>2, EnqueuedTypes DEF Destroy
  <2> QED BY <2>1, <2>3 DEF Destroy, endpoint, TypeOK
<1>4. ASSUME NEW t \in Types, RegisterMapping(c, t)
      PROVE  TypeOK'
  <2>1. <<>> \in Seq(Message) /\ <<Mapping(c, t)>> \in Seq(Message)
    BY MessageTypes
  <2>2. messagesOut' \in [Thread -> Seq(Message)]
    BY <1>4, <2>1, EnqueuedTypes DEF RegisterMapping
  <2>3. types' \in [Id -> SUBSET Types] /\ late' \in [Id -> SUBSET Types]
    BY <1>4 DEF RegisterMapping, TypeOK
  <2> QED BY <1>4, <2>2, <2>3 DEF RegisterMapping, endpoint, TypeOK
<1>5. ASSUME NEW t \in Types, Receive(c, t)
      PROVE  TypeOK'
  <2>1. <<Payload(c, t)>> \in Seq(Message)
    BY MessageTypes
  <2>2. messagesOut' \in [Thread -> Seq(Message)]
    BY <1>5, <2>1, EnqueuedTypes DEF Receive
  <2>3. sent' \in [Id -> 0..MaxSent]
    BY <1>5, DeliveryAssumption DEF Receive, TypeOK
  <2> QED BY <1>5, <2>2, <2>3 DEF Receive, endpoint, TypeOK
<1>6. ASSUME NEW t \in Types, SendTo(c, t)
      PROVE  TypeOK'
  <2>1. messagesOut' \in [Thread -> Seq(Message)]
    BY <1>6, HandshakeTypes, EnqueuedTypes DEF SendTo
  <2>2. introducedBy' \in [Id -> Thread \cup {NoThread}] /\ nameless' \subseteq Id
    BY <1>6, IntroducingTypes DEF SendTo
  <2>3. sent' \in [Id -> 0..MaxSent]
    BY <1>6, DeliveryAssumption DEF SendTo, TypeOK
  <2> QED BY <1>6, <2>1, <2>2, <2>3 DEF SendTo, endpoint, TypeOK
<1>7. CASE Subscribe(c)
  <2>1. messagesOut' \in [Thread -> Seq(Message)]
    BY <1>7, ForwardedTypes, EnqueuedTypes DEF Subscribe
  <2>2. introducedBy' \in [Id -> Thread \cup {NoThread}] /\ nameless' \subseteq Id
    BY <1>7, IntroducingTypes DEF Subscribe
  <2> QED BY <1>7, <2>1, <2>2 DEF Subscribe, endpoint, TypeOK
<1>8. CASE Unsubscribe(c)
  BY <1>8 DEF Unsubscribe, endpoint, TypeOK
<1>9. CASE JoinNext(c)
  <2>1. (c \in named) \in BOOLEAN
    OBVIOUS
  <2>2. Forwarded(c, c \in named) \in Seq(Message)
    BY <2>1, ForwardedTypes
  <2>3. messagesOut' \in [Thread -> Seq(Message)]
    BY <1>9, <2>2, EnqueuedTypes DEF JoinNext
  <2>4. introducedBy' \in [Id -> Thread \cup {NoThread}] /\ nameless' \subseteq Id
    BY <1>9, IntroducingTypes DEF JoinNext
  <2> QED BY <1>9, <2>3, <2>4 DEF JoinNext, endpoint, TypeOK
<1> QED BY <1>1, <1>2, <1>3, <1>4, <1>5, <1>6, <1>7, <1>8, <1>9 DEF Client

(* The message that Send takes off the queue of thread p.                  *)
Sending(p, m) ==
  /\ messagesOut[p] # <<>> /\ m = Head(messagesOut[p])
  /\ NotifyMapping(m) \/ NotifyTermination(m) \/ Parse(m) \/ Drop(m)
  /\ messagesOut' = [messagesOut EXCEPT ![p] = Tail(@)]
  /\ UNCHANGED <<accepted, alive, named, types, subs, sentMapping, introducedBy,
                 nameless, late>>

(* ... nor does the endpoint, whichever queue it reads.                    *)
LEMMA SendTypes ==
  ASSUME TypeOK, Send
  PROVE  TypeOK' /\ \E p \in Thread, m \in Message : Sending(p, m)
<1>1. PICK p \in Thread :
        /\ messagesOut[p] # <<>>
        /\ \/ NotifyMapping(FirstIn(p).msg) \/ NotifyTermination(FirstIn(p).msg)
           \/ Parse(FirstIn(p).msg) \/ Drop(FirstIn(p).msg)
        /\ messagesOut' = [messagesOut EXCEPT ![p] = FirstIn(p).rest]
        /\ UNCHANGED <<accepted, alive, named, types, subs, sentMapping,
                       subscribedToAll, joining, sent, introducedBy, nameless, late>>
  BY DEF Send
<1>2. messagesOut[p] \in Seq(Message)
  BY DEF TypeOK
<1>3. Head(messagesOut[p]) \in Message /\ Tail(messagesOut[p]) \in Seq(Message)
  BY <1>1, <1>2, Shrunk
<1>4. PICK m \in Message : m = Head(messagesOut[p])
  BY <1>3
<1>5. Sending(p, m)
  BY <1>1, <1>4 DEF Sending, FirstIn
<1>6. messagesOut' \in [Thread -> Seq(Message)]
  BY <1>3, <1>5 DEF Sending, TypeOK
<1>7. m.from \in Id /\ (m.kind \in {"type", "payload"} => m.type \in Types)
  BY MessageFields
<1>8. /\ delegators' \subseteq Id /\ channelNames' \subseteq delegators'
      /\ idToParser' \in [Id -> SUBSET Types] /\ dropped' \subseteq Id \X Types
  <2>1. CASE NotifyMapping(m)
    BY <1>7, <2>1 DEF NotifyMapping, TypeOK
  <2>2. CASE NotifyTermination(m)
    BY <1>7, <2>2 DEF NotifyTermination, WithoutName, WithoutParsers, TypeOK
  <2>3. CASE Parse(m)
    BY <1>7, <2>3 DEF Parse, TypeOK
  <2>4. CASE Drop(m)
    BY <1>7, <2>4 DEF Drop, TypeOK
  <2> QED BY <1>5, <2>1, <2>2, <2>3, <2>4 DEF Sending
<1> QED BY <1>1, <1>5, <1>6, <1>8 DEF TypeOK

(* Every variable of the broker and of the endpoint keeps its type, and the*)
(* endpoint has a name for delegators only (Connection::loop,              *)
(* ChannelParserDelegator).                                                *)
THEOREM DeliveryTypesCorrect == Spec => []TypeOK
<1>1. Init => TypeOK
  <2> SUFFICES ASSUME Init PROVE TypeOK
    OBVIOUS
  <2>1. messagesOut \in [Thread -> Seq(Message)]
    BY DEF Init
  <2>2. sent \in [Id -> 0..MaxSent]
    BY DeliveryAssumption DEF Init
  <2> QED BY <2>1, <2>2 DEF Init, TypeOK
<1>2. TypeOK /\ [Next]_vars => TypeOK'
  <2> SUFFICES ASSUME TypeOK, [Next]_vars PROVE TypeOK'
    OBVIOUS
  <2>1. CASE UNCHANGED vars
    BY <2>1 DEF vars, broker, endpoint, TypeOK
  <2>2. CASE SubscribeAll
    BY <2>2 DEF SubscribeAll, endpoint, TypeOK
  <2> QED BY <2>1, <2>2, BrokerTypes, SendTypes DEF Next
<1> QED BY <1>1, <1>2, PTL DEF Spec

-----------------------------------------------------------------------------
(* What the handlers of Dispatch enqueue.                                  *)

(* ms is about c: its introduction, by name if n, and types it mapped.     *)
Says(ms, c, n) ==
  \A i \in 1..Len(ms) : \/ ms[i] = Channel(c, n)
                        \/ \E t \in types[c] : ms[i] = Mapping(c, t)

(* A message about c that thread p may enqueue while it introduces c.      *)
Said(m, p, c, n) ==
  \/ m = Channel(c, n)
  \/ \E t \in types[c] : m = Mapping(c, t)
  \/ p = c /\ \E t \in types[c] : m = Payload(c, t)

(* Messages of one channel that begin with its introduction.               *)
LEMMA ChannelFirst ==
  ASSUME NEW c \in Id, NEW ms \in Seq(Message), ms # <<>>,
         ms[1].kind = "channel" /\ ms[1].from = c,
         \A i \in 1..Len(ms) : ms[i].from = c
  PROVE  Introduces(ms, c) /\ \A d : IntroducedFirst(ms, d, {})
<1>1. Len(ms) \in Nat \ {0}
  OBVIOUS
<1>2. ASSUME NEW i \in 1..Len(ms), ms[i].kind \in {"type", "payload"}
      PROVE  1 \in 1..(i - 1)
  BY <1>1, <1>2
<1> QED BY <1>1, <1>2 DEF Introduces, IntroducedFirst

LEMMA SaysFields ==
  ASSUME NEW ms, NEW c, NEW n, Says(ms, c, n), NEW i \in 1..Len(ms)
  PROVE  ms[i].from = c /\ ms[i].kind \in {"channel", "type"}
<1>1. CASE ms[i] = Channel(c, n)
  BY <1>1 DEF Channel
<1>2. CASE \E t \in types[c] : ms[i] = Mapping(c, t)
  <2>1. PICK t \in types[c] : ms[i] = Mapping(c, t)
    BY <1>2
  <2> QED BY <2>1 DEF Mapping
<1> QED BY <1>1, <1>2 DEF Says

LEMMA MappingsSay ==
  ASSUME TypeOK, NEW c \in Id, NEW n \in BOOLEAN
  PROVE  /\ Says(Mappings(c, n), c, n) /\ Introduction(Mappings(c, n), c)
         /\ \A d : IntroducedFirst(Mappings(c, n), d, {})
<1> DEFINE q == Mappings(c, n)
<1>1. /\ q \in Seq(Message) /\ q # <<>> /\ q[1] = Channel(c, n)
      /\ \A i \in 2..Len(q) : \E t \in types[c] : q[i] = Mapping(c, t)
      /\ \A t \in types[c] : Maps(q, c, t)
  BY MappingsLayout
<1> HIDE DEF q
<1>2. \A i \in 1..Len(q) : i = 1 \/ i \in 2..Len(q)
  OBVIOUS
<1>3. Says(q, c, n)
  BY <1>1, <1>2 DEF Says
<1>4. \A i \in 1..Len(q) : q[i].from = c /\ q[i].kind \in {"channel", "type"}
  BY <1>3, SaysFields
<1>5. Introduces(q, c) /\ \A d : IntroducedFirst(q, d, {})
  BY <1>1, <1>4, ChannelFirst DEF Channel
<1>6. MappedFirst(q, c, {}, {})
  BY <1>4 DEF MappedFirst
<1> QED BY <1>1, <1>3, <1>5, <1>6 DEF Introduction, q

LEMMA ForwardedSays ==
  ASSUME TypeOK, NEW c \in Id, NEW n \in BOOLEAN
  PROVE  /\ Says(NewMappings(c, n), c, n) /\ Says(Forwarded(c, n), c, n)
         /\ \A d : IntroducedFirst(Forwarded(c, n), d, {})
<1>1. Says(<<>>, c, n) /\ \A d : IntroducedFirst(<<>>, d, {})
  BY DEF Says, IntroducedFirst
<1> QED BY <1>1, MappingsSay DEF NewMappings, Forwarded

(* subscribe(name): an introduction, and whatever registerSubscription adds*)
LEMMA AnnouncementSays ==
  ASSUME TypeOK, NEW c \in Id, NEW n \in BOOLEAN, NEW ms,
         ms = <<Channel(c, n)>> \o Forwarded(c, n)
  PROVE  /\ ms \in Seq(Message) /\ Says(ms, c, n) /\ Introduces(ms, c)
         /\ \A d : IntroducedFirst(ms, d, {})
         /\ c \notin subs \cup sentMapping => Introduction(ms, c)
<1> DEFINE f == Forwarded(c, n)
           q == <<Channel(c, n)>>
<1>1. /\ f \in Seq(Message) /\ Says(f, c, n)
      /\ q \in Seq(Message) /\ Len(q) = 1 /\ q[1] = Channel(c, n)
  <2>1. Channel(c, n) \in Message
    BY MessageTypes
  <2>2. f \in Seq(Message)
    BY ForwardedTypes
  <2>3. Says(f, c, n)
    BY ForwardedSays
  <2>4. Len(q) = 1 /\ q[1] = Channel(c, n)
    OBVIOUS
  <2>5. q \in Seq(Message)
    BY <2>1
  <2> QED BY <2>2, <2>3, <2>4, <2>5
<1>2. c \notin subs \cup sentMapping => f = Mappings(c, n)
  BY DEF Forwarded, NewMappings
<1>3. ms = q \o f
  OBVIOUS
<1> HIDE DEF f, q
<1>4. /\ ms \in Seq(Message) /\ Len(ms) = 1 + Len(f) /\ ms[1] = q[1]
      /\ Len(f) \in Nat
      /\ \A i \in 1..Len(ms) : i # 1 => i - 1 \in 1..Len(f) /\ ms[i] = f[i - 1]
  <2>1. /\ q \o f \in Seq(Message) /\ Len(q \o f) = 1 + Len(f) /\ Len(f) \in Nat
        /\ (q \o f)[1] = q[1]
    BY <1>1, Grown
  <2>2. ASSUME NEW i \in 1..Len(q \o f), i # 1
        PROVE  i - 1 \in 1..Len(f) /\ (q \o f)[i] = f[i - 1]
    <3>1. i \notin 1..Len(q)
      BY <1>1, <2>2
    <3>2. i - Len(q) \in 1..Len(f) /\ (q \o f)[i] = f[i - Len(q)]
      BY <1>1, <3>1, Grown
    <3> QED BY <1>1, <3>2
  <2> QED BY <1>3, <2>1, <2>2
<1>5. Says(ms, c, n)
  BY <1>1, <1>4 DEF Says
<1>6. \A i \in 1..Len(ms) : ms[i].from = c /\ ms[i].kind \in {"channel", "type"}
  BY <1>5, SaysFields
<1>7. Introduces(ms, c) /\ \A d : IntroducedFirst(ms, d, {})
  <2>1. ms # <<>> /\ ms[1].kind = "channel" /\ ms[1].from = c
    BY <1>1, <1>4 DEF Channel
  <2> QED BY <1>4, <1>6, <2>1, ChannelFirst
<1>8. MappedFirst(ms, c, {}, {})
  BY <1>6 DEF MappedFirst
<1>9. ASSUME c \notin subs \cup sentMapping, NEW t \in types[c]
      PROVE  Maps(ms, c, t)
  <2>1. Maps(f, c, t)
    BY <1>2, <1>9, MappingsSay DEF Introduction
  <2> QED BY <1>1, <1>3, <2>1, GrownSays
<1> QED BY <1>4, <1>5, <1>7, <1>8, <1>9 DEF Introduction

(* sendTo: a payload, behind an introduction if it is the first.           *)
LEMMA DirectedSays ==
  ASSUME TypeOK, NEW c \in Id, NEW t \in types[c],
         NEW n \in BOOLEAN, n <=> c \in named, NEW ms,
         ms = Handshake(c) \o <<Payload(c, t)>>
  PROVE  /\ ms \in Seq(Message)
         /\ \A i \in 1..Len(ms) : Said(ms[i], c, c, n)
         /\ c \notin sentMapping => Introduction(ms, c)
<1> DEFINE h == Handshake(c)
           l == <<Payload(c, t)>>
<1>1. t \in Types /\ h = NewMappings(c, n)
  BY DEF TypeOK, Handshake
<1>2. /\ h \in Seq(Message) /\ Says(h, c, n)
      /\ l \in Seq(Message) /\ Len(l) = 1 /\ l[1] = Payload(c, t)
  <2>1. h \in Seq(Message)
    BY <1>1, ForwardedTypes
  <2>2. Says(h, c, n)
    BY <1>1, ForwardedSays
  <2>3. Payload(c, t) \in Message
    BY <1>1, MessageTypes
  <2> QED BY <2>1, <2>2, <2>3
<1>3. c \notin sentMapping => Introduction(h, c)
  BY <1>1, MappingsSay DEF NewMappings
<1>4. ms = h \o l
  OBVIOUS
<1> HIDE DEF h, l
<1>5. /\ ms \in Seq(Message) /\ Len(h) \in Nat
      /\ \A i \in 1..Len(ms) : (i \in 1..Len(h) /\ ms[i] = h[i]) \/ ms[i] = l[1]
  <2>1. h \o l \in Seq(Message) /\ Len(h) \in Nat
    BY <1>2, Grown
  <2>2. ASSUME NEW i \in 1..Len(h \o l), i \notin 1..Len(h)
        PROVE  (h \o l)[i] = l[1]
    <3>1. i - Len(h) \in 1..Len(l) /\ (h \o l)[i] = l[i - Len(h)]
      BY <1>2, <2>2, Grown
    <3> QED BY <1>2, <2>1, <3>1
  <2>3. \A i \in 1..Len(h) : (h \o l)[i] = h[i]
    BY <1>2, Grown
  <2> QED BY <1>4, <2>1, <2>2, <2>3
<1>6. \A i \in 1..Len(ms) : Said(ms[i], c, c, n)
  BY <1>2, <1>5 DEF Says, Said
<1>7. ASSUME c \notin sentMapping
      PROVE  Introduction(ms, c)
  <2>1. Introduction(h, c)
    BY <1>3, <1>7
  <2>2. Introduces(ms, c) /\ \A u \in types[c] : Maps(ms, c, u)
    BY <1>2, <1>4, <2>1, GrownSays DEF Introduction
  <2>3. IntroducedFirst(ms, c, {})
    BY <1>2, <1>4, <2>1, GrownIntroducedFirst DEF Introduction
  <2>4. \A i \in 1..Len(l) : l[i].kind = "payload" => Maps(h, c, l[i].type)
    BY <1>2, <2>1 DEF Introduction, Payload
  <2>5. MappedFirst(ms, c, {}, {})
    BY <1>2, <1>4, <2>1, <2>4, GrownMappedFirst DEF Introduction
  <2> QED BY <2>2, <2>3, <2>5 DEF Introduction
<1> QED BY <1>5, <1>6, <1>7

-----------------------------------------------------------------------------
(* Every step of the broker is a BrokerStep.                               *)

(* What is said of c is sound where c is introduced by now.                *)
LEMMA SoundMessages ==
  ASSUME TypeOK, NEW c \in Id, NEW n \in BOOLEAN, NEW p \in {c, Receiver},
         types' = types, introducedBy'[c] # NoThread, n \/ c \in nameless',
         NEW m, Said(m, p, c, n)
  PROVE  Sound(p, m)' /\ WasMapped(m)
<1>1. p # Checker /\ (p \in Id => p = c)
  BY DeliveryAssumption
<1>2. CASE m = Channel(c, n)
  <2>1. m.from = c /\ m.kind = "channel" /\ m.named = n
    BY <1>2 DEF Channel
  <2> QED BY <1>1, <2>1 DEF Sound, WasMapped
<1>3. CASE \E t \in types[c] : m = Mapping(c, t)
  <2>1. m.from = c /\ m.kind = "type" /\ m.type \in types[c]
    BY <1>3 DEF Mapping
  <2> QED BY <1>1, <2>1 DEF Sound, WasMapped
<1>4. CASE p = c /\ \E t \in types[c] : m = Payload(c, t)
  <2>1. m.from = c /\ m.kind = "payload" /\ m.type \in types[c]
    BY <1>4 DEF Payload
  <2>2. p # Receiver
    BY <1>4, DeliveryAssumption
  <2> QED BY <1>1, <2>1, <2>2 DEF Sound, WasMapped
<1> QED BY <1>2, <1>3, <1>4 DEF Said

(* Thread p introduces c, by its name if it has one by now.                *)
LEMMA IntroducingStep ==
  ASSUME TypeOK, DeliveryInv, NEW p \in Thread, NEW c \in accepted,
         Introducing(p, {c}, named'), named \subseteq named',
         UNCHANGED <<accepted, alive, types, late, dropped>>,
         subs' \subseteq subs \cup {c}, sentMapping' = sentMapping \cup {c}
  PROVE  /\ Onward /\ Fresh'
         /\ introducedBy'[c] # NoThread
         /\ c \in named' \/ c \in nameless'
         /\ \A d \in Id : introducedBy[d] = NoThread /\ introducedBy'[d] # NoThread =>
                            d = c /\ introducedBy'[d] = p
<1>1. /\ introducedBy' = [d \in Id |-> IF d = c /\ introducedBy[d] = NoThread
                                       THEN p ELSE introducedBy[d]]
      /\ nameless' = nameless \cup {d \in {c} : introducedBy[d] = NoThread
                                               /\ d \notin named'}
  BY DEF Introducing, TypeOK
<1>2. p # NoThread /\ accepted \subseteq Id
  BY DeliveryAssumption DEF TypeOK
<1>3. Onward
  BY <1>1 DEF Onward
<1>4. Fresh
  BY DEF DeliveryInv
<1>5. Fresh'
  BY <1>1, <1>2, <1>4 DEF Fresh
<1> QED BY <1>1, <1>2, <1>3, <1>4, <1>5 DEF Fresh

(* A step that enqueues nothing.                                           *)
LEMMA QuietStep ==
  ASSUME TypeOK, DeliveryInv, UNCHANGED endpoint,
         UNCHANGED <<types, messagesOut, introducedBy, nameless, late>>,
         accepted \subseteq accepted', named \subseteq named',
         alive' \cap accepted \subseteq alive,
         subs' \subseteq subs \cap sentMapping', sentMapping' \subseteq sentMapping
  PROVE  BrokerStep
<1> DEFINE ms == <<>>
<1>1. ms \in Seq(Message) /\ Len(ms) = 0
  OBVIOUS
<1>2. Receiver \in Thread /\ messagesOut[Receiver] \in Seq(Message)
  BY DEF Thread, TypeOK
<1>3. messagesOut[Receiver] \o ms = messagesOut[Receiver]
  BY <1>2
<1>4. messagesOut' = [messagesOut EXCEPT ![Receiver] = @ \o ms]
  BY <1>3 DEF TypeOK
<1>5. \A c \in Id : IntroducedFirst(ms, c, {})
  BY DEF IntroducedFirst
<1>6. Fresh /\ Fresh'
  BY DEF DeliveryInv, Fresh, endpoint
<1>7. Onward
  BY DEF Onward
<1> HIDE DEF ms
<1>8. /\ \A i \in 1..Len(ms) : Sound(Receiver, ms[i])' /\ WasMapped(ms[i])
      /\ \A c \in Id : introducedBy[c] = NoThread => introducedBy'[c] # c
  BY <1>1, DeliveryAssumption DEF Thread
<1>9. Enqueueing(Receiver, ms)
  BY <1>4, <1>5, <1>8 DEF Enqueueing
<1> QED BY <1>1, <1>2, <1>6, <1>7, <1>9 DEF BrokerStep

(* An introduction of c on thread p, as registerSubscription has it.       *)
LEMMA AnnouncingStep ==
  ASSUME TypeOK, DeliveryInv, NEW c \in accepted, NEW p \in {c, Receiver},
         NEW n \in BOOLEAN, n \/ c \notin named',
         NEW ms \in Seq(Message), \A i \in 1..Len(ms) : Said(ms[i], p, c, n),
         p = Receiver => \A d : IntroducedFirst(ms, d, {}),
         c \notin sentMapping => Introduces(ms, c),
         c \notin subs \cup sentMapping => Introduction(ms, c),
         messagesOut' = [messagesOut EXCEPT ![p] = @ \o ms],
         Introducing(p, {c}, named'), named \subseteq named',
         UNCHANGED <<accepted, alive, types, late, endpoint>>,
         subs' \subseteq subs \cup {c}, sentMapping' = sentMapping \cup {c}
  PROVE  BrokerStep
<1>1. c \in Id /\ p \in Thread
  BY DEF TypeOK, Thread
<1>2. /\ Onward /\ Fresh' /\ introducedBy'[c] # NoThread
      /\ c \in named' \/ c \in nameless'
      /\ \A d \in Id : introducedBy[d] = NoThread /\ introducedBy'[d] # NoThread =>
                         d = c /\ introducedBy'[d] = p
  BY <1>1, IntroducingStep DEF endpoint
<1>3. \A i \in 1..Len(ms) : Sound(p, ms[i])' /\ WasMapped(ms[i])
  <2> TAKE i \in 1..Len(ms)
  <2>1. Said(ms[i], p, c, n) /\ (n \/ c \in nameless')
    BY <1>2
  <2>2. PICK k : k = ms[i]
    OBVIOUS
  <2>3. Sound(p, k)' /\ WasMapped(k)
    BY <1>1, <1>2, <2>1, <2>2, SoundMessages
  <2> QED BY <2>2, <2>3
<1>4. \A d \in sentMapping' \ sentMapping : Introduces(ms, d)
  OBVIOUS
<1>5. ASSUME NEW d \in Id, introducedBy[d] = NoThread, introducedBy'[d] = d
      PROVE  p = d /\ Introduction(ms, d)'
  <2>1. d = c /\ p = d
    BY <1>2, <1>5, DeliveryAssumption DEF Thread
  <2>2. c \notin subs \cup sentMapping
    BY <1>1, <1>5, <2>1 DEF DeliveryInv, Fresh
  <2>3. Introduction(ms, c)
    BY <2>2
  <2> QED BY <2>1, <2>3 DEF Introduction
<1>6. Enqueueing(p, ms)
  BY <1>3, <1>4, <1>5 DEF Enqueueing
<1> QED BY <1>1, <1>2, <1>6 DEF BrokerStep

(* Each action is one of them.                                             *)
LEMMA BrokerSteps ==
  ASSUME TypeOK, DeliveryInv, NEW c \in Id,
         Client(c) \/ Subscribe(c) \/ Unsubscribe(c) \/ JoinNext(c)
  PROVE  BrokerStep
<1> USE DEF Thread
<1>1. CASE AddConnection(c)
  <2>1. subs \subseteq sentMapping
    BY DEF DeliveryInv, Fresh, TypeOK
  <2> QED BY <1>1, <2>1, QuietStep DEF AddConnection, TypeOK
<1>2. CASE RegisterChannel(c)
  <2>1. CASE subscribedToAll
    <3>1. PICK n \in BOOLEAN : n
      OBVIOUS
    <3>2. PICK ms : ms = <<Channel(c, n)>> \o Forwarded(c, n)
      OBVIOUS
    <3>3. /\ ms \in Seq(Message) /\ Says(ms, c, n) /\ Introduces(ms, c)
          /\ c \notin subs \cup sentMapping => Introduction(ms, c)
      BY <3>2, AnnouncementSays
    <3>4. \A i \in 1..Len(ms) : Said(ms[i], c, c, n)
      BY <3>3 DEF Says, Said
    <3>5. <<Channel(c, TRUE)>> \o Forwarded(c, TRUE) = ms
      BY <3>1, <3>2, Zenon
    <3>6. Enqueued(c, ms)
      BY <1>2, <2>1, <3>5 DEF RegisterChannel
    <3>7. messagesOut' = [messagesOut EXCEPT ![c] = @ \o ms]
      BY <3>3, <3>6, EnqueuedTypes
    <3>8. c # Receiver
      BY DeliveryAssumption
    <3> QED BY <1>2, <2>1, <3>1, <3>3, <3>4, <3>7, <3>8, AnnouncingStep
            DEF RegisterChannel, TypeOK
  <2>2. CASE ~subscribedToAll
    <3>1. subs \subseteq sentMapping
      BY DEF DeliveryInv, Fresh, TypeOK
    <3> QED BY <1>2, <2>2, <3>1, QuietStep DEF RegisterChannel, TypeOK
  <2> QED BY <2>1, <2>2
<1>3. CASE \E p \in {Receiver, Checker} : Destroy(c, p)
  <2>1. PICK p \in {Receiver, Checker} : Destroy(c, p)
    BY <1>3
  <2>2. PICK ms : ms = IF c \in subs THEN <<Gone(c)>> ELSE <<>>
    OBVIOUS
  <2>3. ms \in Seq(Message) /\ \A i \in 1..Len(ms) : ms[i] = Gone(c) /\ c \in subs
    BY <2>2, MessageTypes
  <2>4. messagesOut' = [messagesOut EXCEPT ![p] = @ \o ms]
    BY <2>1, <2>2, <2>3, EnqueuedTypes DEF Destroy
  <2>5. Onward /\ Fresh' /\ introducedBy' = introducedBy
    BY <2>1 DEF Destroy, Onward, DeliveryInv, Fresh, endpoint, TypeOK
  <2>6. introducedBy[c] # NoThread \/ c \notin subs
    BY DEF DeliveryInv, Fresh
  <2>7. ASSUME NEW m, m = Gone(c), c \in subs
        PROVE  Sound(p, m)' /\ WasMapped(m)
    <3>1. m.from = c /\ m.kind = "gone"
      BY <2>7 DEF Gone
    <3> QED BY <2>1, <2>5, <2>6, <2>7, <3>1, DeliveryAssumption
            DEF Destroy, Sound, WasMapped
  <2>8. \A d : IntroducedFirst(ms, d, {})
    BY <2>3 DEF IntroducedFirst, Gone
  <2>9. Enqueueing(p, ms)
    BY <2>1, <2>3, <2>4, <2>5, <2>7, <2>8, DeliveryAssumption
    DEF Destroy, Enqueueing, endpoint
  <2> QED BY <2>3, <2>5, <2>9 DEF BrokerStep
<1>4. ASSUME NEW t \in Types, RegisterMapping(c, t)
      PROVE  BrokerStep
  <2>1. PICK ms : ms = IF c \in subs THEN <<Mapping(c, t)>> ELSE <<>>
    OBVIOUS
  <2>2. /\ ms \in Seq(Message)
        /\ \A i \in 1..Len(ms) : ms[i] = Mapping(c, t) /\ c \in subs
        /\ c \in subs => Maps(ms, c, t)
    BY <2>1, MessageTypes DEF Maps
  <2>3. messagesOut' = [messagesOut EXCEPT ![c] = @ \o ms]
    BY <1>4, <2>1, <2>2, EnqueuedTypes DEF RegisterMapping
  <2>4. Onward /\ Fresh' /\ introducedBy' = introducedBy
    BY <1>4 DEF RegisterMapping, Onward, DeliveryInv, Fresh, endpoint, TypeOK
  <2>5. introducedBy[c] # NoThread \/ c \notin subs
    BY DEF DeliveryInv, Fresh
  <2>6. ASSUME NEW m, m = Mapping(c, t), c \in subs
        PROVE  Sound(c, m)' /\ WasMapped(m)
    <3>1. m.from = c /\ m.kind = "type" /\ m.type = t
      BY <2>6 DEF Mapping
    <3>2. t \in types'[c] /\ c # Receiver /\ c # Checker
      BY <1>4, DeliveryAssumption DEF RegisterMapping, TypeOK
    <3> QED BY <2>4, <2>5, <2>6, <3>1, <3>2 DEF Sound, WasMapped
  <2>7. ASSUME NEW d \in Id, introducedBy[d] = d, NEW u \in types'[d] \ late'[d]
        PROVE  u \in types[d] \ late[d] \/ (c = d /\ Maps(ms, d, u))
    <3>1. introducedBy[d] # NoThread
      BY <2>7, DeliveryAssumption
    <3> QED BY <1>4, <2>2, <2>7, <3>1 DEF RegisterMapping, TypeOK
  <2>8. Enqueueing(c, ms)
    BY <1>4, <2>2, <2>3, <2>4, <2>6, <2>7, DeliveryAssumption
    DEF RegisterMapping, Enqueueing, endpoint
  <2> QED BY <2>2, <2>4, <2>8 DEF BrokerStep
<1>5. ASSUME NEW t \in Types, Receive(c, t)
      PROVE  BrokerStep
  <2>1. PICK ms : ms = <<Payload(c, t)>>
    OBVIOUS
  <2>2. ms \in Seq(Message) /\ \A i \in 1..Len(ms) : ms[i] = Payload(c, t)
    BY <2>1, MessageTypes
  <2>3. messagesOut' = [messagesOut EXCEPT ![c] = @ \o ms]
    BY <1>5, <2>1, <2>2, EnqueuedTypes DEF Receive
  <2>4. Onward /\ Fresh' /\ introducedBy' = introducedBy
    BY <1>5 DEF Receive, Onward, DeliveryInv, Fresh, endpoint
  <2>5. introducedBy[c] # NoThread
    BY <1>5 DEF Receive, DeliveryInv, Fresh
  <2>6. ASSUME NEW m, m = Payload(c, t)
        PROVE  Sound(c, m)' /\ WasMapped(m)
    <3>1. m.from = c /\ m.kind = "payload" /\ m.type = t
      BY <2>6 DEF Payload
    <3>2. t \in types[c] /\ c # Receiver /\ c # Checker
      BY <1>5, DeliveryAssumption DEF Receive
    <3> QED BY <1>5, <2>4, <2>5, <3>1, <3>2 DEF Receive, Sound, WasMapped
  <2>7. Enqueueing(c, ms)
    BY <1>5, <2>2, <2>3, <2>4, <2>6, DeliveryAssumption DEF Receive, Enqueueing, endpoint
  <2> QED BY <2>2, <2>4, <2>7 DEF BrokerStep
<1>6. ASSUME NEW t \in Types, SendTo(c, t)
      PROVE  BrokerStep
  <2>1. t \in types[c]
    BY <1>6 DEF SendTo
  <2>2. PICK ms : ms = Handshake(c) \o <<Payload(c, t)>>
    OBVIOUS
  <2>3. PICK n \in BOOLEAN : n <=> c \in named
    BY Zenon
  <2>4. /\ ms \in Seq(Message)
        /\ \A i \in 1..Len(ms) : Said(ms[i], c, c, n)
        /\ c \notin sentMapping => Introduction(ms, c)
    BY <2>1, <2>2, <2>3, DirectedSays
  <2>5. messagesOut' = [messagesOut EXCEPT ![c] = @ \o ms]
    BY <1>6, <2>2, <2>4, EnqueuedTypes DEF SendTo
  <2>6. c # Receiver /\ (c \notin sentMapping => Introduces(ms, c))
    BY <2>4, DeliveryAssumption DEF Introduction
  <2> QED BY <1>6, <2>3, <2>4, <2>5, <2>6, AnnouncingStep DEF SendTo, TypeOK
<1>7. CASE Subscribe(c)
  <2>1. PICK n \in BOOLEAN : n = TRUE
    OBVIOUS
  <2>2. PICK ms : ms = <<Channel(c, n)>> \o Forwarded(c, n)
    OBVIOUS
  <2>3. /\ ms \in Seq(Message) /\ Says(ms, c, n) /\ Introduces(ms, c)
        /\ \A d : IntroducedFirst(ms, d, {})
        /\ c \notin subs \cup sentMapping => Introduction(ms, c)
    BY <2>2, AnnouncementSays
  <2>4. \A i \in 1..Len(ms) : Said(ms[i], Receiver, c, n)
    BY <2>3 DEF Says, Said
  <2>5. <<Channel(c, TRUE)>> \o Forwarded(c, TRUE) = ms
    BY <2>1, <2>2, Zenon
  <2>6. Enqueued(Receiver, ms)
    BY <1>7, <2>5, Zenon DEF Subscribe
  <2>7. messagesOut' = [messagesOut EXCEPT ![Receiver] = @ \o ms]
    BY <2>3, <2>6, EnqueuedTypes
  <2> QED BY <1>7, <2>1, <2>3, <2>4, <2>7, AnnouncingStep DEF Subscribe, TypeOK
<1>8. CASE Unsubscribe(c)
  <2>1. subs \subseteq sentMapping
    BY DEF DeliveryInv, Fresh, TypeOK
  <2> QED BY <1>8, <2>1, QuietStep DEF Unsubscribe
<1>9. CASE JoinNext(c)
  <2>1. PICK n \in BOOLEAN : n <=> c \in named
    BY Zenon
  <2>2. PICK ms : ms = Forwarded(c, n)
    OBVIOUS
  <2>3. /\ ms \in Seq(Message) /\ Says(ms, c, n)
        /\ \A d : IntroducedFirst(ms, d, {})
        /\ c \notin subs \cup sentMapping => Introduction(ms, c)
    BY <2>2, ForwardedTypes, ForwardedSays, MappingsSay DEF Forwarded, NewMappings
  <2>4. \A i \in 1..Len(ms) : Said(ms[i], Receiver, c, n)
    BY <2>3 DEF Says, Said
  <2>5. Enqueued(Receiver, ms)
    BY <1>9, <2>1, <2>2 DEF JoinNext
  <2>6. messagesOut' = [messagesOut EXCEPT ![Receiver] = @ \o ms]
    BY <2>3, <2>5, EnqueuedTypes
  <2>7. c \notin sentMapping => Introduces(ms, c)
    BY <2>3 DEF Introduction, DeliveryInv, Fresh
  <2> QED BY <1>9, <2>1, <2>3, <2>4, <2>6, <2>7, AnnouncingStep DEF JoinNext, TypeOK
<1> QED BY <1>1, <1>2, <1>3, <1>4, <1>5, <1>6, <1>7, <1>8, <1>9 DEF Client

-----------------------------------------------------------------------------
(* The step of the endpoint.                                               *)

(* Whatever the message and the queue, the invariant is kept.              *)
LEMMA SendKeeps ==
  ASSUME TypeOK, TypeOK', DeliveryInv, NEW p \in Thread, NEW m \in Message,
         Sending(p, m)
  PROVE  DeliveryInv'
<1> DEFINE q == messagesOut[p]
<1>1. /\ q \in Seq(Message) /\ q # <<>> /\ m = Head(q) /\ messagesOut'[p] = Tail(q)
      /\ \A r \in Thread \ {p} : messagesOut'[r] = messagesOut[r]
      /\ \A r \in Thread : messagesOut[r] \in Seq(Message)
      /\ alive \subseteq Id /\ Id \subseteq Thread /\ Receiver \in Thread
  BY DEF Sending, TypeOK, Thread
<1>2. /\ accepted' = accepted /\ alive' = alive /\ named' = named /\ types' = types
      /\ subs' = subs /\ sentMapping' = sentMapping /\ introducedBy' = introducedBy
      /\ nameless' = nameless /\ late' = late
  BY DEF Sending
<1>3. QueueSound /\ Fresh /\ Introduced /\ Mapped /\ SelfIntroducedHeard
  BY DEF DeliveryInv
<1> HIDE DEF q
<1>4. Sound(p, m) /\ 1 \in 1..Len(q) /\ q[1] = m
  BY <1>1, <1>3, Shrunk DEF QueueSound, q
<1>5. m.from \in Id /\ m.kind \in {"channel", "type", "payload", "gone"}
      /\ (m.kind = "type" => m = Mapping(m.from, m.type))
      /\ (m.kind \in {"type", "payload"} => m.type \in Types)
  BY MessageFields
<1>6. NotifyMapping(m) \/ NotifyTermination(m) \/ Parse(m) \/ Drop(m)
  BY DEF Sending
<1>7. QueueSound'
  <2>1. ASSUME NEW r \in Thread, NEW i \in 1..Len(messagesOut'[r]),
               NEW k, k = messagesOut'[r][i]
        PROVE  Sound(r, k)
    <3>1. CASE r = p
      <4>1. i \in 1..Len(Tail(q)) /\ k = Tail(q)[i]
        BY <1>1, <2>1, <3>1
      <4>2. i + 1 \in 1..Len(q) /\ k = q[i + 1]
        BY <1>1, <4>1, Shrunk
      <4> QED BY <1>3, <3>1, <4>2 DEF QueueSound, q
    <3>2. CASE r # p
      BY <1>1, <1>3, <2>1, <3>2 DEF QueueSound
    <3> QED BY <3>1, <3>2
  <2> QED BY <1>2, <2>1 DEF QueueSound, Sound
<1>8. dropped' \subseteq dropped \cup {<<m.from, m.type>>}
  BY <1>6 DEF NotifyMapping, NotifyTermination, Parse, Drop
<1>9. Fresh'
  BY <1>2, <1>3, <1>4, <1>8 DEF Fresh, Sound
(* A channel alive keeps its delegator, and the delegator its types.       *)
<1>10. ASSUME NEW c \in alive
       PROVE  /\ c \in delegators => c \in delegators'
              /\ idToParser[c] \subseteq idToParser'[c]
              /\ m.kind = "channel" /\ m.from = c => c \in delegators'
  <2>1. m.kind = "gone" => m.from # c
    BY <1>4 DEF Sound
  <2>2. c \in Id
    BY <1>1
  <2> QED BY <1>6, <2>1, <2>2 DEF NotifyMapping, NotifyTermination, WithoutParsers,
                                  Parse, Drop, TypeOK
<1>11. ASSUME NEW c \in alive, IntroducedFirst(q, c, delegators),
              m.from = c, m.kind \in {"type", "payload"}
       PROVE  c \in delegators
  <2> SUFFICES ASSUME c \notin delegators PROVE FALSE
    OBVIOUS
  <2>1. \E j \in 1..(1 - 1) : q[j].kind = "channel" /\ q[j].from = c
    BY <1>4, <1>11 DEF IntroducedFirst
  <2> QED BY <2>1
<1>12. Introduced'
  <2>1. ASSUME NEW c \in alive, c \in sentMapping, c \notin delegators'
        PROVE  \E r \in Thread : Introduces(messagesOut'[r], c)
    <3>1. PICK r \in Thread : Introduces(messagesOut[r], c)
      BY <1>3, <1>10, <2>1 DEF Introduced
    <3>2. r = p => Introduces(Tail(q), c)
      BY <1>1, <1>10, <2>1, <3>1, ShrunkSays DEF q
    <3> QED BY <1>1, <3>1, <3>2
  <2>2. ASSUME NEW c \in alive
        PROVE  IntroducedFirst(messagesOut'[Receiver], c, delegators')
    <3>1. IntroducedFirst(messagesOut[Receiver], c, delegators)
      BY <1>3 DEF Introduced
    <3>2. CASE p = Receiver
      <4>1. IntroducedFirst(q, c, delegators)
        BY <3>1, <3>2 DEF q
      <4>2. IntroducedFirst(Tail(q), c, delegators')
        BY <1>1, <1>10, <4>1, ShrunkIntroducedFirst
      <4> QED BY <1>1, <3>2, <4>2
    <3>3. CASE p # Receiver
      BY <1>1, <1>10, <3>1, <3>3 DEF IntroducedFirst
    <3> QED BY <3>2, <3>3
  <2>3. delegators' \subseteq channelNames' \cup nameless
    <3>1. delegators \subseteq channelNames \cup nameless
      BY <1>3 DEF Introduced
    <3> QED BY <1>4, <1>6, <3>1 DEF NotifyMapping, NotifyTermination, WithoutName,
                                    Parse, Drop, Sound
  <2> QED BY <1>2, <2>1, <2>2, <2>3 DEF Introduced
<1>13. ASSUME NEW c \in alive, introducedBy[c] = c
       PROVE  SelfIntroduced(c)'
  <2>1. c \in Id /\ c \in Thread /\ SelfIntroduced(c)
    BY <1>1, <1>3, <1>13 DEF Mapped
  <2>2. CASE p # c
    <3>1. messagesOut'[c] = messagesOut[c]
      BY <1>1, <2>1, <2>2
    <3> QED BY <1>2, <1>10, <2>1, <3>1 DEF SelfIntroduced, IntroducedFirst, MappedFirst
  <2>3. CASE p = c
    <3>1. /\ IntroducedFirst(q, c, delegators) /\ (c \in delegators \/ Introduces(q, c))
          /\ \A t \in types[c] \ late[c] : t \in idToParser[c] \/ Maps(q, c, t)
          /\ MappedFirst(q, c, idToParser[c], late[c])
      BY <2>1, <2>3 DEF SelfIntroduced, q
    <3>2. ASSUME NEW t, m = Mapping(c, t)
          PROVE  t \in idToParser'[c]
      <4>1. m.from = c /\ m.kind = "type" /\ m.type = t
        BY <3>2 DEF Mapping
      <4>2. c \in delegators
        BY <1>11, <3>1, <4>1
      <4>3. Parse(m)
        BY <1>6, <4>1, <4>2 DEF NotifyMapping, NotifyTermination, Drop
      <4> QED BY <2>1, <4>1, <4>3 DEF Parse, TypeOK
    <3>3. IntroducedFirst(Tail(q), c, delegators')
      BY <1>1, <1>10, <3>1, ShrunkIntroducedFirst
    <3>4. c \in delegators' \/ Introduces(Tail(q), c)
      BY <1>1, <1>10, <3>1, ShrunkSays
    <3>5. \A t \in types[c] \ late[c] : t \in idToParser'[c] \/ Maps(Tail(q), c, t)
      <4> TAKE t \in types[c] \ late[c]
      <4>1. t \in idToParser[c] \/ Maps(q, c, t)
        BY <3>1
      <4>2. Maps(q, c, t) => Maps(Tail(q), c, t) \/ m = Mapping(c, t)
        <5>1. \A u : Maps(q, c, u) => Maps(Tail(q), c, u) \/ Head(q) = Mapping(c, u)
          BY <1>1, ShrunkSays
        <5> QED BY <1>1, <5>1
      <4>3. m = Mapping(c, t) => t \in idToParser'[c]
        BY <3>2
      <4> QED BY <1>10, <4>1, <4>2, <4>3
    <3>6. MappedFirst(Tail(q), c, idToParser'[c], late[c])
      BY <1>1, <1>10, <3>1, <3>2, ShrunkMappedFirst
    <3> QED BY <1>1, <1>2, <2>3, <3>3, <3>4, <3>5, <3>6 DEF SelfIntroduced
  <2> QED BY <2>2, <2>3
<1>14. \A c \in Id : idToParser'[c] \subseteq types[c]
  <2>1. \A c \in Id : idToParser[c] \subseteq types[c]
    BY <1>3 DEF Mapped
  <2>2. CASE Parse(m)
    <3>1. m.kind = "type" => m.type \in types[m.from]
      BY <1>4 DEF Sound
    <3>2. \/ idToParser' = idToParser
          \/ /\ m.kind = "type"
             /\ idToParser' = [idToParser EXCEPT ![m.from] = @ \cup {m.type}]
      BY <2>2 DEF Parse
    <3>3. idToParser \in [Id -> SUBSET Types]
      BY DEF TypeOK
    <3>4. ASSUME NEW c \in Id
          PROVE  idToParser'[c] = idToParser[c]
                 \/ (m.kind = "type" /\ m.from = c
                     /\ idToParser'[c] = idToParser[c] \cup {m.type})
      BY <1>5, <3>2, <3>3
    <3> QED BY <2>1, <3>1, <3>4
  <2>3. CASE NotifyTermination(m)
    BY <1>5, <2>1, <2>3 DEF NotifyTermination, WithoutParsers, TypeOK
  <2> QED BY <1>6, <2>1, <2>2, <2>3 DEF NotifyMapping, Drop
<1>15. Mapped'
  BY <1>2, <1>13, <1>14 DEF Mapped
<1>16. SelfIntroducedHeard'
  <2> SUFFICES ASSUME NEW c \in alive, introducedBy[c] = c, NEW t \in Types \ late[c],
                      <<c, t>> \in dropped'
               PROVE  FALSE
    BY <1>2 DEF SelfIntroducedHeard
  <2>1. c \in Id /\ SelfIntroduced(c) /\ <<c, t>> \notin dropped
    BY <1>1, <1>3 DEF Mapped, SelfIntroducedHeard
  <2>2. Drop(m) /\ m.from = c /\ m.type = t
    BY <1>6, <2>1 DEF NotifyMapping, NotifyTermination, Parse, Drop
  <2>3. p = Receiver \/ p = c
    BY <1>4, <2>2 DEF Drop, Sound, Thread
  <2>4. IntroducedFirst(q, c, delegators)
    BY <1>3, <2>1, <2>3 DEF Introduced, SelfIntroduced, q
  <2>5. c \in delegators
    BY <1>11, <2>2, <2>4 DEF Drop
  <2>6. m.kind = "payload" /\ t \notin idToParser[c] /\ p = c
    BY <1>4, <2>2, <2>3, <2>5 DEF Drop, Sound
  <2>7. MappedFirst(q, c, idToParser[c], late[c])
    BY <2>1, <2>6 DEF SelfIntroduced, q
  <2>8. \E j \in 1..(1 - 1) : q[j] = Mapping(c, t)
    BY <1>4, <2>2, <2>6, <2>7 DEF MappedFirst
  <2> QED BY <2>8
<1> QED BY <1>7, <1>9, <1>12, <1>15, <1>16 DEF DeliveryInv

-----------------------------------------------------------------------------
LEMMA DeliveryInvStep ==
  TypeOK /\ TypeOK' /\ DeliveryInv /\ [Next]_vars => DeliveryInv'
<1> SUFFICES ASSUME TypeOK, TypeOK', DeliveryInv, [Next]_vars PROVE DeliveryInv'
  OBVIOUS
<1>1. subs \subseteq sentMapping
  BY DEF DeliveryInv, Fresh, TypeOK
<1>2. CASE UNCHANGED vars
  BY <1>1, <1>2, QuietStep, BrokerStepKeeps DEF vars, broker
<1>3. CASE SubscribeAll
  BY <1>1, <1>3, QuietStep, BrokerStepKeeps DEF SubscribeAll
<1>4. CASE Send
  BY <1>4, SendTypes, SendKeeps
<1> QED BY <1>2, <1>3, <1>4, BrokerSteps, BrokerStepKeeps DEF Next

(* The strengthened invariant: each queue introduces a channel before it   *)
(* speaks of it, and maps a type of it before its payloads                 *)
(* (Connection::sendMappings).                                             *)
THEOREM QueuesInOrder == Spec => []DeliveryInv
<1>1. Init => DeliveryInv
  <2> SUFFICES ASSUME Init PROVE DeliveryInv
    OBVIOUS
  <2>1. \A p \in Thread : Len(messagesOut[p]) = 0
    BY DEF Init
  <2>2. QueueSound
    BY <2>1 DEF QueueSound
  <2>3. Fresh
    BY DEF Init, Fresh
  <2>4. Introduced /\ Mapped /\ SelfIntroducedHeard
    BY DEF Init, Introduced, Mapped, SelfIntroducedHeard
  <2> QED BY <2>2, <2>3, <2>4 DEF DeliveryInv
<1> QED BY <1>1, DeliveryInvStep, DeliveryTypesCorrect, PTL DEF Spec

(* A living channel that introduced itself loses nothing but payloads of   *)
(* late types, whichever queue the receiver empties first                  *)
(* (Connection::loop, ParserDelegator).                                    *)
THEOREM SelfIntroducedAreHeard == Spec => []SelfIntroducedHeard
<1>1. DeliveryInv => SelfIntroducedHeard
  BY DEF DeliveryInv
<1> QED BY <1>1, QueuesInOrder, PTL

(* With the queue empty, the endpoint knows of the living channels what the*)
(* broker told it (ChannelParserDelegator).                                *)
THEOREM DrainedIsKnown == Spec => []DrainedKnown
<1>1. TypeOK /\ DeliveryInv => DrainedKnown
  <2> SUFFICES ASSUME TypeOK, DeliveryInv, QueueEmpty, NEW c \in alive
               PROVE  /\ c \in sentMapping => c \in delegators
                      /\ idToParser[c] \subseteq types[c]
                      /\ c \in sentMapping \ nameless => c \in channelNames
                      /\ introducedBy[c] = c /\ c \in subs =>
                           types[c] \ late[c] \subseteq idToParser[c]
    BY DEF DrainedKnown
  <2>1. c \in Id /\ c \in Thread
    BY DEF TypeOK, Thread
  <2>2. \A p \in Thread : Len(messagesOut[p]) = 0
    BY DEF QueueEmpty
  <2>3. \A p \in Thread : /\ ~Introduces(messagesOut[p], c)
                          /\ \A t : ~Maps(messagesOut[p], c, t)
    BY <2>2 DEF Introduces, Maps
  <2>4. Introduced /\ Mapped
    BY DEF DeliveryInv
  <2>5. c \in sentMapping => c \in delegators
    BY <2>3, <2>4 DEF Introduced
  <2>6. introducedBy[c] = c => types[c] \ late[c] \subseteq idToParser[c]
    BY <2>1, <2>3, <2>4 DEF Mapped, SelfIntroduced
  <2> QED BY <2>1, <2>4, <2>5, <2>6 DEF Introduced, Mapped
<1> QED BY <1>1, DeliveryTypesCorrect, QueuesInOrder, PTL

-----------------------------------------------------------------------------
(* Terminations.                                                           *)

NotIntroduced(c) == \A p \in Thread, n \in BOOLEAN : ~Queued(p, Channel(c, n))

(* The endpoint will be told that c is gone, and nothing to the contrary.  *)
Leaving(c) == (\E p \in Thread : Queued(p, Gone(c))) /\ NotIntroduced(c)

(* It was told, and nothing can bring c back.                              *)
Forgotten(c) ==
  /\ c \in accepted \ alive /\ NotIntroduced(c)
  /\ c \notin delegators /\ idToParser[c] = {}

(* Of a channel that is gone nothing is enqueued: thread p enqueues only   *)
(* messages of one that was alive.                                         *)
OfTheLiving(p, ms) ==
  /\ messagesOut' = [messagesOut EXCEPT ![p] = @ \o ms]
  /\ \A i \in 1..Len(ms) : ms[i].from \in alive
  /\ UNCHANGED endpoint
  /\ accepted \subseteq accepted' /\ alive' \cap accepted \subseteq alive

LEMMA NothingEnqueued ==
  ASSUME TypeOK, UNCHANGED messagesOut, UNCHANGED endpoint,
         accepted \subseteq accepted', alive' \cap accepted \subseteq alive
  PROVE  \E p \in Thread, ms \in Seq(Message) : OfTheLiving(p, ms)
<1> DEFINE ms == <<>>
<1>1. Receiver \in Thread /\ messagesOut[Receiver] \in Seq(Message)
  BY DEF Thread, TypeOK
<1>2. ms \in Seq(Message) /\ Len(ms) = 0 /\ messagesOut[Receiver] \o ms = messagesOut[Receiver]
  BY <1>1
<1>3. messagesOut' = [messagesOut EXCEPT ![Receiver] = @ \o ms]
  BY <1>2 DEF TypeOK
<1>4. \A i \in 1..Len(ms) : ms[i].from \in alive
  BY <1>2
<1> HIDE DEF ms
<1>5. OfTheLiving(Receiver, ms)
  BY <1>3, <1>4 DEF OfTheLiving
<1> QED BY <1>1, <1>2, <1>5

LEMMA OneEnqueues ==
  ASSUME TypeOK, NEW p \in Thread, NEW ms \in Seq(Message), Enqueued(p, ms),
         NEW c \in alive, \A i \in 1..Len(ms) : ms[i].from = c,
         UNCHANGED endpoint, accepted' = accepted, alive' \subseteq alive
  PROVE  \E r \in Thread, l \in Seq(Message) : OfTheLiving(r, l)
<1>1. OfTheLiving(p, ms)
  BY EnqueuedTypes DEF OfTheLiving
<1> QED BY <1>1

LEMMA DeadAreSilent ==
  ASSUME TypeOK, NEW c \in Id,
         Client(c) \/ Subscribe(c) \/ Unsubscribe(c) \/ JoinNext(c)
  PROVE  \E p \in Thread, ms \in Seq(Message) : OfTheLiving(p, ms)
<1>1. c \in Thread /\ Receiver \in Thread /\ Checker \in Thread
  BY DEF Thread
<1>2. CASE AddConnection(c)
  BY <1>2, NothingEnqueued DEF AddConnection
<1>3. CASE Unsubscribe(c)
  BY <1>3, NothingEnqueued DEF Unsubscribe
<1>4. CASE RegisterChannel(c)
  <2>1. CASE subscribedToAll
    <3> DEFINE ms == <<Channel(c, TRUE)>> \o Forwarded(c, TRUE)
    <3>1. ms \in Seq(Message) /\ Says(ms, c, TRUE)
      BY AnnouncementSays
    <3>2. \A i \in 1..Len(ms) : ms[i].from = c
      <4> HIDE DEF ms
      <4> QED BY <3>1, SaysFields
    <3>3. Enqueued(c, ms)
      BY <1>4, <2>1 DEF RegisterChannel
    <3> HIDE DEF ms
    <3> QED BY <1>1, <1>4, <3>1, <3>2, <3>3, OneEnqueues DEF RegisterChannel
  <2>2. CASE ~subscribedToAll
    BY <1>4, <2>2, NothingEnqueued DEF RegisterChannel
  <2> QED BY <2>1, <2>2
<1>5. CASE Subscribe(c)
  <2> DEFINE ms == <<Channel(c, TRUE)>> \o Forwarded(c, TRUE)
  <2>1. ms \in Seq(Message) /\ Says(ms, c, TRUE)
    BY AnnouncementSays
  <2>2. \A i \in 1..Len(ms) : ms[i].from = c
    <3> HIDE DEF ms
    <3> QED BY <2>1, SaysFields
  <2>3. Enqueued(Receiver, ms)
    BY <1>5 DEF Subscribe
  <2> HIDE DEF ms
  <2> QED BY <1>1, <1>5, <2>1, <2>2, <2>3, OneEnqueues DEF Subscribe
<1>6. CASE JoinNext(c)
  <2>1. PICK n \in BOOLEAN : n <=> c \in named
    OBVIOUS
  <2> DEFINE ms == Forwarded(c, n)
  <2>2. ms \in Seq(Message) /\ Says(ms, c, n)
    BY ForwardedTypes, ForwardedSays
  <2>3. \A i \in 1..Len(ms) : ms[i].from = c
    <3> HIDE DEF ms
    <3> QED BY <2>2, SaysFields
  <2>4. Enqueued(Receiver, ms) /\ c \in alive
    BY <1>6, <2>1 DEF JoinNext, TypeOK
  <2> HIDE DEF ms
  <2> QED BY <1>1, <1>6, <2>2, <2>3, <2>4, OneEnqueues DEF JoinNext
<1>7. ASSUME NEW p \in {Receiver, Checker}, Destroy(c, p)
      PROVE  \E r \in Thread, l \in Seq(Message) : OfTheLiving(r, l)
  <2>1. PICK ms : ms = IF c \in subs THEN <<Gone(c)>> ELSE <<>>
    OBVIOUS
  <2>2. ms \in Seq(Message) /\ \A i \in 1..Len(ms) : ms[i] = Gone(c)
    BY <2>1, MessageTypes
  <2>3. \A i \in 1..Len(ms) : ms[i].from = c
    BY <2>2 DEF Gone
  <2>4. Enqueued(p, ms) /\ c \in alive /\ p \in Thread
    BY <1>1, <1>7, <2>1 DEF Destroy
  <2> QED BY <1>7, <2>2, <2>3, <2>4, OneEnqueues DEF Destroy
<1>8. ASSUME NEW t \in Types, RegisterMapping(c, t)
      PROVE  \E r \in Thread, l \in Seq(Message) : OfTheLiving(r, l)
  <2>1. PICK ms : ms = IF c \in subs THEN <<Mapping(c, t)>> ELSE <<>>
    OBVIOUS
  <2>2. ms \in Seq(Message) /\ \A i \in 1..Len(ms) : ms[i] = Mapping(c, t)
    BY <2>1, MessageTypes
  <2>3. \A i \in 1..Len(ms) : ms[i].from = c
    BY <2>2 DEF Mapping
  <2>4. Enqueued(c, ms)
    BY <1>8, <2>1 DEF RegisterMapping
  <2> QED BY <1>1, <1>8, <2>2, <2>3, <2>4, OneEnqueues DEF RegisterMapping
<1>9. ASSUME NEW t \in Types, Receive(c, t)
      PROVE  \E r \in Thread, l \in Seq(Message) : OfTheLiving(r, l)
  <2>1. PICK ms : ms = <<Payload(c, t)>>
    OBVIOUS
  <2>2. ms \in Seq(Message) /\ \A i \in 1..Len(ms) : ms[i] = Payload(c, t)
    BY <2>1, MessageTypes
  <2>3. \A i \in 1..Len(ms) : ms[i].from = c
    BY <2>2 DEF Payload
  <2>4. Enqueued(c, ms)
    BY <1>9, <2>1 DEF Receive
  <2> QED BY <1>1, <1>9, <2>2, <2>3, <2>4, OneEnqueues DEF Receive
<1>10. ASSUME NEW t \in Types, SendTo(c, t)
       PROVE  \E r \in Thread, l \in Seq(Message) : OfTheLiving(r, l)
  <2>1. PICK n \in BOOLEAN : n <=> c \in named
    OBVIOUS
  <2>2. PICK ms : ms = Handshake(c) \o <<Payload(c, t)>>
    OBVIOUS
  <2>3. ms \in Seq(Message) /\ \A i \in 1..Len(ms) : Said(ms[i], c, c, n)
    BY <1>10, <2>1, <2>2, DirectedSays DEF SendTo
  <2>4. ASSUME NEW i \in 1..Len(ms)
        PROVE  ms[i].from = c
    <3>1. /\ Channel(c, n).from = c
          /\ \A u : Mapping(c, u).from = c /\ Payload(c, u).from = c
      BY DEF Channel, Mapping, Payload
    <3> QED BY <2>3, <3>1 DEF Said
  <2>5. Enqueued(c, ms)
    BY <1>10, <2>2 DEF SendTo
  <2> QED BY <1>1, <1>10, <2>3, <2>4, <2>5, OneEnqueues DEF SendTo
<1> QED BY <1>2, <1>3, <1>4, <1>5, <1>6, <1>7, <1>8, <1>9, <1>10 DEF Client

(* What is enqueued changes nothing for a channel that is gone ...         *)
LEMMA LivingStep ==
  ASSUME TypeOK, NEW p \in Thread, NEW ms \in Seq(Message), OfTheLiving(p, ms),
         NEW c \in Id, c \in accepted \ alive
  PROVE  /\ Leaving(c) => Leaving(c)'
         /\ Forgotten(c) => Forgotten(c)'
<1>1. /\ \A r \in Thread : messagesOut[r] \in Seq(Message)
      /\ messagesOut'[p] = messagesOut[p] \o ms
      /\ \A r \in Thread \ {p} : messagesOut'[r] = messagesOut[r]
  BY DEF OfTheLiving, TypeOK
<1>0. /\ Len(messagesOut[p]) \in Nat
      /\ Len(messagesOut'[p]) = Len(messagesOut[p]) + Len(ms) /\ Len(ms) \in Nat
      /\ \A i \in 1..Len(messagesOut[p]) : messagesOut'[p][i] = messagesOut[p][i]
  <2>1. messagesOut[p] \in Seq(Message)
    BY <1>1
  <2> QED BY <1>1, <2>1, Grown
<1>2. ASSUME NEW r \in Thread, NEW m, Queued(r, m)
      PROVE  Queued(r, m)'
  <2>1. PICK i \in 1..Len(messagesOut[r]) : messagesOut[r][i] = m
    BY <1>2 DEF Queued
  <2>2. i \in 1..Len(messagesOut'[r]) /\ messagesOut'[r][i] = m
    <3>1. CASE r = p
      BY <1>0, <2>1, <3>1
    <3>2. CASE r # p
      BY <1>1, <2>1, <3>2
    <3> QED BY <3>1, <3>2
  <2> QED BY <2>2 DEF Queued
<1>3. ASSUME NEW r \in Thread, NEW m, m.from = c, Queued(r, m)'
      PROVE  Queued(r, m)
  <2>1. PICK i \in 1..Len(messagesOut'[r]) : messagesOut'[r][i] = m
    BY <1>3 DEF Queued
  <2>2. CASE r # p \/ i \in 1..Len(messagesOut[r])
    <3>1. i \in 1..Len(messagesOut[r]) /\ messagesOut[r][i] = m
      <4>1. CASE r = p
        BY <1>0, <2>1, <2>2, <4>1
      <4>2. CASE r # p
        BY <1>1, <2>1, <4>2
      <4> QED BY <4>1, <4>2
    <3> QED BY <3>1 DEF Queued
  <2>3. CASE r = p /\ i \notin 1..Len(messagesOut[r])
    <3>1. /\ i - Len(messagesOut[p]) \in 1..Len(ms)
          /\ m = ms[i - Len(messagesOut[p])]
      <4>1. messagesOut[p] \in Seq(Message) /\ i \in 1..Len(messagesOut[p] \o ms)
        BY <1>1, <2>1, <2>3
      <4>2. /\ i - Len(messagesOut[p]) \in 1..Len(ms)
            /\ (messagesOut[p] \o ms)[i] = ms[i - Len(messagesOut[p])]
        BY <2>3, <4>1, Grown
      <4> QED BY <1>1, <2>1, <2>3, <4>2
    <3> QED BY <1>3, <3>1 DEF OfTheLiving
  <2> QED BY <2>2, <2>3
<1>4. NotIntroduced(c) => NotIntroduced(c)'
  <2>1. \A n \in BOOLEAN : Channel(c, n).from = c
    BY DEF Channel
  <2> QED BY <1>3, <2>1 DEF NotIntroduced
<1>5. c \in accepted' \ alive'
  BY DEF OfTheLiving
<1> QED BY <1>2, <1>4, <1>5 DEF Leaving, Forgotten, OfTheLiving, endpoint

(* ... and what the endpoint reads makes it forget one at the first        *)
(* termination.                                                            *)
LEMMA ReadStep ==
  ASSUME TypeOK, NEW p \in Thread, NEW m \in Message, Sending(p, m),
         NEW c \in Id, c \in accepted \ alive
  PROVE  /\ Leaving(c) => (Leaving(c)' \/ Forgotten(c)')
         /\ Forgotten(c) => Forgotten(c)'
<1> DEFINE q == messagesOut[p]
<1>1. /\ q \in Seq(Message) /\ q # <<>> /\ m = Head(q) /\ messagesOut'[p] = Tail(q)
      /\ \A r \in Thread \ {p} : messagesOut'[r] = messagesOut[r]
  BY DEF Sending, TypeOK
<1> HIDE DEF q
<1>2. /\ 1 \in 1..Len(q) /\ q[1] = m
      /\ \A i \in 1..Len(Tail(q)) : i + 1 \in 1..Len(q) /\ Tail(q)[i] = q[i + 1]
      /\ \A i \in 2..Len(q) : i - 1 \in 1..Len(Tail(q)) /\ Tail(q)[i - 1] = q[i]
      /\ Len(q) \in Nat
  BY <1>1, Shrunk
<1>3. ASSUME NEW r \in Thread, NEW k, Queued(r, k)'
      PROVE  Queued(r, k)
  <2>1. CASE r = p
    <3>1. PICK i \in 1..Len(Tail(q)) : Tail(q)[i] = k
      BY <1>1, <1>3, <2>1 DEF Queued
    <3> QED BY <1>2, <2>1, <3>1 DEF Queued, q
  <2>2. CASE r # p
    BY <1>1, <1>3, <2>2 DEF Queued
  <2> QED BY <2>1, <2>2
<1>4. ASSUME NEW r \in Thread, NEW k, Queued(r, k), ~Queued(r, k)'
      PROVE  r = p /\ k = m
  <2>1. r = p
    BY <1>1, <1>4 DEF Queued
  <2>2. PICK i \in 1..Len(q) : q[i] = k
    BY <1>4, <2>1 DEF Queued, q
  <2>3. i \notin 2..Len(q)
    BY <1>1, <1>2, <1>4, <2>1, <2>2 DEF Queued
  <2>4. i = 1
    BY <1>2, <2>2, <2>3
  <2> QED BY <1>2, <2>1, <2>2, <2>4
<1>5. NotIntroduced(c) => NotIntroduced(c)'
  BY <1>3 DEF NotIntroduced
<1>6. c \in accepted' \ alive'
  BY DEF Sending
<1>7. NotIntroduced(c) => ~(m.kind = "channel" /\ m.from = c)
  <2>1. Queued(p, m)
    BY <1>2 DEF Queued, q
  <2>2. m.kind = "channel" => m = Channel(m.from, m.named) /\ m.named \in BOOLEAN
    BY DEF Message, Channel
  <2> QED BY <2>1, <2>2 DEF NotIntroduced
<1>8. NotifyMapping(m) \/ NotifyTermination(m) \/ Parse(m) \/ Drop(m)
  BY DEF Sending
<1>9. ASSUME Forgotten(c)
      PROVE  Forgotten(c)'
  <2>1. c \notin delegators' /\ idToParser'[c] = {}
    BY <1>7, <1>8, <1>9 DEF Forgotten, NotifyMapping, NotifyTermination, Parse, Drop,
                            WithoutParsers, TypeOK
  <2> QED BY <1>5, <1>6, <1>9, <2>1 DEF Forgotten
<1>10. ASSUME Leaving(c), ~Leaving(c)'
       PROVE  Forgotten(c)'
  <2>1. PICK r \in Thread : Queued(r, Gone(c))
    BY <1>10 DEF Leaving
  <2>2. ~Queued(r, Gone(c))'
    BY <1>5, <1>10 DEF Leaving
  <2>3. m = Gone(c)
    BY <1>4, <2>1, <2>2
  <2>4. m.kind = "gone" /\ m.from = c
    BY <2>3 DEF Gone
  <2>5. NotifyTermination(m)
    BY <1>8, <2>4 DEF NotifyMapping, Parse, Drop
  <2>6. c \notin delegators' /\ idToParser'[c] = {}
    BY <2>4, <2>5 DEF NotifyTermination, WithoutParsers, TypeOK
  <2> QED BY <1>5, <1>6, <1>10, <2>6 DEF Leaving, Forgotten
<1> QED BY <1>9, <1>10

(* A termination that overtakes no introduction is not lost and not undone:*)
(* until the endpoint reads it, it stays on the queue with nothing to the  *)
(* contrary, and from then on the endpoint has neither delegator nor parser*)
(* of the channel.                                                         *)
TerminationIsFinal ==
  \A c \in Id : /\ Leaving(c) => (Leaving(c)' \/ Forgotten(c)')
                /\ Forgotten(c) => Forgotten(c)'

(* No step of the broker or the endpoint brings a channel back that left   *)
(* in order (~Connection, notifyTermination, Connection::loop): the safety *)
(* that TerminationForgets rests on.                                       *)
THEOREM LeaversStayForgotten == Spec => [][TerminationIsFinal]_vars
<1>1. TypeOK /\ DeliveryInv /\ [Next]_vars => [TerminationIsFinal]_vars
  <2> SUFFICES ASSUME TypeOK, DeliveryInv, Next, NEW c \in Id, Leaving(c) \/ Forgotten(c)
               PROVE  /\ Leaving(c) => (Leaving(c)' \/ Forgotten(c)')
                      /\ Forgotten(c) => Forgotten(c)'
    BY DEF TerminationIsFinal
  <2>1. c \in accepted \ alive
    <3>1. CASE Forgotten(c)
      BY <3>1 DEF Forgotten
    <3>2. CASE Leaving(c)
      <4>1. PICK p \in Thread : Queued(p, Gone(c))
        BY <3>2 DEF Leaving
      <4>2. Gone(c).kind = "gone" /\ Gone(c).from = c
        BY DEF Gone
      <4>3. Sound(p, Gone(c))
        BY <4>1 DEF Queued, DeliveryInv, QueueSound
      <4> QED BY <4>2, <4>3 DEF Sound, DeliveryInv, Fresh
    <3> QED BY <3>1, <3>2
  <2>2. CASE Send
    BY <2>1, <2>2, SendTypes, ReadStep
  <2>3. CASE SubscribeAll
    BY <2>1, <2>3, NothingEnqueued, LivingStep DEF SubscribeAll
  <2>4. CASE \E d \in Id : Client(d) \/ Subscribe(d) \/ Unsubscribe(d) \/ JoinNext(d)
    BY <2>1, <2>4, DeadAreSilent, LivingStep
  <2> QED BY <2>2, <2>3, <2>4 DEF Next
<1> QED BY <1>1, QueuesInOrder, DeliveryTypesCorrect, PTL DEF Spec
=============================================================================
