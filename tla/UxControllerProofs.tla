------------------------- MODULE UxControllerProofs -------------------------
(***************************************************************************)
(* The proofs about UxControllers, for any devices, names and HTTP threads.*)
(*                                                                         *)
(* Controllers are listed by name and owned by connections.  The two agree *)
(* because a connection has one controller at a time, the last one built   *)
(* for it, and keeps one name for as long as it has it.                    *)
(***************************************************************************)
EXTENDS UxControllers, SequenceTheorems, FiniteSetTheorems, TLAPS

(* The controller behind a delegator is the last one built for it.         *)
LastBuilt ==
  \A c \in Id : delegators[c] # NoObject => delegators[c] = <<c, built[c]>>

(* Only controllers that were built are cleared.                           *)
ClearedBuilt ==
  \A c \in Id, k \in Nat : <<c, k>> \in cleared => k <= built[c]

IInv == TypeOK /\ LastBuilt /\ ClearedBuilt /\ ListedAreKnown

-----------------------------------------------------------------------------
LEMMA AppendType ==
  ASSUME TypeOK, NEW p \in Thread, NEW ms \in Seq(Message), Enqueued(p, ms)
  PROVE  messagesOut' \in [Thread -> Seq(Message)]
<1>1. CASE crashed
  BY <1>1 DEF Enqueued, TypeOK
<1>2. CASE ~crashed
  <2>1. messagesOut[p] \o ms \in Seq(Message)
    BY ConcatProperties DEF TypeOK
  <2> QED BY <1>2, <2>1 DEF Enqueued, TypeOK
<1> QED BY <1>1, <1>2

LEMMA MessageTypes ==
  ASSUME NEW c \in Id
  PROVE  /\ Mapping(c, NameOf[c]) \in Message
         /\ Mapping(c, Unnamed) \in Message
         /\ State(c) \in Message /\ NoUx(c) \in Message /\ Gone(c) \in Message
         /\ NameOf[c] \in Name
BY DEF Mapping, State, NoUx, Gone, Message, Name

(* The connections in some order.                                          *)
LEMMA OrderType ==
  ASSUME NEW S, S \subseteq Id
  PROVE  SetToSeq(S) \in Seq(S)
<1>1. IsFiniteSet(S)
  BY UxControllersAssumption, FS_Subset
<1>2. Cardinality(S) \in Nat /\ ExistsBijection(1..Cardinality(S), S)
  BY <1>1, FS_CardinalityType
<1>3. PICK f \in Bijection(1..Cardinality(S), S) : TRUE
  BY <1>2 DEF ExistsBijection
<1>4. f \in [1..Cardinality(S) -> S] /\ IsInjective(f)
  BY <1>3 DEF Bijection, Injection
<1>5. SetToSeq(S) \in [1..Cardinality(S) -> S]
  BY <1>4 DEF SetToSeq
<1> QED BY <1>2, <1>5

LEMMA RemoveControllerType ==
  ASSUME TypeOK, NEW n \in Name \cup {Unnamed}, RemoveController(n)
  PROVE  /\ controllers' \in [Name \cup {Unnamed} -> Object \cup {NoObject}]
         /\ cleared' \in SUBSET Object /\ filled' \in SUBSET Object
<1>1. controllers[n] \in Object \cup {NoObject}
  BY DEF TypeOK
<1> QED BY <1>1 DEF RemoveController, TypeOK

ServiceTypes ==
  /\ asked \in SUBSET Id /\ leaving \in SUBSET Name
  /\ delegators \in [Id -> Object \cup {NoObject}]
  /\ channelNames \in [Id -> Name \cup {Unnamed}]
  /\ built \in [Id -> Nat]
  /\ controllers \in [Name \cup {Unnamed} -> Object \cup {NoObject}]
  /\ cleared \in SUBSET Object /\ filled \in SUBSET Object
  /\ overlapped \in SUBSET Id

LEMMA MessageStep ==
  ASSUME TypeOK, NEW m \in Message,
         NotifyMapping(m) \/ Fill(m) \/ NotifyNoUx(m) \/ NotifyTermination(m)
         \/ Ignore(m)
  PROVE  ServiceTypes'
<1>1. m.from \in Id
  BY DEF Message
<1>2. CASE NotifyMapping(m)
  <2>1. m.name \in Name \cup {Unnamed} /\ <<m.from, built[m.from] + 1>> \in Object
    BY <1>1, <1>2 DEF NotifyMapping, Message, TypeOK, Object
  <2> QED BY <1>1, <1>2, <2>1 DEF NotifyMapping, Added, Asked, ServiceTypes, TypeOK, Known
<1>3. CASE Fill(m)
  BY <1>1, <1>3 DEF Fill, ServiceTypes, TypeOK, Known
<1>4. CASE NotifyNoUx(m)
  <2>1. CASE HasName(m.from)
    <3>1. channelNames[m.from] \in Name /\ RemoveController(channelNames[m.from])
      BY <1>1, <1>4, <2>1 DEF NotifyNoUx, HasName, TypeOK
    <3> QED BY <1>4, <2>1, <3>1, RemoveControllerType DEF NotifyNoUx, ServiceTypes, TypeOK
  <2>2. CASE ~HasName(m.from)
    BY <1>4, <2>2 DEF NotifyNoUx, ServiceTypes, TypeOK
  <2> QED BY <2>1, <2>2
<1>5. CASE NotifyTermination(m)
  <2>1. /\ channelNames[m.from] \in Name \cup {Unnamed}
        /\ RemoveController(channelNames[m.from])
    BY <1>1, <1>5 DEF NotifyTermination, NameKept, TypeOK
  <2> QED BY <1>5, <2>1, RemoveControllerType DEF NotifyTermination, ServiceTypes, TypeOK
<1>6. CASE Ignore(m)
  BY <1>6 DEF Ignore, service, ServiceTypes, TypeOK
<1> QED BY <1>2, <1>3, <1>4, <1>5, <1>6

LEMMA TypeStep ==
  ASSUME TypeOK, [Next]_vars
  PROVE  TypeOK'
<1> USE UxControllersAssumption
<1>1. ASSUME NEW c \in Id, NEW ui \in BOOLEAN, Connect(c, ui)
      PROVE  TypeOK'
  BY <1>1 DEF Connect, TypeOK, Status, service, run
<1>2. ASSUME NEW c \in Id, Register(c)
      PROVE  TypeOK'
  <2>1. messagesOut' \in [Thread -> Seq(Message)]
    <3>1. <<Mapping(c, NameOf[c])>> \in Seq(Message)
          /\ <<Mapping(c, NameOf[c]), Mapping(c, NameOf[c])>> \in Seq(Message)
      BY MessageTypes
    <3> QED BY <1>2, <3>1, AppendType DEF Register, Thread
  <2> QED BY <1>2, <2>1 DEF Register, TypeOK, Status, service, run
<1>3. ASSUME NEW c \in Id, RemoveConnection(c)
      PROVE  TypeOK'
  BY <1>3 DEF RemoveConnection, TypeOK, Status, service, run
<1>4. ASSUME NEW c \in Id, Destroy(c)
      PROVE  TypeOK'
  <2>1. messagesOut' \in [Thread -> Seq(Message)]
    <3>1. <<Gone(c)>> \in Seq(Message) /\ <<>> \in Seq(Message)
      BY MessageTypes
    <3> QED BY <1>4, <3>1, AppendType DEF Destroy, Thread
  <2> QED BY <1>4, <2>1 DEF Destroy, TypeOK, Status, service, run
<1>5. ASSUME NEW c \in Id, Answer(c)
      PROVE  TypeOK'
  <2>1. messagesOut' \in [Thread -> Seq(Message)]
    <3>1. /\ <<State(c)>> \in Seq(Message) /\ <<NoUx(c)>> \in Seq(Message)
          /\ <<>> \in Seq(Message)
      BY MessageTypes
    <3> QED BY <1>5, <3>1, AppendType DEF Answer, Thread
  <2> QED BY <1>5, <2>1 DEF Answer, TypeOK, service, run
<1>6. ASSUME NEW n \in Name, Unsubscribe(n)
      PROVE  TypeOK'
  BY <1>6 DEF Unsubscribe, TypeOK, service, run
<1>7. CASE PollAndRead
  <2>1. PICK p \in Thread :
          /\ messagesOut[p] # <<>>
          /\ LET m == Head(messagesOut[p])
             IN  NotifyMapping(m) \/ Fill(m) \/ NotifyNoUx(m) \/ NotifyTermination(m)
                 \/ Ignore(m)
          /\ messagesOut' = [messagesOut EXCEPT ![p] = Tail(@)]
          /\ UNCHANGED <<status, withUi, subs, handle, run>>
    BY <1>7 DEF PollAndRead
  <2>2. messagesOut[p] \in Seq(Message)
    BY DEF TypeOK
  <2>3. Head(messagesOut[p]) \in Message /\ Tail(messagesOut[p]) \in Seq(Message)
    BY <2>1, <2>2, HeadTailProperties
  <2>4. ServiceTypes'
    BY <2>1, <2>3, MessageStep
  <2>5. messagesOut' \in [Thread -> Seq(Message)]
    BY <2>1, <2>3 DEF TypeOK
  <2> QED BY <2>1, <2>4, <2>5 DEF TypeOK, ServiceTypes, run
<1>8. ASSUME NEW r \in Request, NEW n \in Name, GetController(r, n)
      PROVE  TypeOK'
  BY <1>8 DEF GetController, TypeOK, broker, service, run
<1>9. ASSUME NEW r \in Request, GetUpdates(r)
      PROVE  TypeOK'
  BY <1>9 DEF GetUpdates, TypeOK, broker, service
<1>10. CASE Restart
  <2> DEFINE cs == SetToSeq(Alive)
             out(i) == Mapping(cs[i], IF status[cs[i]] = "registered"
                                      THEN NameOf[cs[i]] ELSE Unnamed)
  <2>1. cs \in Seq(Alive) /\ Alive \subseteq Id
    BY OrderType DEF Alive
  <2>2. \A i \in 1..Len(cs) : out(i) \in Message
    <3> TAKE i \in 1..Len(cs)
    <3>1. cs[i] \in Id
      BY <2>1
    <3> QED BY <3>1, MessageTypes
  <2>3. Len(cs) \in Nat
    BY <2>1
  <2> HIDE DEF cs, out
  <2>4. [i \in 1..Len(cs) |-> out(i)] \in Seq(Message)
    BY <2>2, <2>3
  <2>5. messagesOut' = [p \in Thread |-> IF p # Receiver THEN <<>>
                                         ELSE [i \in 1..Len(cs) |-> out(i)]]
    BY <1>10 DEF Restart, cs, out
  <2>6. messagesOut' \in [Thread -> Seq(Message)]
    BY <2>4, <2>5
  <2>7. /\ delegators' \in [Id -> Object \cup {NoObject}]
        /\ channelNames' \in [Id -> Name \cup {Unnamed}]
        /\ built' \in [Id -> Nat]
        /\ controllers' \in [Name \cup {Unnamed} -> Object \cup {NoObject}]
        /\ handle' \in [Request -> Object \cup {NoObject}]
        /\ cleared' = {} /\ filled' = {} /\ overlapped' = {}
    BY <1>10 DEF Restart, NothingKnown
  <2> QED BY <1>10, <2>1, <2>6, <2>7 DEF Restart, TypeOK
<1>11. CASE UNCHANGED vars
  BY <1>11 DEF vars, TypeOK, broker, service, run
<1> QED BY <1>1, <1>2, <1>3, <1>4, <1>5, <1>6, <1>7, <1>8, <1>9, <1>10, <1>11
    DEF Next

(* Every variable of the broker and of the UX service keeps its type       *)
(* (Connection::loop, main of UXService).                                  *)
THEOREM UxControllersTypesCorrect == Spec => []TypeOK
<1>1. Init => TypeOK
  <2> SUFFICES ASSUME Init PROVE TypeOK
    OBVIOUS
  <2>1. messagesOut \in [Thread -> Seq(Message)]
    BY DEF Init
  <2>2. /\ status \in [Id -> Status]
        /\ delegators \in [Id -> Object \cup {NoObject}]
        /\ channelNames \in [Id -> Name \cup {Unnamed}]
        /\ built \in [Id -> Nat]
        /\ controllers \in [Name \cup {Unnamed} -> Object \cup {NoObject}]
        /\ handle \in [Request -> Object \cup {NoObject}]
    BY DEF Init, Status
  <2>3. crashed \in BOOLEAN /\ crashes \in 0..MaxCrashes
    <3>1. MaxCrashes \in Nat
      BY UxControllersAssumption
    <3>2. crashed = FALSE /\ crashes = 0
      BY DEF Init
    <3>3. 0 \in 0..MaxCrashes
      BY <3>1
    <3> QED BY <3>2, <3>3, Zenon
  <2>4. /\ withUi \in SUBSET Id /\ subs \in SUBSET Id /\ asked \in SUBSET Id
        /\ leaving \in SUBSET Name /\ overlapped \in SUBSET Id
        /\ cleared \in SUBSET Object /\ filled \in SUBSET Object
    BY DEF Init
  <2> QED BY <2>1, <2>2, <2>3, <2>4 DEF TypeOK
<1> QED BY <1>1, TypeStep, PTL DEF Spec

-----------------------------------------------------------------------------
Agreement == LastBuilt /\ ClearedBuilt /\ ListedAreKnown

LEMMA FirstOfObject ==
  ASSUME NEW o \in Object
  PROVE  o[1] \in Id /\ o = <<o[1], o[2]>> /\ o[2] \in Nat
BY DEF Object

(* A new controller is listed under a free name.                           *)
LEMMA NotifyMappingStep ==
  ASSUME TypeOK, Agreement, NEW m \in Message, NotifyMapping(m)
  PROVE  Agreement'
<1> DEFINE c == m.from
           o == <<c, built[c] + 1>>
<1>1. /\ c \in Id /\ m.name \in Name \cup {Unnamed} /\ delegators[c] = NoObject
      /\ built[c] \in Nat /\ o \in Object /\ o # NoObject
  BY UxControllersAssumption DEF NotifyMapping, Fresh, Known, Message, TypeOK, Object
<1>2. /\ built' = [built EXCEPT ![c] = @ + 1]
      /\ delegators' = [delegators EXCEPT ![c] = o]
      /\ channelNames' = [channelNames EXCEPT ![c] = m.name]
      /\ controllers' = [controllers EXCEPT ![m.name] = IF @ = NoObject THEN o ELSE @]
      /\ cleared' = cleared
  BY DEF NotifyMapping, Added
<1>3. LastBuilt'
  BY <1>1, <1>2 DEF Agreement, LastBuilt, TypeOK
<1>4. ClearedBuilt'
  BY <1>1, <1>2 DEF Agreement, ClearedBuilt, TypeOK
<1>5. o \notin cleared
  BY <1>1 DEF Agreement, ClearedBuilt
<1>6. ListedAreKnown'
  <2> SUFFICES ASSUME NEW n \in Name \cup {Unnamed}, controllers'[n] # NoObject
               PROVE  /\ delegators'[controllers'[n][1]] = controllers'[n]
                      /\ channelNames'[controllers'[n][1]] = n
                      /\ controllers'[n] \notin cleared'
    BY DEF ListedAreKnown
  <2>1. CASE controllers'[n] = controllers[n]
    <3>1. /\ delegators[controllers[n][1]] = controllers[n]
          /\ channelNames[controllers[n][1]] = n
          /\ controllers[n] \notin cleared
      BY <2>1 DEF Agreement, ListedAreKnown
    <3>2. controllers[n][1] # c
      BY <1>1, <2>1, <3>1
    <3> QED BY <1>2, <2>1, <3>1, <3>2 DEF TypeOK
  <2>2. CASE controllers'[n] # controllers[n]
    <3>1. n = m.name /\ controllers'[n] = o
      BY <1>1, <1>2, <2>2 DEF TypeOK
    <3>2. o[1] = c
      OBVIOUS
    <3>3. delegators'[c] = o /\ channelNames'[c] = m.name
      BY <1>1, <1>2 DEF TypeOK
    <3> HIDE DEF o
    <3> QED BY <1>2, <1>5, <3>1, <3>2, <3>3
  <2> QED BY <2>1, <2>2
<1> QED BY <1>3, <1>4, <1>6 DEF Agreement

(* What stays listed when one name is taken off: the others.               *)
LEMMA RemoveControllerStep ==
  ASSUME TypeOK, Agreement, NEW n \in Name \cup {Unnamed}, RemoveController(n)
  PROVE  /\ \A c \in Id, k \in Nat : <<c, k>> \in cleared' => k <= built[c]
         /\ \A n2 \in Name \cup {Unnamed} :
              controllers'[n2] # NoObject =>
                /\ n2 # n /\ controllers'[n2] = controllers[n2]
                /\ controllers[n2][1] \in Id
                /\ delegators[controllers[n2][1]] = controllers[n2]
                /\ channelNames[controllers[n2][1]] = n2
                /\ controllers[n2] \notin cleared'
<1>1. /\ controllers' = [controllers EXCEPT ![n] = NoObject]
      /\ cleared' = cleared \cup ({controllers[n]} \ {NoObject})
  BY DEF RemoveController
<1>2. ASSUME NEW c \in Id, NEW k \in Nat, <<c, k>> \in cleared'
      PROVE  k <= built[c]
  <2>1. CASE <<c, k>> \in cleared
    BY <2>1 DEF Agreement, ClearedBuilt
  <2>2. CASE <<c, k>> = controllers[n] /\ controllers[n] # NoObject
    <3>1. delegators[c] = <<c, k>> /\ delegators[c] # NoObject
      BY <2>2 DEF Agreement, ListedAreKnown
    <3>2. <<c, built[c]>> = <<c, k>>
      BY <3>1 DEF Agreement, LastBuilt
    <3> QED BY <3>2 DEF TypeOK
  <2> QED BY <1>1, <1>2, <2>1, <2>2
<1>3. ASSUME NEW n2 \in Name \cup {Unnamed}, controllers'[n2] # NoObject
      PROVE  /\ n2 # n /\ controllers'[n2] = controllers[n2]
             /\ controllers[n2][1] \in Id
             /\ delegators[controllers[n2][1]] = controllers[n2]
             /\ channelNames[controllers[n2][1]] = n2
             /\ controllers[n2] \notin cleared'
  <2>1. n2 # n /\ controllers'[n2] = controllers[n2]
    BY <1>1, <1>3 DEF TypeOK
  <2>2. controllers[n2] \in Object
    BY <1>3, <2>1 DEF TypeOK
  <2>3. /\ delegators[controllers[n2][1]] = controllers[n2]
        /\ channelNames[controllers[n2][1]] = n2
        /\ controllers[n2] \notin cleared
    BY <1>3, <2>1 DEF Agreement, ListedAreKnown
  <2>4. controllers[n2] # controllers[n]
    <3> SUFFICES ASSUME controllers[n2] = controllers[n] PROVE FALSE
      OBVIOUS
    <3>1. channelNames[controllers[n][1]] = n
      BY <1>3, <2>1 DEF Agreement, ListedAreKnown
    <3> QED BY <2>1, <2>3, <3>1
  <2> QED BY <1>1, <2>1, <2>2, <2>3, <2>4, FirstOfObject
<1> QED BY <1>2, <1>3

LEMMA NotifyNoUxStep ==
  ASSUME TypeOK, Agreement, NEW m \in Message, NotifyNoUx(m)
  PROVE  Agreement'
<1>1. m.from \in Id /\ UNCHANGED <<delegators, channelNames, built>>
  BY DEF NotifyNoUx, Message
<1>2. CASE HasName(m.from)
  <2>1. channelNames[m.from] \in Name \cup {Unnamed}
        /\ RemoveController(channelNames[m.from])
    BY <1>1, <1>2 DEF NotifyNoUx, TypeOK
  <2>2. ListedAreKnown'
    BY <1>1, <2>1, RemoveControllerStep DEF ListedAreKnown
  <2>3. ClearedBuilt'
    BY <1>1, <2>1, RemoveControllerStep DEF ClearedBuilt
  <2> QED BY <1>1, <2>2, <2>3 DEF Agreement, LastBuilt
<1>3. CASE ~HasName(m.from)
  <2>1. UNCHANGED <<controllers, cleared>>
    BY <1>3 DEF NotifyNoUx
  <2> QED BY <1>1, <2>1 DEF Agreement, LastBuilt, ClearedBuilt, ListedAreKnown
<1> QED BY <1>2, <1>3

(* The terminated channel had its name, so nothing else of it is listed.   *)
LEMMA NotifyTerminationStep ==
  ASSUME TypeOK, Agreement, NEW m \in Message, NotifyTermination(m)
  PROVE  Agreement'
<1> DEFINE c == m.from
           n == channelNames[c]
<1>1. /\ c \in Id /\ n \in Name \cup {Unnamed} /\ RemoveController(n)
      /\ delegators' = [delegators EXCEPT ![c] = NoObject]
      /\ channelNames' = [channelNames EXCEPT ![c] = Unnamed]
      /\ built' = built
  BY DEF NotifyTermination, NameKept, Message, TypeOK
<1>2. ClearedBuilt'
  BY <1>1, RemoveControllerStep DEF ClearedBuilt
<1>3. LastBuilt'
  BY <1>1 DEF Agreement, LastBuilt, TypeOK
<1>4. ListedAreKnown'
  <2> SUFFICES ASSUME NEW n2 \in Name \cup {Unnamed}, controllers'[n2] # NoObject
               PROVE  /\ delegators'[controllers'[n2][1]] = controllers'[n2]
                      /\ channelNames'[controllers'[n2][1]] = n2
                      /\ controllers'[n2] \notin cleared'
    BY DEF ListedAreKnown
  <2>1. /\ n2 # n /\ controllers'[n2] = controllers[n2]
        /\ controllers[n2][1] \in Id
        /\ delegators[controllers[n2][1]] = controllers[n2]
        /\ channelNames[controllers[n2][1]] = n2
        /\ controllers[n2] \notin cleared'
    BY <1>1, RemoveControllerStep
  <2>2. controllers[n2][1] # c
    BY <2>1
  <2> QED BY <1>1, <2>1, <2>2 DEF TypeOK
<1> QED BY <1>2, <1>3, <1>4 DEF Agreement

LEMMA AgreementStep ==
  ASSUME TypeOK, Agreement, [Next]_vars
  PROVE  Agreement'
<1>1. CASE UNCHANGED <<delegators, channelNames, built, controllers, cleared>>
  BY <1>1 DEF Agreement, LastBuilt, ClearedBuilt, ListedAreKnown
<1>2. CASE PollAndRead
  <2>1. PICK p \in Thread :
          /\ messagesOut[p] # <<>>
          /\ LET m == Head(messagesOut[p])
             IN  NotifyMapping(m) \/ Fill(m) \/ NotifyNoUx(m) \/ NotifyTermination(m)
                 \/ Ignore(m)
    BY <1>2 DEF PollAndRead
  <2>2. Head(messagesOut[p]) \in Message
    BY <2>1, HeadTailProperties DEF TypeOK
  <2>3. CASE Fill(Head(messagesOut[p])) \/ Ignore(Head(messagesOut[p]))
    BY <1>1, <2>3 DEF Fill, Ignore, service
  <2> QED BY <2>1, <2>2, <2>3, NotifyMappingStep, NotifyNoUxStep, NotifyTerminationStep
<1>3. CASE Restart
  BY <1>3 DEF Restart, NothingKnown, Agreement, LastBuilt, ClearedBuilt, ListedAreKnown
<1>4. CASE UNCHANGED vars
  BY <1>1, <1>4 DEF vars, service
<1> QED BY <1>1, <1>2, <1>3, <1>4
    DEF Next, Connect, Register, RemoveConnection, Destroy, Answer, Unsubscribe,
        GetController, GetUpdates, service

(* The invariant is inductive: connections and names lead to the same      *)
(* controllers (notifyMapping, removeController).                          *)
THEOREM UxControllersInvariant == Spec => []IInv
<1>1. Init => Agreement
  BY DEF Init, Agreement, LastBuilt, ClearedBuilt, ListedAreKnown
<1>2. TypeOK /\ Agreement /\ [Next]_vars => Agreement'
  BY AgreementStep
<1>3. TypeOK /\ Agreement => IInv
  BY DEF Agreement, IInv
<1> QED BY <1>1, <1>2, <1>3, UxControllersTypesCorrect, PTL DEF Spec

(* What the browser finds in the list has a channel behind it that is known*)
(* by that name, and has not been cleared.                                 *)
THEOREM ListedBelong == Spec => []ListedAreKnown
BY UxControllersInvariant, PTL DEF IInv

-----------------------------------------------------------------------------
(* Channels without a namesake.                                            *)

(* A channel that speaks has connected, and only a device without a user   *)
(* interface says that it has none.                                        *)
Honest(m) == status[m.from] # "new" /\ (m.kind = "noUx" => m.from \notin withUi)

HonestQueues ==
  \A p \in Thread : \A i \in 1..Len(messagesOut[p]) : Honest(messagesOut[p][i])

(* Known channels have connected; two with one name were known together.   *)
KnownConnected == \A c \in Known : status[c] # "new"
NamesakesOverlap ==
  \A c, d \in Known : c # d /\ channelNames[c] = channelNames[d] => c \in overlapped

SpareInv == HonestQueues /\ KnownConnected /\ NamesakesOverlap /\ OthersSpared

(* What is honest stays so.                                                *)
LEMMA HonestKept ==
  ASSUME TypeOK, [Next]_vars
  PROVE  \A c \in Id : status[c] # "new" =>
           status'[c] # "new" /\ (c \notin withUi => c \notin withUi')
<1>1. CASE UNCHANGED <<status, withUi>>
  BY <1>1
<1>2. ASSUME NEW c \in Id, NEW ui \in BOOLEAN, Connect(c, ui)
      PROVE  \A d \in Id : status[d] # "new" =>
               status'[d] # "new" /\ (d \notin withUi => d \notin withUi')
  BY <1>2 DEF Connect, TypeOK
<1>3. ASSUME NEW c \in Id, Register(c) \/ RemoveConnection(c) \/ Destroy(c)
      PROVE  \A d \in Id : status[d] # "new" =>
               status'[d] # "new" /\ (d \notin withUi => d \notin withUi')
  BY <1>3 DEF Register, RemoveConnection, Destroy, TypeOK
<1> QED BY <1>1, <1>2, <1>3
    DEF Next, Answer, Unsubscribe, PollAndRead, GetController, GetUpdates, Restart, vars,
        broker

LEMMA HonestAppend ==
  ASSUME TypeOK, HonestQueues, [Next]_vars, NEW p \in Thread, NEW ms \in Seq(Message),
         Enqueued(p, ms), \A i \in 1..Len(ms) : Honest(ms[i])'
  PROVE  HonestQueues'
<1>1. \A m \in Message : Honest(m) => Honest(m)'
  BY HonestKept DEF Honest, Message
<1>2. messagesOut' = messagesOut \/ messagesOut' = [messagesOut EXCEPT ![p] = @ \o ms]
  BY DEF Enqueued
<1>3. SUFFICES ASSUME NEW q \in Thread, NEW i \in 1..Len(messagesOut'[q])
               PROVE  Honest(messagesOut[q][i])'
  BY DEF HonestQueues
<1>4. messagesOut[p] \in Seq(Message) /\ messagesOut[q] \in Seq(Message)
  BY DEF TypeOK
<1>5. CASE messagesOut'[q] = messagesOut[q]
  <2>1. messagesOut[q][i] \in Message /\ Honest(messagesOut[q][i])
    BY <1>4, <1>5 DEF HonestQueues
  <2>2. PICK m \in Message : m = messagesOut[q][i] /\ Honest(m)
    BY <2>1
  <2> QED BY <1>1, <1>5, <2>2 DEF Honest
<1>6. CASE q = p /\ messagesOut'[p] = messagesOut[p] \o ms
  <2>1. \/ i \in 1..Len(messagesOut[p]) /\ messagesOut'[p][i] = messagesOut[p][i]
        \/ /\ i - Len(messagesOut[p]) \in 1..Len(ms)
           /\ messagesOut'[p][i] = ms[i - Len(messagesOut[p])]
    BY <1>4, <1>6
  <2>2. CASE i \in 1..Len(messagesOut[p]) /\ messagesOut'[p][i] = messagesOut[p][i]
    <3>1. messagesOut[p][i] \in Message /\ Honest(messagesOut[p][i])
      BY <1>4, <2>2 DEF HonestQueues
    <3>2. PICK m \in Message : m = messagesOut[p][i] /\ Honest(m)
      BY <3>1
    <3> QED BY <1>1, <1>6, <2>2, <3>2 DEF Honest
  <2>3. CASE \E k \in 1..Len(ms) : messagesOut'[p][i] = ms[k]
    BY <1>6, <2>3 DEF Honest
  <2> QED BY <2>1, <2>2, <2>3
<1> QED BY <1>2, <1>5, <1>6 DEF TypeOK

LEMMA HonestStep ==
  ASSUME TypeOK, HonestQueues, [Next]_vars
  PROVE  HonestQueues'
<1>1. \A c \in Id : status[c] # "new" =>
        status'[c] # "new" /\ (c \notin withUi => c \notin withUi')
  BY HonestKept
<1>2. ASSUME UNCHANGED messagesOut PROVE HonestQueues'
  <2>1. <<>> \in Seq(Message) /\ messagesOut' = messagesOut
    BY <1>2
  <2> SUFFICES ASSUME NEW q \in Thread, NEW i \in 1..Len(messagesOut[q])
               PROVE  Honest(messagesOut[q][i])'
    BY <2>1 DEF HonestQueues
  <2>2. messagesOut[q][i] \in Message
    BY DEF TypeOK
  <2>3. messagesOut[q][i].from \in Id
    BY <2>2 DEF Message
  <2> QED BY <1>1, <2>1, <2>3 DEF HonestQueues, Honest
<1>3. ASSUME NEW c \in Id, Register(c) PROVE HonestQueues'
  <2>1. status[c] # "new" /\ NameOf[c] \in Name
    BY <1>3 DEF Register, Name
  <2>2. Mapping(c, NameOf[c]) \in Message /\ Honest(Mapping(c, NameOf[c]))'
    BY <1>1, <2>1 DEF Message, Mapping, Honest
  <2>3. PICK ms \in {<<Mapping(c, NameOf[c])>>,
                     <<Mapping(c, NameOf[c]), Mapping(c, NameOf[c])>>} :
          Enqueued(c, ms)
    BY <1>3 DEF Register
  <2>4. ms \in Seq(Message) /\ \A i \in 1..Len(ms) : ms[i] = Mapping(c, NameOf[c])
    <3> DEFINE m == Mapping(c, NameOf[c])
    <3>1. CASE ms = <<m>>
      BY <2>2, <3>1
    <3>2. CASE ms = <<m, m>>
      <4> HIDE DEF m
      <4>1. m \in Message
        BY <2>2 DEF m
      <4>2. Len(ms) = 2 /\ ms[1] = m /\ ms[2] = m
        BY <3>2
      <4>3. ms \in Seq(Message)
        BY <3>2, <4>1
      <4>4. \A i \in 1..Len(ms) : ms[i] = m
        BY <4>2
      <4> QED BY <4>3, <4>4 DEF m
    <3> QED BY <2>3, <3>1, <3>2
  <2>5. \A i \in 1..Len(ms) : Honest(ms[i])'
    BY <2>2, <2>4
  <2> QED BY <2>3, <2>4, <2>5, HonestAppend DEF Thread
<1>4. ASSUME NEW c \in Id, Destroy(c) PROVE HonestQueues'
  <2>1. status[c] # "new"
    BY <1>4 DEF Destroy
  <2>2. Gone(c) \in Message /\ Honest(Gone(c))'
    BY <1>1, <2>1 DEF Message, Gone, Honest
  <2>3. PICK ms \in {<<Gone(c)>>, <<>>} : Enqueued(Checker, ms)
    BY <1>4 DEF Destroy
  <2>4. ms \in Seq(Message) /\ \A i \in 1..Len(ms) : ms[i] = Gone(c)
    <3>1. CASE ms = <<Gone(c)>>
      BY <2>2, <3>1
    <3>2. CASE ms = <<>>
      BY <3>2
    <3> QED BY <2>3, <3>1, <3>2
  <2>5. \A i \in 1..Len(ms) : Honest(ms[i])'
    BY <2>2, <2>4
  <2> QED BY <2>3, <2>4, <2>5, HonestAppend DEF Thread
<1>5. ASSUME NEW c \in Id, Answer(c) PROVE HonestQueues'
  <2>1. PICK ms : /\ Enqueued(c, ms)
                  /\ \/ ms = <<>>
                     \/ c \in Alive /\ ms = <<State(c)>>
                     \/ c \in Alive /\ c \notin withUi /\ ms = <<NoUx(c)>>
    BY <1>5 DEF Answer
  <2>2. CASE ms = <<>>
    <3>1. ms \in Seq(Message) /\ \A i \in 1..Len(ms) : Honest(ms[i])'
      BY <2>2
    <3> QED BY <2>1, <3>1, HonestAppend DEF Thread
  <2>3. CASE c \in Alive /\ ms = <<State(c)>>
    <3>1. State(c) \in Message /\ Honest(State(c))'
      BY <1>1, <2>3 DEF Message, State, Honest, Alive
    <3>2. ms \in Seq(Message) /\ \A i \in 1..Len(ms) : ms[i] = State(c)
      BY <2>3, <3>1
    <3>3. \A i \in 1..Len(ms) : Honest(ms[i])'
      BY <3>1, <3>2
    <3> QED BY <2>1, <3>2, <3>3, HonestAppend DEF Thread
  <2>4. CASE c \in Alive /\ c \notin withUi /\ ms = <<NoUx(c)>>
    <3>1. NoUx(c) \in Message /\ Honest(NoUx(c))'
      BY <1>1, <2>4 DEF Message, NoUx, Honest, Alive
    <3>2. ms \in Seq(Message) /\ \A i \in 1..Len(ms) : ms[i] = NoUx(c)
      BY <2>4, <3>1
    <3>3. \A i \in 1..Len(ms) : Honest(ms[i])'
      BY <3>1, <3>2
    <3> QED BY <2>1, <3>2, <3>3, HonestAppend DEF Thread
  <2> QED BY <2>1, <2>2, <2>3, <2>4
<1>6. ASSUME PollAndRead PROVE HonestQueues'
  <2>1. PICK p \in Thread :
          messagesOut[p] # <<>> /\ messagesOut' = [messagesOut EXCEPT ![p] = Tail(@)]
    BY <1>6 DEF PollAndRead
  <2>2. UNCHANGED <<status, withUi>>
    BY <1>6 DEF PollAndRead
  <2> SUFFICES ASSUME NEW q \in Thread, NEW i \in 1..Len(messagesOut'[q])
               PROVE  Honest(messagesOut[q][i])'
    BY DEF HonestQueues
  <2>3. messagesOut[q] \in Seq(Message)
    BY DEF TypeOK
  <2>4. \E j \in 1..Len(messagesOut[q]) : messagesOut'[q][i] = messagesOut[q][j]
    <3>1. CASE q # p
      BY <2>1, <3>1 DEF TypeOK
    <3>2. CASE q = p
      <4>1. messagesOut'[q] = Tail(messagesOut[q]) /\ messagesOut[q] # <<>>
        BY <2>1, <3>2 DEF TypeOK
      <4>2. i + 1 \in 1..Len(messagesOut[q]) /\ messagesOut'[q][i] = messagesOut[q][i + 1]
        BY <2>3, <4>1
      <4> QED BY <4>2
    <3> QED BY <3>1, <3>2
  <2> QED BY <2>2, <2>4 DEF HonestQueues, Honest
<1>7. ASSUME Restart PROVE HonestQueues'
  <2> DEFINE cs == SetToSeq(Alive)
  <2>1. cs \in Seq(Alive)
    BY OrderType DEF Alive
  <2>2. /\ UNCHANGED <<status, withUi>>
        /\ messagesOut' = [p \in Thread |->
             IF p # Receiver THEN <<>>
             ELSE [i \in 1..Len(cs) |->
                     Mapping(cs[i], IF status[cs[i]] = "registered"
                                    THEN NameOf[cs[i]] ELSE Unnamed)]]
    BY <1>7 DEF Restart
  <2>3. \A i \in 1..Len(cs) : cs[i] \in Alive
    BY <2>1
  <2> HIDE DEF cs
  <2> SUFFICES ASSUME NEW q \in Thread, NEW i \in 1..Len(messagesOut'[q])
               PROVE  Honest(messagesOut[q][i])'
    BY DEF HonestQueues
  <2>4. q = Receiver
    BY <2>2
  <2>5. /\ i \in 1..Len(cs)
        /\ messagesOut'[q][i] = Mapping(cs[i], IF status[cs[i]] = "registered"
                                               THEN NameOf[cs[i]] ELSE Unnamed)
    BY <2>1, <2>2, <2>4
  <2> QED BY <2>2, <2>3, <2>5 DEF Honest, Mapping, Alive
<1> QED BY <1>2, <1>3, <1>4, <1>5, <1>6, <1>7
    DEF Next, Connect, RemoveConnection, Unsubscribe, GetController, GetUpdates, vars

(* Taking a name off the list spares whoever is not known with a namesake. *)
LEMMA SparedByRemoval ==
  ASSUME TypeOK, SpareInv, NEW c \in Known, RemoveController(channelNames[c]),
         NEW d \in (Known \cap withUi) \ overlapped, d # c
  PROVE  controllers'[channelNames[d]] = delegators[d]
<1>1. channelNames[d] # channelNames[c]
  BY DEF SpareInv, NamesakesOverlap
<1>2. channelNames[c] \in Name \cup {Unnamed} /\ channelNames[d] \in Name \cup {Unnamed}
  BY DEF Known, TypeOK
<1>3. controllers[channelNames[d]] = delegators[d]
  BY DEF SpareInv, OthersSpared, Listed
<1> QED BY <1>1, <1>2, <1>3 DEF RemoveController, TypeOK

LEMMA SpareMappingStep ==
  ASSUME TypeOK, Agreement, SpareInv, NEW m \in Message, Honest(m), NotifyMapping(m),
         UNCHANGED <<status, withUi>>
  PROVE  KnownConnected' /\ NamesakesOverlap' /\ OthersSpared'
<1> DEFINE c == m.from
           n == m.name
           o == <<c, built[c] + 1>>
           namesakes == {d \in Known \ {c} : channelNames[d] = n}
<1>1. /\ c \in Id /\ n \in Name \cup {Unnamed} /\ c \notin Known
      /\ o \in Object /\ o # NoObject
  BY UxControllersAssumption DEF NotifyMapping, Fresh, Message, TypeOK, Object
<1>2. /\ delegators' = [delegators EXCEPT ![c] = o]
      /\ channelNames' = [channelNames EXCEPT ![c] = n]
      /\ controllers' = [controllers EXCEPT ![n] = IF @ = NoObject THEN o ELSE @]
      /\ overlapped' = overlapped \cup (IF namesakes = {} THEN {} ELSE namesakes \cup {c})
  BY DEF NotifyMapping, Added
<1> HIDE DEF o, namesakes
<1>3. Known' = Known \cup {c}
  BY <1>1, <1>2 DEF Known, TypeOK
<1>4. \A d \in Known : /\ delegators'[d] = delegators[d]
                       /\ channelNames'[d] = channelNames[d] /\ d # c /\ d \in Id
  BY <1>1, <1>2 DEF Known, TypeOK
<1>5. delegators'[c] = o /\ channelNames'[c] = n
  BY <1>1, <1>2 DEF TypeOK
<1>6. KnownConnected'
  BY <1>3 DEF SpareInv, KnownConnected, Honest
<1>7. NamesakesOverlap'
  <2> SUFFICES ASSUME NEW d \in Known', NEW e \in Known', d # e,
                      channelNames'[d] = channelNames'[e]
               PROVE  d \in overlapped'
    BY DEF NamesakesOverlap
  <2>1. CASE d # c /\ e # c
    BY <1>2, <1>3, <1>4, <2>1 DEF SpareInv, NamesakesOverlap
  <2>2. CASE d = c
    <3>1. e \in namesakes
      BY <1>3, <1>4, <1>5, <2>2 DEF namesakes
    <3> QED BY <1>2, <2>2, <3>1
  <2>3. CASE e = c
    <3>1. d \in namesakes
      BY <1>3, <1>4, <1>5, <2>3 DEF namesakes
    <3> QED BY <1>2, <3>1
  <2> QED BY <2>1, <2>2, <2>3
<1>8. OthersSpared'
  <2> SUFFICES ASSUME NEW d \in Known', d \in withUi, d \notin overlapped'
               PROVE  controllers'[channelNames'[d]] = delegators'[d]
    BY DEF OthersSpared, Listed
  <2>1. CASE d # c
    <3>1. d \in Known /\ d \notin overlapped
      BY <1>2, <1>3, <2>1
    <3>2. controllers[channelNames[d]] = delegators[d] /\ delegators[d] # NoObject
          /\ channelNames[d] \in Name \cup {Unnamed}
      BY <3>1 DEF SpareInv, OthersSpared, Listed, Known, TypeOK
    <3> QED BY <1>2, <1>4, <3>1, <3>2 DEF TypeOK
  <2>2. CASE d = c
    <3>1. namesakes = {}
      BY <1>2, <2>2
    <3>2. controllers[n] = NoObject
      <4> SUFFICES ASSUME controllers[n] # NoObject PROVE FALSE
        OBVIOUS
      <4>1. controllers[n] \in Object
        BY <1>1 DEF TypeOK
      <4> DEFINE e == controllers[n][1]
      <4>2. e \in Id /\ delegators[e] = controllers[n] /\ channelNames[e] = n
        BY <1>1, <4>1, FirstOfObject DEF Agreement, ListedAreKnown
      <4>3. e \in Known
        BY <4>2 DEF Known
      <4> HIDE DEF e
      <4> QED BY <1>1, <3>1, <4>2, <4>3 DEF namesakes
    <3> QED BY <1>1, <1>2, <1>5, <2>2, <3>2 DEF TypeOK
  <2> QED BY <2>1, <2>2
<1> QED BY <1>6, <1>7, <1>8

LEMMA SpareStep ==
  ASSUME TypeOK, Agreement, SpareInv, [Next]_vars
  PROVE  SpareInv'
<1>0. HonestQueues'
  BY HonestStep DEF SpareInv, TypeOK
<1>1. ASSUME UNCHANGED <<delegators, channelNames, controllers, overlapped>>
      PROVE  KnownConnected' /\ NamesakesOverlap' /\ OthersSpared'
  <2>1. Known' = Known /\ Known \subseteq Id
    BY <1>1 DEF Known
  <2>2. \A c \in Known : status'[c] # "new" /\ (c \notin withUi => c \notin withUi')
    BY <2>1, HonestKept DEF SpareInv, KnownConnected
  <2>3. NamesakesOverlap'
    BY <1>1, <2>1 DEF SpareInv, NamesakesOverlap
  <2>4. \A c \in (Known' \cap withUi') \ overlapped' : c \in (Known \cap withUi) \ overlapped
    BY <1>1, <2>1, <2>2
  <2> QED BY <1>1, <2>1, <2>2, <2>3, <2>4
          DEF SpareInv, KnownConnected, OthersSpared, Listed
<1>2. ASSUME PollAndRead PROVE KnownConnected' /\ NamesakesOverlap' /\ OthersSpared'
  <2>1. PICK p \in Thread :
          /\ messagesOut[p] # <<>>
          /\ LET m == Head(messagesOut[p])
             IN  NotifyMapping(m) \/ Fill(m) \/ NotifyNoUx(m) \/ NotifyTermination(m)
                 \/ Ignore(m)
    BY <1>2 DEF PollAndRead
  <2>2. UNCHANGED <<status, withUi>>
    BY <1>2 DEF PollAndRead
  <2> DEFINE m == Head(messagesOut[p])
  <2>3. m \in Message /\ m.from \in Id
    <3>1. m \in Message
      BY <2>1, HeadTailProperties DEF TypeOK
    <3> QED BY <3>1 DEF Message
  <2>4. Honest(m)
    <3>1. messagesOut[p] \in Seq(Message) /\ messagesOut[p] # <<>>
      BY <2>1 DEF TypeOK
    <3>2. 1 \in 1..Len(messagesOut[p]) /\ m = messagesOut[p][1]
      BY <3>1
    <3> QED BY <3>2 DEF SpareInv, HonestQueues
  <2>5. NotifyMapping(m) \/ Fill(m) \/ NotifyNoUx(m) \/ NotifyTermination(m) \/ Ignore(m)
    BY <2>1
  <2> HIDE DEF m
  <2>6. CASE Fill(m) \/ Ignore(m)
    BY <1>1, <2>6 DEF Fill, Ignore, service
  <2>7. CASE NotifyMapping(m)
    BY <2>2, <2>3, <2>4, <2>7, SpareMappingStep
  <2>8. CASE NotifyNoUx(m)
    <3>1. m.from \in Known /\ m.from \notin withUi
          /\ UNCHANGED <<delegators, channelNames, overlapped>>
      BY <2>4, <2>8 DEF NotifyNoUx, Honest
    <3>2. CASE ~HasName(m.from)
      BY <1>1, <2>8, <3>2 DEF NotifyNoUx
    <3>3. CASE HasName(m.from)
      <4>1. RemoveController(channelNames[m.from])
        BY <2>8, <3>3 DEF NotifyNoUx
      <4>2. \A d \in (Known \cap withUi) \ overlapped :
              controllers'[channelNames[d]] = delegators[d]
        BY <3>1, <4>1, SparedByRemoval
      <4>3. Known' = Known
        BY <3>1 DEF Known
      <4> QED BY <2>2, <3>1, <4>2, <4>3
              DEF SpareInv, KnownConnected, NamesakesOverlap, OthersSpared, Listed
    <3> QED BY <3>2, <3>3
  <2>9. CASE NotifyTermination(m)
    <3>1. /\ m.from \in Known /\ RemoveController(channelNames[m.from])
          /\ delegators' = [delegators EXCEPT ![m.from] = NoObject]
          /\ channelNames' = [channelNames EXCEPT ![m.from] = Unnamed]
          /\ overlapped' = overlapped
      BY <2>9 DEF NotifyTermination, NameKept
    <3>2. Known' = Known \ {m.from}
      BY <2>3, <3>1 DEF Known, TypeOK
    <3>3. \A d \in Known' : d \in Known /\ d # m.from
                            /\ delegators'[d] = delegators[d]
                            /\ channelNames'[d] = channelNames[d]
      BY <2>3, <3>1, <3>2 DEF Known, TypeOK
    <3>4. \A d \in (Known' \cap withUi) \ overlapped :
            controllers'[channelNames[d]] = delegators[d]
      BY <3>1, <3>3, SparedByRemoval
    <3> QED BY <2>2, <3>1, <3>3, <3>4
            DEF SpareInv, KnownConnected, NamesakesOverlap, OthersSpared, Listed
  <2> QED BY <2>5, <2>6, <2>7, <2>8, <2>9
<1>3. ASSUME Restart PROVE KnownConnected' /\ NamesakesOverlap' /\ OthersSpared'
  <2>1. Known' = {}
    BY <1>3 DEF Restart, NothingKnown, Known
  <2> QED BY <2>1 DEF KnownConnected, NamesakesOverlap, OthersSpared
<1> QED BY <1>0, <1>1, <1>2, <1>3
    DEF SpareInv, Next, Connect, Register, RemoveConnection, Destroy, Answer,
        Unsubscribe, GetController, GetUpdates, service, vars

(* A known channel with a user interface is listed unless a namesake was   *)
(* known with it: no message about another channel takes it off the list.  *)
THEOREM OthersAreSpared == Spec => []OthersSpared
<1>1. Init => SpareInv
  BY DEF Init, SpareInv, HonestQueues, KnownConnected, NamesakesOverlap, OthersSpared, Known
<1>2. IInv /\ SpareInv /\ [Next]_vars => SpareInv'
  BY SpareStep DEF IInv, Agreement
<1>3. SpareInv => OthersSpared
  BY DEF SpareInv
<1> QED BY <1>1, <1>2, <1>3, UxControllersInvariant, PTL DEF Spec

-----------------------------------------------------------------------------
(* What is on its way, whatever queue it is in.                            *)

LEMMA MessageIs ==
  ASSUME NEW m \in Message
  PROVE  /\ m.from \in Id
         /\ m.kind \in {"mapping", "state", "noUx", "gone"}
         /\ m.kind = "mapping" => m.name \in Name \cup {Unnamed}
                                  /\ m = Mapping(m.from, m.name)
         /\ m.kind = "state" => m = State(m.from)
         /\ m.kind = "gone" => m = Gone(m.from)
BY DEF Message, Mapping, State, Gone

LEMMA Fields ==
  ASSUME NEW c
  PROVE  /\ \A n : /\ Mapping(c, n).kind = "mapping" /\ Mapping(c, n).from = c
                   /\ Mapping(c, n).name = n
         /\ State(c).kind = "state" /\ State(c).from = c
         /\ NoUx(c).kind = "noUx" /\ NoUx(c).from = c
         /\ Gone(c).kind = "gone" /\ Gone(c).from = c
BY DEF Mapping, State, NoUx, Gone

(* Messages of different kinds, or about different devices, are different. *)
LEMMA Apart ==
  ASSUME NEW c, NEW d, NEW n
  PROVE  /\ \A k : Mapping(d, n) = Mapping(c, k) => d = c /\ n = k
         /\ Mapping(d, n) # State(c) /\ Mapping(d, n) # NoUx(c) /\ Mapping(d, n) # Gone(c)
<1>1. Mapping(d, n).kind = "mapping" /\ Mapping(d, n).from = d /\ Mapping(d, n).name = n
  BY Fields
<1>2. \A k : Mapping(c, k).from = c /\ Mapping(c, k).name = k
  BY Fields
<1>3. State(c).kind = "state" /\ NoUx(c).kind = "noUx" /\ Gone(c).kind = "gone"
  BY Fields
<1> QED BY <1>1, <1>2, <1>3

(* Messages enqueued while the service is up are on their way, and those   *)
(* that were.                                                              *)
LEMMA EnqueuedQueued ==
  ASSUME TypeOK, NEW p \in Thread, NEW ms \in Seq(Message), Enqueued(p, ms)
  PROVE  \A m : Queued(m)' <=>
           Queued(m) \/ (~crashed /\ \E i \in 1..Len(ms) : ms[i] = m)
<1>1. CASE crashed
  BY <1>1 DEF Enqueued, Queued
<1>2. CASE ~crashed
  <2>1. /\ messagesOut[p] \in Seq(Message)
        /\ messagesOut'[p] = messagesOut[p] \o ms
        /\ \A q \in Thread \ {p} : messagesOut'[q] = messagesOut[q]
    BY <1>2 DEF Enqueued, TypeOK
  <2>2. /\ Len(messagesOut[p]) \in Nat /\ Len(ms) \in Nat
        /\ Len(messagesOut'[p]) = Len(messagesOut[p]) + Len(ms)
        /\ \A i \in 1..Len(messagesOut[p]) : messagesOut'[p][i] = messagesOut[p][i]
        /\ \A i \in 1..Len(ms) : messagesOut'[p][Len(messagesOut[p]) + i] = ms[i]
    BY <2>1
  <2> TAKE m
  <2>3. ASSUME Queued(m)'
        PROVE  Queued(m) \/ \E i \in 1..Len(ms) : ms[i] = m
    <3>1. PICK q \in Thread : \E i \in 1..Len(messagesOut'[q]) : messagesOut'[q][i] = m
      BY <2>3 DEF Queued
    <3>2. PICK i \in 1..Len(messagesOut'[q]) : messagesOut'[q][i] = m
      BY <3>1
    <3>3. CASE q # p
      BY <2>1, <3>2, <3>3 DEF Queued
    <3>4. CASE q = p
      <4>1. CASE i \in 1..Len(messagesOut[p])
        BY <2>2, <3>2, <3>4, <4>1 DEF Queued
      <4>2. CASE i \notin 1..Len(messagesOut[p])
        <5>1. i - Len(messagesOut[p]) \in 1..Len(ms)
          BY <2>2, <3>4, <4>2
        <5>2. Len(messagesOut[p]) + (i - Len(messagesOut[p])) = i
          BY <2>2, <3>4
        <5>3. ms[i - Len(messagesOut[p])] = m
          BY <2>2, <3>2, <3>4, <5>1, <5>2
        <5> QED BY <5>1, <5>3
      <4> QED BY <4>1, <4>2
    <3> QED BY <3>3, <3>4
  <2>4. ASSUME Queued(m)
        PROVE  Queued(m)'
    <3>1. PICK q \in Thread : \E i \in 1..Len(messagesOut[q]) : messagesOut[q][i] = m
      BY <2>4 DEF Queued
    <3>2. PICK i \in 1..Len(messagesOut[q]) : messagesOut[q][i] = m
      BY <3>1
    <3>3. i \in 1..Len(messagesOut'[q]) /\ messagesOut'[q][i] = m
      BY <2>1, <2>2, <3>2
    <3> QED BY <3>3 DEF Queued
  <2>5. ASSUME NEW i \in 1..Len(ms), ms[i] = m
        PROVE  Queued(m)'
    <3>1. Len(messagesOut[p]) + i \in 1..Len(messagesOut'[p])
      BY <2>2
    <3> QED BY <2>2, <2>5, <3>1 DEF Queued
  <2> QED BY <1>2, <2>3, <2>4, <2>5
<1> QED BY <1>1, <1>2

(* A message that is read is on its way no more, unless there is another.  *)
LEMMA ReadQueued ==
  ASSUME TypeOK, NEW p \in Thread, messagesOut[p] # <<>>,
         messagesOut' = [messagesOut EXCEPT ![p] = Tail(@)]
  PROVE  /\ Queued(Head(messagesOut[p]))
         /\ \A m : Queued(m)' => Queued(m)
         /\ \A m : Queued(m) => Queued(m)' \/ m = Head(messagesOut[p])
<1> DEFINE q == messagesOut[p]
<1>1. /\ q \in Seq(Message) /\ q # <<>> /\ messagesOut'[p] = Tail(q)
      /\ \A r \in Thread \ {p} : messagesOut'[r] = messagesOut[r]
  BY DEF TypeOK
<1>2. Queued(q[1]) /\ q[1] = Head(q)
  <2>1. 1 \in 1..Len(q)
    BY <1>1
  <2> QED BY <2>1 DEF Queued
<1>3. ASSUME NEW m, Queued(m)'
      PROVE  Queued(m)
  <2>1. PICK r \in Thread : \E i \in 1..Len(messagesOut'[r]) : messagesOut'[r][i] = m
    BY <1>3 DEF Queued
  <2>2. CASE r # p
    BY <1>1, <2>1, <2>2 DEF Queued
  <2>3. CASE r = p
    <3>1. PICK i \in 1..Len(Tail(q)) : Tail(q)[i] = m
      BY <1>1, <2>1, <2>3
    <3> HIDE DEF q
    <3>2. i + 1 \in 1..Len(q) /\ q[i + 1] = m
      BY <1>1, <3>1
    <3> QED BY <3>2 DEF Queued, q
  <2> QED BY <2>2, <2>3
<1>4. ASSUME NEW m, Queued(m), m # q[1]
      PROVE  Queued(m)'
  <2>1. PICK r \in Thread : \E i \in 1..Len(messagesOut[r]) : messagesOut[r][i] = m
    BY <1>4 DEF Queued
  <2>2. CASE r # p
    BY <1>1, <2>1, <2>2 DEF Queued
  <2>3. CASE r = p
    <3>1. PICK i \in 1..Len(q) : q[i] = m
      BY <2>1, <2>3
    <3> HIDE DEF q
    <3>2. i - 1 \in 1..Len(Tail(q)) /\ Tail(q)[i - 1] = m
      BY <1>1, <1>4, <3>1
    <3> QED BY <1>1, <3>2 DEF Queued
  <2> QED BY <2>2, <2>3
<1> QED BY <1>2, <1>3, <1>4

(* What the broker and the devices send.                                   *)
LEMMA RegisterQueued ==
  ASSUME TypeOK, NEW c \in Id, Register(c)
  PROVE  \A m : Queued(m)' <=>
           Queued(m) \/ (~crashed /\ m = Mapping(c, NameOf[c]))
<1> DEFINE k == Mapping(c, NameOf[c])
<1>1. k \in Message /\ c \in Thread
  BY MessageTypes DEF Thread
<1> HIDE DEF k
<1>2. PICK ms \in {<<k>>, <<k, k>>} : Enqueued(c, ms)
  BY DEF Register, k
<1>3. CASE ms = <<k>>
  <2>1. ms \in Seq(Message) /\ \A m : (\E i \in 1..Len(ms) : ms[i] = m) <=> m = k
    BY <1>1, <1>3
  <2> QED BY <1>1, <1>2, <2>1, EnqueuedQueued DEF k
<1>4. CASE ms = <<k, k>>
  <2>1. ms \in Seq(Message) /\ Len(ms) = 2 /\ ms[1] = k /\ ms[2] = k
    BY <1>1, <1>4
  <2>2. \A m : (\E i \in 1..Len(ms) : ms[i] = m) <=> m = k
    BY <2>1
  <2> QED BY <1>1, <1>2, <2>1, <2>2, EnqueuedQueued DEF k
<1> QED BY <1>2, <1>3, <1>4

(* One message, or none.                                                   *)
LEMMA OneQueued ==
  ASSUME TypeOK, NEW p \in Thread, NEW k \in Message, NEW ms,
         Enqueued(p, ms), ms = <<k>> \/ ms = <<>>
  PROVE  \A m : Queued(m)' <=> Queued(m) \/ (~crashed /\ ms = <<k>> /\ m = k)
<1>1. ms \in Seq(Message)
  <2>1. <<k>> \in Seq(Message) /\ <<>> \in Seq(Message)
    OBVIOUS
  <2> QED BY <2>1
<1>2. \A m : (\E i \in 1..Len(ms) : ms[i] = m) <=> (ms = <<k>> /\ m = k)
  <2>1. CASE ms = <<k>>
    BY <2>1
  <2>2. CASE ms = <<>>
    BY <2>2
  <2> QED BY <2>1, <2>2
<1> QED BY <1>1, <1>2, EnqueuedQueued

LEMMA DestroyQueued ==
  ASSUME TypeOK, NEW c \in Id, Destroy(c)
  PROVE  /\ \A m : Queued(m) => Queued(m)'
         /\ \A m : Queued(m)' => Queued(m) \/ m = Gone(c)
<1>1. PICK ms : (ms = <<Gone(c)>> \/ ms = <<>>) /\ Enqueued(Checker, ms)
  BY DEF Destroy
<1>2. Gone(c) \in Message /\ Checker \in Thread
  BY MessageTypes DEF Thread
<1> QED BY <1>1, <1>2, OneQueued

LEMMA AnswerQueued ==
  ASSUME TypeOK, NEW c \in Id, Answer(c)
  PROVE  /\ \A m : Queued(m) => Queued(m)'
         /\ \A m : Queued(m)' => Queued(m) \/ m \in {State(c), NoUx(c)}
         /\ (~crashed /\ c \in subs \cap Alive \cap withUi) => Queued(State(c))'
<1>1. PICK ms : /\ Enqueued(c, ms)
                /\ ms = IF c \notin subs \cap Alive THEN <<>>
                        ELSE IF c \in withUi THEN <<State(c)>> ELSE <<NoUx(c)>>
  BY DEF Answer
<1>2. State(c) \in Message /\ NoUx(c) \in Message /\ c \in Thread
  BY MessageTypes DEF Thread
<1>3. CASE c \in subs \cap Alive /\ c \notin withUi
  <2>1. ms = <<NoUx(c)>>
    BY <1>1, <1>3
  <2> QED BY <1>1, <1>2, <1>3, <2>1, OneQueued
<1>4. CASE ~(c \in subs \cap Alive /\ c \notin withUi)
  <2>1. ms = <<State(c)>> \/ ms = <<>>
    BY <1>1, <1>4
  <2>2. c \in subs \cap Alive \cap withUi => ms = <<State(c)>>
    BY <1>1
  <2> QED BY <1>1, <1>2, <2>1, <2>2, OneQueued
<1> QED BY <1>3, <1>4

(* SetToSeq lists every member.                                            *)
LEMMA Listing ==
  ASSUME NEW S, S \subseteq Id
  PROVE  \A x \in S : \E i \in 1..Len(SetToSeq(S)) : SetToSeq(S)[i] = x
<1>1. IsFiniteSet(S)
  BY UxControllersAssumption, FS_Subset
<1>2. Cardinality(S) \in Nat /\ ExistsBijection(1..Cardinality(S), S)
  BY <1>1, FS_CardinalityType
<1>3. PICK g \in Bijection(1..Cardinality(S), S) : TRUE
  BY <1>2 DEF ExistsBijection
<1>4. g \in [1..Cardinality(S) -> S] /\ IsInjective(g)
  BY <1>3 DEF Bijection, Injection
<1> DEFINE f == SetToSeq(S)
<1>5. f \in [1..Cardinality(S) -> S] /\ IsInjective(f)
  BY <1>4 DEF SetToSeq
<1> HIDE DEF f
<1>6. Len(f) = Cardinality(S)
  BY <1>2, <1>5
<1>7. f \in Injection(1..Cardinality(S), S)
  BY <1>5 DEF Injection
<1>8. IsFiniteSet(1..Cardinality(S)) /\ Cardinality(1..Cardinality(S)) = Cardinality(S)
  BY <1>2, FS_Interval
<1>9. f \in Surjection(1..Cardinality(S), S)
  BY <1>1, <1>7, <1>8, FS_Injection
<1>10. \A x \in S : \E i \in 1..Cardinality(S) : f[i] = x
  BY <1>9 DEF Surjection
<1> QED BY <1>6, <1>10 DEF f

(* To a new run of the service the broker introduces whoever is connected. *)
Introduction(c) ==
  Mapping(c, IF status[c] = "registered" THEN NameOf[c] ELSE Unnamed)

LEMMA RestartQueued ==
  ASSUME TypeOK, Restart
  PROVE  \A m : Queued(m)' <=> \E c \in Alive : m = Introduction(c)
<1> DEFINE cs == SetToSeq(Alive)
<1>1. cs \in Seq(Alive) /\ \A c \in Alive : \E i \in 1..Len(cs) : cs[i] = c
  BY OrderType, Listing DEF Alive
<1>2. messagesOut' = [p \in Thread |->
        IF p # Receiver THEN <<>>
        ELSE [i \in 1..Len(cs) |-> Introduction(cs[i])]]
  BY DEF Restart, Introduction
<1>3. \A i \in 1..Len(cs) : cs[i] \in Alive
  BY <1>1
<1> HIDE DEF cs
<1>4. /\ Receiver \in Thread
      /\ messagesOut'[Receiver] = [i \in 1..Len(cs) |-> Introduction(cs[i])]
      /\ \A q \in Thread \ {Receiver} : messagesOut'[q] = <<>>
  BY <1>2 DEF Thread
<1>5. Len(messagesOut'[Receiver]) = Len(cs)
  BY <1>1, <1>4
<1> TAKE m
<1>6. ASSUME Queued(m)'
      PROVE  \E c \in Alive : m = Introduction(c)
  <2>1. PICK q \in Thread : \E i \in 1..Len(messagesOut'[q]) : messagesOut'[q][i] = m
    BY <1>6 DEF Queued
  <2>2. PICK i \in 1..Len(messagesOut'[q]) : messagesOut'[q][i] = m
    BY <2>1
  <2>3. q = Receiver
    BY <1>4, <2>2
  <2> QED BY <1>3, <1>4, <1>5, <2>2, <2>3
<1>7. ASSUME NEW c \in Alive, m = Introduction(c)
      PROVE  Queued(m)'
  <2>1. PICK i \in 1..Len(cs) : cs[i] = c
    BY <1>1
  <2>2. i \in 1..Len(messagesOut'[Receiver]) /\ messagesOut'[Receiver][i] = m
    BY <1>4, <1>5, <1>7, <2>1
  <2> QED BY <1>4, <2>2 DEF Queued
<1> QED BY <1>6, <1>7

-----------------------------------------------------------------------------
(* The service hears of every device, and asks it.                         *)

Introduced(c) == \E n \in Name \cup {Unnamed} : Queued(Mapping(c, n))

(* The service knows c, or will.                                           *)
Heard(c) == c \in Known \/ Introduced(c)

(* A device with a user interface, and with a name that no device without  *)
(* one has had.                                                            *)
Alone(c) == c \in withUi \cap Alive /\ ~HasNamesake(c)

(* Terminations are of connections destroyed, names are their own, and a   *)
(* name is left only by a device without a user interface.                 *)
SaysTrue ==
  /\ \A c \in Id : Queued(Gone(c)) => status[c] = "destroyed"
  /\ \A c \in Id, n \in Name \cup {Unnamed} :
       Queued(Mapping(c, n)) => n \in {NameOf[c], Unnamed}
  /\ \A c \in Known : channelNames[c] \in {NameOf[c], Unnamed}
  /\ \A n \in leaving :
       \E d \in Id \ withUi : NameOf[d] = n /\ status[d] # "new"

RegisteredHeard ==
  \A c \in Id : (~crashed /\ status[c] = "registered") => Heard(c)

HeardSubscribed ==
  \A c \in Id : (~crashed /\ Alone(c) /\ Heard(c)) => c \in subs

KnownAsked ==
  \A c \in Known \ overlapped :
    (~crashed /\ Alone(c)) =>
      c \in asked \/ Queued(State(c)) \/ delegators[c] \in filled

ShownInv == SaysTrue /\ RegisteredHeard /\ HeardSubscribed /\ KnownAsked

(* Whoever is heard of has connected, so that what is said of its user     *)
(* interface and its namesakes stays true.                                 *)
LEMMA HeardConnected ==
  ASSUME TypeOK, SpareInv, NEW c \in Id, Heard(c)
  PROVE  status[c] # "new"
<1>1. CASE c \in Known
  BY <1>1 DEF SpareInv, KnownConnected
<1>2. CASE Introduced(c)
  <2>1. PICK n : Queued(Mapping(c, n))
    BY <1>2 DEF Introduced
  <2>2. Honest(Mapping(c, n))
    BY <2>1 DEF Queued, SpareInv, HonestQueues
  <2> QED BY <2>2, Fields DEF Honest
<1> QED BY <1>1, <1>2 DEF Heard

LEMMA AloneKept ==
  ASSUME TypeOK, [Next]_vars, NEW c \in Id, status[c] # "new", Alone(c)'
  PROVE  Alone(c)
<1>1. \A d \in Id : status[d] # "new" =>
        status'[d] # "new" /\ (d \notin withUi => d \notin withUi')
  BY HonestKept
<1>2. HasNamesake(c) => HasNamesake(c)'
  BY <1>1 DEF HasNamesake
<1>3. c \in Alive' => c \in Alive
  BY DEF Next, Connect, Register, RemoveConnection, Destroy, Answer, Unsubscribe,
         PollAndRead, GetController, GetUpdates, Restart, vars, broker, Alive, TypeOK
<1> QED BY <1>1, <1>2, <1>3 DEF Alone

(* What SaysTrue says is not taken back.                                   *)
LEMMA LeavingKept ==
  ASSUME TypeOK, [Next]_vars, SaysTrue, leaving' \subseteq leaving
  PROVE  \A n \in leaving' :
           \E d \in Id \ withUi' : NameOf[d] = n /\ status'[d] # "new"
BY HonestKept DEF SaysTrue

LEMMA DestroyedKept ==
  ASSUME TypeOK, [Next]_vars
  PROVE  \A c \in Id : status[c] = "destroyed" => status'[c] = "destroyed"
<1>1. CASE UNCHANGED status
  BY <1>1
<1>2. ASSUME NEW c \in Id, NEW s \in Status, status[c] # "destroyed",
             status' = [status EXCEPT ![c] = s]
      PROVE  \A d \in Id : status[d] = "destroyed" => status'[d] = "destroyed"
  BY <1>2 DEF TypeOK
<1>3. ASSUME NEW c \in Id, NEW ui \in BOOLEAN, Connect(c, ui)
      PROVE  \A d \in Id : status[d] = "destroyed" => status'[d] = "destroyed"
  BY <1>2, <1>3 DEF Connect, Status
<1>4. ASSUME NEW c \in Id, Register(c)
      PROVE  \A d \in Id : status[d] = "destroyed" => status'[d] = "destroyed"
  BY <1>2, <1>4 DEF Register, Status
<1>5. ASSUME NEW c \in Id, RemoveConnection(c)
      PROVE  \A d \in Id : status[d] = "destroyed" => status'[d] = "destroyed"
  BY <1>2, <1>5 DEF RemoveConnection, Alive, Status
<1>6. ASSUME NEW c \in Id, Destroy(c)
      PROVE  \A d \in Id : status[d] = "destroyed" => status'[d] = "destroyed"
  BY <1>2, <1>6 DEF Destroy, Status
<1> QED BY <1>1, <1>3, <1>4, <1>5, <1>6
        DEF Next, Answer, Unsubscribe, PollAndRead, GetController, GetUpdates, Restart,
            vars, broker

(* Steps in which the service and what is said to it stay as they are.     *)
LEMMA QuietShown ==
  ASSUME TypeOK, SpareInv, ShownInv, [Next]_vars,
         UNCHANGED <<messagesOut, service, asked, subs, leaving, overlapped>>,
         crashed => crashed',
         \A c \in Id : status'[c] = "registered" => status[c] = "registered"
  PROVE  ShownInv'
<1>1. /\ \A m : Queued(m)' <=> Queued(m)
      /\ \A c : Introduced(c)' <=> Introduced(c)
      /\ Known' = Known /\ \A c : Heard(c)' <=> Heard(c)
  BY DEF Queued, Introduced, Heard, Known, service
<1>2. SaysTrue'
  BY <1>1, LeavingKept, DestroyedKept DEF ShownInv, SaysTrue, service
<1>3. RegisteredHeard'
  BY <1>1 DEF ShownInv, RegisteredHeard
<1>4. \A c \in Id : Heard(c) /\ Alone(c)' => Alone(c)
  BY HeardConnected, AloneKept
<1>5. HeardSubscribed'
  BY <1>1, <1>4 DEF ShownInv, HeardSubscribed
<1>6. KnownAsked'
  <2>1. \A c \in Known : c \in Id /\ Heard(c)
    BY DEF Known, Heard
  <2> QED BY <1>1, <1>4, <2>1 DEF ShownInv, KnownAsked, service
<1> QED BY <1>2, <1>3, <1>5, <1>6 DEF ShownInv

LEMMA RegisterShown ==
  ASSUME TypeOK, SpareInv, ShownInv, [Next]_vars, NEW c \in Id, Register(c)
  PROVE  ShownInv'
<1>1. \A m : Queued(m)' <=> Queued(m) \/ (~crashed /\ m = Mapping(c, NameOf[c]))
  BY RegisterQueued
<1>2. /\ UNCHANGED <<withUi, asked, leaving, service, crashed, overlapped>>
      /\ status' = [status EXCEPT ![c] = "registered"] /\ status[c] = "connected"
      /\ subs' = IF crashed THEN subs ELSE subs \cup {c}
      /\ Known' = Known
  BY DEF Register, run, service, Known
<1>3. NameOf[c] \in Name
  BY DEF Name
<1>4. \A d \in Id, n \in Name \cup {Unnamed} :
        Queued(Mapping(d, n))' =>
          Queued(Mapping(d, n)) \/ (~crashed /\ d = c /\ n = NameOf[c])
  <2> TAKE d \in Id, n \in Name \cup {Unnamed}
  <2>1. Mapping(d, n) = Mapping(c, NameOf[c]) => d = c /\ n = NameOf[c]
    BY Apart
  <2> QED BY <1>1, <2>1
<1>5. \A d \in Id : (Introduced(d) => Introduced(d)')
                    /\ (Introduced(d)' => Introduced(d) \/ (~crashed /\ d = c))
  BY <1>1, <1>4 DEF Introduced
<1>6. ~crashed => Introduced(c)'
  BY <1>1, <1>3 DEF Introduced
<1>7. SaysTrue'
  <2>1. \A d \in Id : Queued(Gone(d))' => Queued(Gone(d))
    BY <1>1, Fields
  <2>2. \A d \in Id : Queued(Gone(d))' => status'[d] = "destroyed"
    BY <2>1, DestroyedKept DEF ShownInv, SaysTrue
  <2>3. \A d \in Id, n \in Name \cup {Unnamed} :
          Queued(Mapping(d, n))' => n \in {NameOf[d], Unnamed}
    BY <1>4 DEF ShownInv, SaysTrue
  <2>4. \A d \in Known' : channelNames'[d] \in {NameOf[d], Unnamed}
    BY <1>2 DEF ShownInv, SaysTrue, service
  <2> QED BY <1>2, <2>2, <2>3, <2>4, LeavingKept DEF ShownInv, SaysTrue
<1>8. RegisteredHeard'
  BY <1>2, <1>5, <1>6 DEF ShownInv, RegisteredHeard, Heard, TypeOK
<1>9. \A d \in Id : Heard(d) /\ Alone(d)' => Alone(d)
  BY HeardConnected, AloneKept
<1>10. HeardSubscribed'
  BY <1>2, <1>5, <1>9 DEF ShownInv, HeardSubscribed, Heard
<1>11. KnownAsked'
  <2>1. \A d \in Known : d \in Id /\ Heard(d)
    BY DEF Known, Heard
  <2> QED BY <1>1, <1>2, <1>9, <2>1 DEF ShownInv, KnownAsked, service
<1> QED BY <1>7, <1>8, <1>10, <1>11 DEF ShownInv

LEMMA DestroyShown ==
  ASSUME TypeOK, SpareInv, ShownInv, [Next]_vars, NEW c \in Id, Destroy(c)
  PROVE  ShownInv'
<1>1. /\ \A m : Queued(m) => Queued(m)'
      /\ \A m : Queued(m)' => Queued(m) \/ m = Gone(c)
  BY DestroyQueued
<1>2. /\ UNCHANGED <<withUi, asked, leaving, service, crashed, overlapped>>
      /\ status' = [status EXCEPT ![c] = "destroyed"] /\ status[c] = "removed"
      /\ subs' = subs \ {c} /\ Known' = Known
  BY DEF Destroy, run, service, Known
<1>3. \A d : Introduced(d)' <=> Introduced(d)
  <2>1. \A d, n : /\ Mapping(d, n) # State(c) /\ Mapping(d, n) # NoUx(c)
                  /\ Mapping(d, n) # Gone(c)
    BY Apart
  <2> QED BY <1>1, <2>1 DEF Introduced
<1>4. SaysTrue'
  <2>1. \A d \in Id : Queued(Gone(d))' => Queued(Gone(d)) \/ d = c
    BY <1>1, Fields
  <2>2. \A d \in Id : Queued(Gone(d))' => status'[d] = "destroyed"
    BY <1>2, <2>1, DestroyedKept DEF ShownInv, SaysTrue, TypeOK
  <2>3. \A d \in Id, n \in Name \cup {Unnamed} :
          Queued(Mapping(d, n))' => n \in {NameOf[d], Unnamed}
    BY <1>1, Fields DEF ShownInv, SaysTrue
  <2>4. \A d \in Known' : channelNames'[d] \in {NameOf[d], Unnamed}
    BY <1>2 DEF ShownInv, SaysTrue, service
  <2> QED BY <1>2, <2>2, <2>3, <2>4, LeavingKept DEF ShownInv, SaysTrue
<1>5. RegisteredHeard'
  BY <1>2, <1>3 DEF ShownInv, RegisteredHeard, Heard, TypeOK
<1>6. \A d \in Id : Heard(d) /\ Alone(d)' => Alone(d) /\ d # c
  <2>1. ~Alone(c)
    BY <1>2 DEF Alone, Alive
  <2> QED BY <2>1, HeardConnected, AloneKept
<1>7. HeardSubscribed'
  BY <1>2, <1>3, <1>6 DEF ShownInv, HeardSubscribed, Heard
<1>8. KnownAsked'
  <2>1. \A d \in Known : d \in Id /\ Heard(d)
    BY DEF Known, Heard
  <2> QED BY <1>1, <1>2, <1>6, <2>1 DEF ShownInv, KnownAsked, service
<1> QED BY <1>4, <1>5, <1>7, <1>8 DEF ShownInv

LEMMA AnswerShown ==
  ASSUME TypeOK, SpareInv, ShownInv, [Next]_vars, NEW c \in Id, Answer(c)
  PROVE  ShownInv'
<1>1. /\ \A m : Queued(m) => Queued(m)'
      /\ \A m : Queued(m)' => Queued(m) \/ m \in {State(c), NoUx(c)}
      /\ (~crashed /\ c \in subs \cap Alive \cap withUi) => Queued(State(c))'
  BY AnswerQueued
<1>2. /\ UNCHANGED <<status, withUi, subs, leaving, service, crashed, overlapped>>
      /\ asked' = asked \ {c} /\ Known' = Known
  BY DEF Answer, run, service, Known
<1>3. \A d : Introduced(d)' <=> Introduced(d)
  <2>1. \A d, n : /\ Mapping(d, n) # State(c) /\ Mapping(d, n) # NoUx(c)
                  /\ Mapping(d, n) # Gone(c)
    BY Apart
  <2> QED BY <1>1, <2>1 DEF Introduced
<1>4. SaysTrue'
  <2>1. \A d \in Id : Queued(Gone(d))' => Queued(Gone(d))
    BY <1>1, Fields
  <2>2. \A d \in Id, n \in Name \cup {Unnamed} :
          Queued(Mapping(d, n))' => n \in {NameOf[d], Unnamed}
    BY <1>1, Fields DEF ShownInv, SaysTrue
  <2>3. \A d \in Known' : channelNames'[d] \in {NameOf[d], Unnamed}
    BY <1>2 DEF ShownInv, SaysTrue, service
  <2> QED BY <1>2, <2>1, <2>2, <2>3, LeavingKept DEF ShownInv, SaysTrue
<1>5. RegisteredHeard'
  BY <1>2, <1>3 DEF ShownInv, RegisteredHeard, Heard
<1>6. \A d \in Id : Heard(d) /\ Alone(d)' => Alone(d)
  BY HeardConnected, AloneKept
<1>7. HeardSubscribed'
  BY <1>2, <1>3, <1>6 DEF ShownInv, HeardSubscribed, Heard
<1>8. KnownAsked'
  <2> SUFFICES ASSUME NEW d \in Known' \ overlapped', ~crashed', Alone(d)'
               PROVE  d \in asked' \/ Queued(State(d))' \/ delegators'[d] \in filled'
    BY DEF KnownAsked
  <2>1. d \in Id /\ d \in Known \ overlapped /\ Heard(d) /\ ~crashed
    BY <1>2 DEF Known, Heard
  <2>2. Alone(d) /\ d \in subs
    BY <1>6, <2>1 DEF ShownInv, HeardSubscribed
  <2>3. CASE d = c
    BY <1>1, <2>1, <2>2, <2>3 DEF Alone
  <2>4. CASE d # c
    BY <1>1, <1>2, <2>1, <2>2, <2>4 DEF ShownInv, KnownAsked, service
  <2> QED BY <2>3, <2>4
<1> QED BY <1>4, <1>5, <1>7, <1>8 DEF ShownInv

(* A name is left for a device without a user interface, so the device that*)
(* loses its subscription is that one or has had a namesake.               *)
LEMMA UnsubscribeShown ==
  ASSUME TypeOK, SpareInv, ShownInv, [Next]_vars, NEW n \in Name, Unsubscribe(n)
  PROVE  ShownInv'
<1>1. /\ UNCHANGED <<status, withUi, asked, messagesOut, service, crashed, overlapped>>
      /\ leaving' = leaving \ {n} /\ n \in leaving
      /\ subs' = {c \in subs : ~(status[c] = "registered" /\ NameOf[c] = n)}
      /\ Known' = Known
  BY DEF Unsubscribe, run, service, Known
<1>2. /\ \A m : Queued(m)' <=> Queued(m)
      /\ \A c : Introduced(c)' <=> Introduced(c)
      /\ \A c : Heard(c)' <=> Heard(c)
  BY <1>1 DEF Queued, Introduced, Heard, Known
<1>3. SaysTrue'
  BY <1>1, <1>2, LeavingKept, DestroyedKept DEF ShownInv, SaysTrue, service
<1>4. RegisteredHeard'
  BY <1>1, <1>2 DEF ShownInv, RegisteredHeard
<1>5. \A d \in Id : Heard(d) /\ Alone(d)' => Alone(d)
  BY HeardConnected, AloneKept
<1>6. PICK e \in Id \ withUi : NameOf[e] = n /\ status[e] # "new"
  BY <1>1 DEF ShownInv, SaysTrue
<1>7. \A d \in Id : Alone(d) => NameOf[d] # n
  BY <1>6 DEF Alone, HasNamesake
<1>8. HeardSubscribed'
  BY <1>1, <1>2, <1>5, <1>7 DEF ShownInv, HeardSubscribed
<1>9. KnownAsked'
  <2>1. \A d \in Known : d \in Id /\ Heard(d)
    BY DEF Known, Heard
  <2> QED BY <1>1, <1>2, <1>5, <2>1 DEF ShownInv, KnownAsked, service
<1> QED BY <1>3, <1>4, <1>8, <1>9 DEF ShownInv

LEMMA RestartShown ==
  ASSUME TypeOK, Restart
  PROVE  ShownInv'
<1>1. \A m : Queued(m)' <=> \E c \in Alive : m = Introduction(c)
  BY RestartQueued
<1>2. /\ Known' = {} /\ leaving' = {} /\ subs' = Alive /\ status' = status
      /\ Alive \subseteq Id
  BY DEF Restart, NothingKnown, Known, Alive
<1>3. \A c : Introduction(c).kind = "mapping" /\ Introduction(c).from = c
  BY Fields DEF Introduction
<1>4. \A c \in Id : Introduced(c)' => c \in Alive
  BY <1>1, <1>3, Fields DEF Introduced
<1>5. \A c \in Alive : Introduced(c)'
  <2> TAKE c \in Alive
  <2>1. PICK n \in Name \cup {Unnamed} : Introduction(c) = Mapping(c, n)
    BY <1>2 DEF Introduction, Name
  <2> QED BY <1>1, <2>1 DEF Introduced
<1>6. SaysTrue'
  <2>1. \A c \in Id : ~Queued(Gone(c))'
    BY <1>1, <1>3, Fields
  <2>2. ASSUME NEW c \in Id, NEW n \in Name \cup {Unnamed}, Queued(Mapping(c, n))'
        PROVE  n \in {NameOf[c], Unnamed}
    <3>1. PICK d \in Alive : Mapping(c, n) = Introduction(d)
      BY <1>1, <2>2
    <3>2. d = c
      BY <1>3, <3>1, Fields
    <3> QED BY <3>1, <3>2, Fields DEF Introduction
  <2> QED BY <1>2, <2>1, <2>2 DEF SaysTrue
<1>7. RegisteredHeard'
  BY <1>2, <1>5 DEF RegisteredHeard, Heard, Alive
<1>8. HeardSubscribed'
  BY <1>2, <1>4 DEF HeardSubscribed, Heard
<1>9. KnownAsked'
  BY <1>2 DEF KnownAsked
<1> QED BY <1>6, <1>7, <1>8, <1>9 DEF ShownInv

(* A controller taken off the list is not one of a device that was not     *)
(* known together with a namesake.                                         *)
LEMMA FilledSpared ==
  ASSUME TypeOK, Agreement, SpareInv, NEW c \in Known, RemoveController(channelNames[c]),
         NEW d \in Known \ overlapped, d # c, delegators[d] \in filled
  PROVE  delegators[d] \in filled'
<1>1. channelNames[d] # channelNames[c] /\ delegators[d] # NoObject
      /\ channelNames[c] \in Name \cup {Unnamed} /\ d \in Id
  BY DEF SpareInv, NamesakesOverlap, Known, TypeOK
<1>2. delegators[d][1] = d
  <2>1. delegators[d] = <<d, built[d]>>
    BY <1>1 DEF Agreement, LastBuilt
  <2> QED BY <2>1
<1>3. controllers[channelNames[c]] # delegators[d]
  <2> SUFFICES ASSUME controllers[channelNames[c]] = delegators[d] PROVE FALSE
    OBVIOUS
  <2>1. channelNames[controllers[channelNames[c]][1]] = channelNames[c]
    BY <1>1 DEF Agreement, ListedAreKnown
  <2> QED BY <1>1, <1>2, <2>1
<1> QED BY <1>3 DEF RemoveController

(* The steps of the thread that reads.                                     *)
LEMMA ReadShown ==
  ASSUME TypeOK, Agreement, SpareInv, ShownInv, [Next]_vars, PollAndRead
  PROVE  ShownInv'
<1>1. PICK p \in Thread :
        /\ messagesOut[p] # <<>>
        /\ LET m == Head(messagesOut[p])
           IN  NotifyMapping(m) \/ Fill(m) \/ NotifyNoUx(m) \/ NotifyTermination(m)
               \/ Ignore(m)
        /\ messagesOut' = [messagesOut EXCEPT ![p] = Tail(@)]
  BY DEF PollAndRead
<1>2. PICK m : m = Head(messagesOut[p])
  OBVIOUS
<1>3. m \in Message
  BY <1>1, <1>2, HeadTailProperties DEF TypeOK
<1>4. /\ Queued(m)
      /\ \A k : Queued(k)' => Queued(k)
      /\ \A k : Queued(k) => Queued(k)' \/ k = m
  BY <1>1, <1>2, ReadQueued
<1>5. NotifyMapping(m) \/ Fill(m) \/ NotifyNoUx(m) \/ NotifyTermination(m) \/ Ignore(m)
  BY <1>1, <1>2
<1>6. UNCHANGED <<status, withUi, subs, crashed>> /\ ~crashed
  BY DEF PollAndRead, run
<1>7. PICK c \in Id : c = m.from
  BY <1>3, MessageIs
<1>8. Honest(m)
  BY <1>4 DEF Queued, SpareInv, HonestQueues
<1>9. \A d \in Id : /\ Introduced(d)' => Introduced(d)
                    /\ Introduced(d) => \/ Introduced(d)'
                                        \/ d = c /\ m.kind = "mapping"
  BY <1>4, <1>7, Fields DEF Introduced
<1>10. \A d \in Id : Heard(d) /\ Alone(d)' => Alone(d)
  BY HeardConnected, AloneKept
<1>11. \A d \in Id : Queued(Gone(d))' => status'[d] = "destroyed"
  BY <1>4, <1>6 DEF ShownInv, SaysTrue
<1>12. \A d \in Id, n \in Name \cup {Unnamed} :
         Queued(Mapping(d, n))' => n \in {NameOf[d], Unnamed}
  BY <1>4 DEF ShownInv, SaysTrue
<1>13. Known \subseteq Id /\ \A d \in Known : Heard(d)
  BY DEF Known, Heard
(* While nobody becomes known or is forgotten.                             *)
<1>14. ASSUME Known' = Known, channelNames' = channelNames,
              m.kind = "mapping" => c \in Known
       PROVE  /\ RegisteredHeard' /\ HeardSubscribed'
              /\ \A d \in Known' : channelNames'[d] \in {NameOf[d], Unnamed}
  <2>1. \A d \in Id : Heard(d)' <=> Heard(d)
    BY <1>9, <1>14 DEF Heard
  <2> QED BY <1>6, <1>10, <1>14, <2>1
          DEF ShownInv, RegisteredHeard, HeardSubscribed, SaysTrue
<1>15. CASE NotifyMapping(m)
  <2>1. /\ m.kind = "mapping" /\ c \notin Known
        /\ delegators' = [delegators EXCEPT ![c] = <<c, built[c] + 1>>]
        /\ channelNames' = [channelNames EXCEPT ![c] = m.name]
        /\ asked' = asked \cup {c} /\ overlapped \subseteq overlapped'
        /\ UNCHANGED <<leaving, filled>>
    BY <1>7, <1>15 DEF NotifyMapping, Fresh, Asked
  <2>2. <<c, built[c] + 1>> # NoObject
    BY UxControllersAssumption DEF TypeOK, Object
  <2>3. Known' = Known \cup {c}
    BY <2>1, <2>2 DEF Known, TypeOK
  <2>4. m = Mapping(c, m.name) /\ m.name \in Name \cup {Unnamed} /\ Introduced(c)
    BY <1>3, <1>4, <1>7, <2>1, MessageIs DEF Introduced
  <2>5. \A d \in Id : Heard(d)' <=> Heard(d)
    BY <1>9, <2>3, <2>4 DEF Heard
  <2>6. SaysTrue'
    <3>1. m.name \in {NameOf[c], Unnamed}
      BY <1>4, <2>4 DEF ShownInv, SaysTrue
    <3>2. \A d \in Known' : channelNames'[d] \in {NameOf[d], Unnamed}
      BY <1>13, <2>1, <2>3, <3>1 DEF ShownInv, SaysTrue, TypeOK
    <3> QED BY <1>11, <1>12, <2>1, <3>2, LeavingKept DEF ShownInv, SaysTrue
  <2>7. RegisteredHeard' /\ HeardSubscribed'
    BY <1>6, <1>10, <2>5 DEF ShownInv, RegisteredHeard, HeardSubscribed
  <2>8. KnownAsked'
    <3> SUFFICES ASSUME NEW d \in Known' \ overlapped', Alone(d)'
                 PROVE  d \in asked' \/ Queued(State(d))' \/ delegators'[d] \in filled'
      BY DEF KnownAsked
    <3>1. CASE d = c
      BY <2>1, <3>1
    <3>2. CASE d # c
      <4>1. d \in Known \ overlapped /\ d \in Id /\ Alone(d)
        BY <1>10, <1>13, <2>1, <2>3, <3>2
      <4>2. Queued(State(d)) => Queued(State(d))'
        BY <1>4, <2>1, Fields
      <4> QED BY <1>6, <2>1, <3>2, <4>1, <4>2 DEF ShownInv, KnownAsked, TypeOK
    <3> QED BY <3>1, <3>2
  <2> QED BY <2>6, <2>7, <2>8 DEF ShownInv
<1>16. CASE Fill(m)
  <2>1. /\ m.kind = "state" /\ c \in Known /\ filled' = filled \cup {delegators[c]}
        /\ UNCHANGED <<asked, leaving, delegators, channelNames, overlapped>>
    BY <1>7, <1>16 DEF Fill
  <2>2. Known' = Known
    BY <2>1 DEF Known
  <2>3. m = State(c)
    BY <1>3, <1>7, <2>1, MessageIs
  <2>4. KnownAsked'
    <3> SUFFICES ASSUME NEW d \in Known' \ overlapped', Alone(d)'
                 PROVE  d \in asked' \/ Queued(State(d))' \/ delegators'[d] \in filled'
      BY DEF KnownAsked
    <3>1. d \in Known \ overlapped /\ d \in Id /\ Alone(d)
      BY <1>10, <1>13, <2>1, <2>2
    <3>2. Queued(State(d)) => Queued(State(d))' \/ d = c
      BY <1>4, <2>3, Fields
    <3> QED BY <1>6, <2>1, <3>1, <3>2 DEF ShownInv, KnownAsked
  <2>5. /\ RegisteredHeard' /\ HeardSubscribed'
        /\ \A d \in Known' : channelNames'[d] \in {NameOf[d], Unnamed}
    BY <1>14, <2>1, <2>2
  <2>6. SaysTrue'
    BY <1>11, <1>12, <2>1, <2>5, LeavingKept DEF ShownInv, SaysTrue
  <2> QED BY <2>4, <2>5, <2>6 DEF ShownInv
<1>17. CASE NotifyNoUx(m)
  <2>1. /\ m.kind = "noUx" /\ c \in Known /\ c \notin withUi /\ status[c] # "new"
        /\ UNCHANGED <<asked, delegators, channelNames, overlapped>>
    BY <1>7, <1>8, <1>17 DEF NotifyNoUx, Honest
  <2>2. Known' = Known
    BY <2>1 DEF Known
  <2>3. /\ RegisteredHeard' /\ HeardSubscribed'
        /\ \A d \in Known' : channelNames'[d] \in {NameOf[d], Unnamed}
    BY <1>14, <2>1, <2>2
  <2>4. \A n \in leaving' :
          \E d \in Id \ withUi' : NameOf[d] = n /\ status'[d] # "new"
    <3>1. CASE ~HasName(c)
      BY <1>7, <1>17, <3>1, LeavingKept DEF NotifyNoUx, ShownInv
    <3>2. CASE HasName(c)
      <4>1. leaving' = leaving \cup {channelNames[c]}
        BY <1>7, <1>17, <3>2 DEF NotifyNoUx
      <4>2. channelNames[c] = NameOf[c]
        BY <2>1, <3>2 DEF HasName, ShownInv, SaysTrue
      <4> QED BY <1>6, <2>1, <4>1, <4>2 DEF ShownInv, SaysTrue
    <3> QED BY <3>1, <3>2
  <2>5. SaysTrue'
    BY <1>11, <1>12, <2>3, <2>4 DEF SaysTrue
  <2>6. KnownAsked'
    <3> SUFFICES ASSUME NEW d \in Known' \ overlapped', Alone(d)'
                 PROVE  d \in asked' \/ Queued(State(d))' \/ delegators'[d] \in filled'
      BY DEF KnownAsked
    <3>1. d \in Known \ overlapped /\ d \in Id /\ Alone(d) /\ d # c
      BY <1>10, <1>13, <2>1, <2>2 DEF Alone
    <3>2. Queued(State(d)) => Queued(State(d))'
      BY <1>4, <2>1, Fields
    <3>3. delegators[d] \in filled => delegators[d] \in filled'
      <4>1. CASE HasName(c)
        <5>1. RemoveController(channelNames[c])
          BY <1>7, <1>17, <4>1 DEF NotifyNoUx
        <5> QED BY <2>1, <3>1, <5>1, FilledSpared
      <4>2. CASE ~HasName(c)
        BY <1>7, <1>17, <4>2 DEF NotifyNoUx
      <4> QED BY <4>1, <4>2
    <3> QED BY <1>6, <2>1, <3>1, <3>2, <3>3 DEF ShownInv, KnownAsked
  <2> QED BY <2>3, <2>5, <2>6 DEF ShownInv
<1>18. CASE NotifyTermination(m)
  <2>1. /\ m.kind = "gone" /\ c \in Known /\ RemoveController(channelNames[c])
        /\ delegators' = [delegators EXCEPT ![c] = NoObject]
        /\ channelNames' = [channelNames EXCEPT ![c] = Unnamed]
        /\ UNCHANGED <<asked, leaving, overlapped>>
    BY <1>7, <1>18 DEF NotifyTermination, NameKept
  <2>2. Known' = Known \ {c}
    BY <1>13, <2>1 DEF Known, TypeOK
  <2>3. status[c] = "destroyed"
    <3>1. m = Gone(c)
      BY <1>3, <1>7, <2>1, MessageIs
    <3> QED BY <1>4, <3>1 DEF ShownInv, SaysTrue
  <2>4. \A d \in Id : /\ Heard(d)' => Heard(d)
                      /\ d # c => (Heard(d) => Heard(d)')
    BY <1>9, <2>2 DEF Heard
  <2>5. SaysTrue'
    <3>1. \A d \in Known' : channelNames'[d] \in {NameOf[d], Unnamed}
      BY <1>13, <2>1, <2>2 DEF ShownInv, SaysTrue, TypeOK
    <3> QED BY <1>11, <1>12, <2>1, <3>1, LeavingKept DEF ShownInv, SaysTrue
  <2>6. RegisteredHeard'
    BY <1>6, <2>3, <2>4 DEF ShownInv, RegisteredHeard
  <2>7. HeardSubscribed'
    BY <1>6, <1>10, <2>4 DEF ShownInv, HeardSubscribed
  <2>8. KnownAsked'
    <3> SUFFICES ASSUME NEW d \in Known' \ overlapped', Alone(d)'
                 PROVE  d \in asked' \/ Queued(State(d))' \/ delegators'[d] \in filled'
      BY DEF KnownAsked
    <3>1. d \in Known \ overlapped /\ d \in Id /\ Alone(d) /\ d # c
      BY <1>10, <1>13, <2>1, <2>2
    <3>2. Queued(State(d)) => Queued(State(d))'
      BY <1>4, <2>1, Fields
    <3>3. delegators[d] \in filled => delegators[d] \in filled'
      BY <2>1, <3>1, FilledSpared
    <3>4. delegators'[d] = delegators[d]
      BY <2>1, <3>1 DEF TypeOK
    <3> QED BY <1>6, <2>1, <3>1, <3>2, <3>3, <3>4 DEF ShownInv, KnownAsked
  <2> QED BY <2>5, <2>6, <2>7, <2>8 DEF ShownInv
<1>19. CASE Ignore(m)
  <2>1. /\ (m.kind = "mapping") <=> (c \in Known)
        /\ UNCHANGED <<asked, leaving, delegators, channelNames, filled, overlapped>>
    BY <1>7, <1>19 DEF Ignore, service
  <2>2. Known' = Known
    BY <2>1 DEF Known
  <2>3. /\ RegisteredHeard' /\ HeardSubscribed'
        /\ \A d \in Known' : channelNames'[d] \in {NameOf[d], Unnamed}
    BY <1>14, <2>1, <2>2
  <2>4. SaysTrue'
    BY <1>11, <1>12, <2>1, <2>3, LeavingKept DEF ShownInv, SaysTrue
  <2>5. KnownAsked'
    <3> SUFFICES ASSUME NEW d \in Known' \ overlapped', Alone(d)'
                 PROVE  d \in asked' \/ Queued(State(d))' \/ delegators'[d] \in filled'
      BY DEF KnownAsked
    <3>1. d \in Known \ overlapped /\ d \in Id /\ Alone(d)
      BY <1>10, <1>13, <2>1, <2>2
    <3>2. Queued(State(d)) => Queued(State(d))'
      BY <1>4, <1>7, <2>1, <3>1, Fields
    <3> QED BY <1>6, <2>1, <3>1, <3>2 DEF ShownInv, KnownAsked
  <2> QED BY <2>3, <2>4, <2>5 DEF ShownInv
<1> QED BY <1>5, <1>15, <1>16, <1>17, <1>18, <1>19

LEMMA ShownStep ==
  ASSUME TypeOK, Agreement, SpareInv, ShownInv, [Next]_vars
  PROVE  ShownInv'
<1>1. ASSUME NEW c \in Id, NEW ui \in BOOLEAN, Connect(c, ui) PROVE ShownInv'
  <2>1. \A d \in Id : status'[d] = "registered" => status[d] = "registered"
    BY <1>1 DEF Connect, TypeOK
  <2> QED BY <1>1, <2>1, QuietShown DEF Connect, run
<1>2. ASSUME NEW c \in Id, RemoveConnection(c) PROVE ShownInv'
  <2>1. \A d \in Id : status'[d] = "registered" => status[d] = "registered"
    BY <1>2 DEF RemoveConnection, TypeOK
  <2> QED BY <1>2, <2>1, QuietShown DEF RemoveConnection, run
<1>3. ASSUME NEW c \in Id, Register(c) \/ Destroy(c) \/ Answer(c) PROVE ShownInv'
  BY <1>3, RegisterShown, DestroyShown, AnswerShown
<1>4. ASSUME NEW n \in Name, Unsubscribe(n) PROVE ShownInv'
  BY <1>4, UnsubscribeShown
<1>5. ASSUME NEW r \in Request, NEW n \in Name, GetController(r, n) PROVE ShownInv'
  BY <1>5, QuietShown DEF GetController, broker, run
<1>6. ASSUME NEW r \in Request, GetUpdates(r) PROVE ShownInv'
  BY <1>6, QuietShown DEF GetUpdates, broker
<1>7. CASE UNCHANGED vars
  BY <1>7, QuietShown DEF vars, broker, run
<1> QED BY <1>1, <1>2, <1>3, <1>4, <1>5, <1>6, <1>7, RestartShown, ReadShown DEF Next

(* Everyone that is registered is heard of, subscribed to and asked for its*)
(* controls (registerChannel, subscribe, requestState).                    *)
THEOREM DevicesAreHeard == Spec => [](SpareInv /\ ShownInv)
<1>1. Init => SpareInv /\ ShownInv
  <2> SUFFICES ASSUME Init PROVE SpareInv /\ ShownInv
    OBVIOUS
  <2>1. \A m : ~Queued(m)
    BY DEF Init, Queued
  <2>2. Known = {} /\ leaving = {} /\ \A c \in Id : status[c] = "new"
    BY DEF Init, Known
  <2>3. SpareInv
    BY DEF Init, SpareInv, HonestQueues, KnownConnected, NamesakesOverlap,
           OthersSpared, Known
  <2>4. ShownInv
    BY <2>1, <2>2 DEF ShownInv, SaysTrue, RegisteredHeard, HeardSubscribed,
                      KnownAsked, Heard, Introduced
  <2> QED BY <2>3, <2>4
<1>2. IInv /\ SpareInv /\ ShownInv /\ [Next]_vars => SpareInv' /\ ShownInv'
  BY SpareStep, ShownStep DEF IInv, Agreement
<1> QED BY <1>1, <1>2, UxControllersInvariant, PTL DEF Spec

(* With every message read and every question answered, each registered    *)
(* device with a user interface is listed under the name it is known by,   *)
(* and its controller has its controls: also if the service crashed and    *)
(* was started again, or the device registered while it was down; unless a *)
(* namesake was known with it or left.                                     *)
QueuesEmpty == \A p \in Thread : messagesOut[p] = <<>>

AllShown ==
  (~crashed /\ QueuesEmpty /\ asked = {}) =>
    \A c \in withUi \ overlapped :
      (status[c] = "registered" /\ ~HasNamesake(c)) =>
        Listed(c) /\ delegators[c] \in filled

(* At rest the browser shows every device (UxControllers::provide,         *)
(* UxChannelParserDelegator): the safety that DevicesAppear rests on.      *)
THEOREM RestingListIsComplete == Spec => []AllShown
<1>1. TypeOK /\ SpareInv /\ ShownInv => AllShown
  <2> SUFFICES ASSUME TypeOK, SpareInv, ShownInv, ~crashed, QueuesEmpty, asked = {},
                      NEW c \in withUi \ overlapped, status[c] = "registered",
                      ~HasNamesake(c)
               PROVE  Listed(c) /\ delegators[c] \in filled
    BY DEF AllShown
  <2>1. c \in Id /\ Alone(c)
    BY DEF TypeOK, Alone, Alive
  <2>2. \A m : ~Queued(m)
    BY DEF QueuesEmpty, Queued
  <2>3. c \in Known
    BY <2>1, <2>2 DEF ShownInv, RegisteredHeard, Heard, Introduced
  <2>4. delegators[c] \in filled
    BY <2>1, <2>2, <2>3 DEF ShownInv, KnownAsked
  <2> QED BY <2>3, <2>4 DEF SpareInv, OthersSpared
<1> QED BY <1>1, DevicesAreHeard, UxControllersTypesCorrect, PTL

-----------------------------------------------------------------------------
(* The termination of c is on its way, and nothing that introduces it.     *)
Leaving(c) == Queued(Gone(c)) /\ ~Introduced(c)

IsListed(c) ==
  \E n \in Name \cup {Unnamed} : controllers[n] # NoObject /\ controllers[n][1] = c

Vanished(c) ==
  status[c] = "destroyed" /\ ~Introduced(c) /\ c \notin Known /\ ~IsListed(c)

(* A device whose termination overtakes no introduction is forgotten when  *)
(* the service reads it, or when the service restarts before that, and     *)
(* neither another run of the service nor a namesake brings it back.       *)
LeavingIsFinal ==
  \A c \in Id : /\ Leaving(c) => (Leaving(c)' \/ Vanished(c)')
                /\ Vanished(c) => Vanished(c)'

(* Who is not known is not listed.                                         *)
LEMMA UnknownUnlisted ==
  ASSUME TypeOK, ListedAreKnown, NEW c \in Id, c \notin Known
  PROVE  ~IsListed(c)
BY DEF IsListed, ListedAreKnown, Known

(* A device that left disappears from the list for good (clearSubscriptions*)
(* of ~Connection, notifyTermination): the safety that LeaversVanish rests *)
(* on.                                                                     *)
THEOREM LeaversStayAway == Spec => [][LeavingIsFinal]_vars
<1>1. IInv /\ IInv' /\ SpareInv /\ ShownInv /\ [Next]_vars => [LeavingIsFinal]_vars
  <2> SUFFICES ASSUME IInv, IInv', SpareInv, ShownInv, Next, NEW c \in Id,
                      Leaving(c) \/ Vanished(c)
               PROVE  /\ Leaving(c) => (Leaving(c)' \/ Vanished(c)')
                      /\ Vanished(c) => Vanished(c)'
    BY DEF LeavingIsFinal
  <2>1. /\ TypeOK /\ TypeOK' /\ ListedAreKnown' /\ ~Introduced(c)
        /\ status[c] = "destroyed"
    BY DEF IInv, ShownInv, SaysTrue, Leaving, Vanished
  <2>2. status'[c] = "destroyed"
    BY <2>1, DestroyedKept
  <2>3. c \notin Known' => ~IsListed(c)'
    BY <2>1 DEF IsListed, ListedAreKnown, Known
  <2>4. ASSUME UNCHANGED <<messagesOut, delegators>>
        PROVE  Introduced(c)' = Introduced(c) /\ Known' = Known
               /\ \A m : Queued(m)' <=> Queued(m)
    BY <2>4 DEF Introduced, Queued, Known
  <2>5. ASSUME ~Introduced(c)', Known' = Known, Queued(Gone(c)) => Queued(Gone(c))'
        PROVE  /\ Leaving(c) => (Leaving(c)' \/ Vanished(c)')
               /\ Vanished(c) => Vanished(c)'
    BY <2>2, <2>3, <2>5 DEF Leaving, Vanished
  <2>6. CASE UNCHANGED <<messagesOut, delegators>>
    BY <2>1, <2>4, <2>5, <2>6
  <2>7. ASSUME NEW d \in Id, Register(d)
        PROVE  /\ Leaving(c) => (Leaving(c)' \/ Vanished(c)')
               /\ Vanished(c) => Vanished(c)'
    <3>1. \A m : Queued(m)' <=> Queued(m) \/ (~crashed /\ m = Mapping(d, NameOf[d]))
      BY <2>1, <2>7, RegisterQueued
    <3>2. d # c /\ Known' = Known
      BY <2>1, <2>7 DEF Register, Known, service
    <3>3. ~Introduced(c)'
      <4>1. \A n : Mapping(c, n) # Mapping(d, NameOf[d])
        BY <3>2, Apart
      <4> QED BY <2>1, <3>1, <4>1 DEF Introduced
    <3> QED BY <2>5, <3>1, <3>2, <3>3
  <2>8. ASSUME NEW d \in Id, Destroy(d)
        PROVE  /\ Leaving(c) => (Leaving(c)' \/ Vanished(c)')
               /\ Vanished(c) => Vanished(c)'
    <3>1. /\ \A m : Queued(m) => Queued(m)'
          /\ \A m : Queued(m)' => Queued(m) \/ m = Gone(d)
      BY <2>1, <2>8, DestroyQueued
    <3>2. Known' = Known
      BY <2>8 DEF Destroy, Known, service
    <3>3. ~Introduced(c)'
      <4>1. \A n : /\ Mapping(c, n) # State(d) /\ Mapping(c, n) # NoUx(d)
                   /\ Mapping(c, n) # Gone(d)
        BY Apart
      <4> QED BY <2>1, <3>1, <4>1 DEF Introduced
    <3> QED BY <2>5, <3>1, <3>2, <3>3
  <2>9. ASSUME NEW d \in Id, Answer(d)
        PROVE  /\ Leaving(c) => (Leaving(c)' \/ Vanished(c)')
               /\ Vanished(c) => Vanished(c)'
    <3>1. /\ \A m : Queued(m) => Queued(m)'
          /\ \A m : Queued(m)' => Queued(m) \/ m \in {State(d), NoUx(d)}
      BY <2>1, <2>9, AnswerQueued
    <3>2. Known' = Known
      BY <2>9 DEF Answer, Known, service
    <3>3. ~Introduced(c)'
      <4>1. \A n : /\ Mapping(c, n) # State(d) /\ Mapping(c, n) # NoUx(d)
                   /\ Mapping(c, n) # Gone(d)
        BY Apart
      <4> QED BY <2>1, <3>1, <4>1 DEF Introduced
    <3> QED BY <2>5, <3>1, <3>2, <3>3
  <2>10. CASE Restart
    <3>1. \A m : Queued(m)' <=> \E d \in Alive : m = Introduction(d)
      BY <2>1, <2>10, RestartQueued
    <3>2. c \notin Alive
      BY <2>1 DEF Alive
    <3>3. ~Introduced(c)'
      <4>1. \A d \in Alive : \A n : Mapping(c, n) # Introduction(d)
        BY <3>2, Apart DEF Introduction
      <4> QED BY <3>1, <4>1 DEF Introduced
    <3>4. Known' = {}
      BY <2>10 DEF Restart, NothingKnown, Known
    <3> QED BY <2>2, <2>3, <3>3, <3>4 DEF Vanished
  <2>11. CASE PollAndRead
    <3>1. PICK p \in Thread :
            /\ messagesOut[p] # <<>>
            /\ LET m == Head(messagesOut[p])
               IN  NotifyMapping(m) \/ Fill(m) \/ NotifyNoUx(m) \/ NotifyTermination(m)
                   \/ Ignore(m)
            /\ messagesOut' = [messagesOut EXCEPT ![p] = Tail(@)]
      BY <2>11 DEF PollAndRead
    <3>2. PICK m : m = Head(messagesOut[p])
      OBVIOUS
    <3>3. m \in Message
      BY <2>1, <3>1, <3>2, HeadTailProperties DEF TypeOK
    <3>4. /\ Queued(m)
          /\ \A k : Queued(k)' => Queued(k)
          /\ \A k : Queued(k) => Queued(k)' \/ k = m
      BY <2>1, <3>1, <3>2, ReadQueued
    <3>5. NotifyMapping(m) \/ Fill(m) \/ NotifyNoUx(m) \/ NotifyTermination(m) \/ Ignore(m)
      BY <3>1, <3>2
    <3>6. ~Introduced(c)'
      BY <2>1, <3>4 DEF Introduced
    <3>7. ~(m.kind = "mapping" /\ m.from = c)
      BY <2>1, <3>3, <3>4, MessageIs DEF Introduced
    <3>8. c \notin Known => c \notin Known'
      <4>1. c \notin Known => delegators'[c] = delegators[c]
        BY <2>1, <3>5, <3>7 DEF NotifyMapping, Fill, NotifyNoUx, NotifyTermination,
                                Ignore, Known, service, TypeOK
      <4> QED BY <4>1 DEF Known
    <3>9. m = Gone(c) => c \notin Known'
      <4> SUFFICES ASSUME m = Gone(c) PROVE c \notin Known'
        OBVIOUS
      <4>1. m.kind = "gone" /\ m.from = c
        BY Fields
      <4>2. CASE c \in Known
        <5>1. NotifyTermination(m)
          BY <3>5, <4>1, <4>2 DEF NotifyMapping, Fill, NotifyNoUx, Ignore
        <5> QED BY <2>1, <4>1, <5>1 DEF NotifyTermination, Known, TypeOK
      <4> QED BY <3>8, <4>2
    <3> QED BY <2>2, <2>3, <3>4, <3>6, <3>8, <3>9 DEF Leaving, Vanished
  <2> QED BY <2>6, <2>7, <2>8, <2>9, <2>10, <2>11
      DEF Next, Connect, RemoveConnection, Unsubscribe, GetController, GetUpdates, service
<1> QED BY <1>1, UxControllersInvariant, DevicesAreHeard, PTL DEF Spec
=============================================================================
