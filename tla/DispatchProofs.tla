--------------------------- MODULE DispatchProofs ---------------------------
(***************************************************************************)
(* Theorems of Dispatch, for every set of ids, names, types and roles.     *)
(***************************************************************************)
EXTENDS Dispatch, TLAPS

(* Every value a step stores in told or task has its type.                 *)
LEMMA MessageTypes ==
  ASSUME NEW c \in Id
  PROVE  /\ \A n : ChannelMsg(c, n) \in Message
         /\ \A t \in Types : TypeMsg(c, t) \in Message
         /\ GoneMsg(c) \in Message
BY DEF ChannelMsg, TypeMsg, GoneMsg, Message

(* Every task a step assigns is a task.                                    *)
LEMMA TaskTypes ==
  /\ Idle \in Task
  /\ \A n \in Name : Registering(n) \in Task
  /\ \A t \in Id : Subscribing(t) \in Task /\ Leaving(t) \in Task
  /\ \A t \in Types : Forwarding(t) \in Task
BY DEF Idle, Registering, Subscribing, Leaving, Forwarding, Task

(* What the argument of a pending task is, by its kind.                    *)
LEMMA TaskArgs ==
  ASSUME NEW k \in Task
  PROVE  /\ k.op = "register" => k.arg \in Name /\ k = Registering(k.arg)
         /\ k.op = "subscribe" => k.arg \in Id /\ k = Subscribing(k.arg)
         /\ k.op = "unsubscribe" => k.arg \in Id /\ k = Leaving(k.arg)
         /\ k.op = "forward" => k.arg \in Types /\ k = Forwarding(k.arg)
BY DEF Idle, Registering, Subscribing, Leaving, Forwarding, Task

(* What sendMappings puts on a queue are messages.                         *)
LEMMA IntroductionType ==
  ASSUME TypeOK, NEW c \in Id, NEW n
  PROVE  Introduction(c, n) \subseteq Message
BY MessageTypes DEF Introduction, TypeOK

(* So is what registerSubscription puts on the queue of one subscriber.    *)
LEMMA WelcomeType ==
  ASSUME TypeOK, NEW pairs, NEW s \in Id, NEW names
  PROVE  Welcome(pairs, s, names) \subseteq Message
BY IntroductionType DEF Welcome

(* Releasing handles keeps the types of what it changes.                   *)
LEMMA ReleaseTypes ==
  ASSUME TypeOK, NEW roots, NEW sb \in [Id -> SUBSET Id],
         NEW q \in [Id -> SUBSET Message], Release(roots, sb, q)
  PROVE  /\ destroyed' \subseteq Id
         /\ running' \subseteq Id
         /\ subs' \in [Id -> SUBSET Id]
         /\ told' \in [Id -> SUBSET Message]
<1> DEFINE dying == Existing \ Kept(roots, sb)
<1>1. dying \subseteq Id
  BY DEF Existing, TypeOK
<1>2. \A s \in Id : Notices(dying, sb, s) \subseteq Message
  BY <1>1, MessageTypes DEF Notices
<1>3. /\ destroyed' = destroyed \cup dying
      /\ running' = running \ dying
      /\ subs' = [c \in Id |-> IF c \in dying THEN {} ELSE sb[c]]
      /\ told' = [s \in Id |-> q[s] \cup Notices(dying, sb, s)]
  BY DEF Release
<1> HIDE DEF dying
<1>4. QED
  BY <1>1, <1>2, <1>3 DEF TypeOK

(* registerSubscription keeps the types of subs and sentMapping.           *)
LEMMA SubscribedTypes ==
  ASSUME TypeOK, NEW pairs
  PROVE  /\ Subscribed(pairs) \in [Id -> SUBSET Id]
         /\ Introduced(pairs) \in [Id -> SUBSET Id]
BY DEF TypeOK, Subscribed, Introduced, Joining

(* Every step of the broker keeps every variable in its type.              *)
LEMMA TypeStep == TypeOK /\ [Next]_vars => TypeOK'
<1> SUFFICES ASSUME TypeOK, [Next]_vars PROVE TypeOK'
  OBVIOUS
<1> USE TaskTypes
<1>1. ASSUME NEW c \in Id, AddConnection(c) PROVE TypeOK'
  BY <1>1 DEF AddConnection, TypeOK
<1>2. ASSUME NEW c \in Id, Interrupted(c) PROVE TypeOK'
  BY <1>2 DEF Interrupted, TypeOK
<1>3. ASSUME NEW c \in Id, RegisterChannel(c) PROVE TypeOK'
  <2>1. PICK b \in Base, k \in 0..MaxSuffix :
          /\ connectionMapping' = [connectionMapping EXCEPT ![<<b, k>>] = c]
          /\ task' = [task EXCEPT ![c] = Registering(<<b, k>>)]
    BY <1>3 DEF RegisterChannel
  <2>2. <<b, k>> \in Name
    BY DEF Name
  <2>3. QED
    BY <1>3, <2>1, <2>2 DEF RegisterChannel, TypeOK
<1>4. ASSUME NEW c \in Id, FinishRegisterChannel(c) PROVE TypeOK'
  <2> DEFINE pairs == {c} \X Followers(c)
  <2>1. task[c].arg \in Name
    BY <1>4, TaskArgs DEF FinishRegisterChannel, TypeOK
  <2>2. name' \in [Id -> Name \cup {Unnamed}]
    BY <1>4, <2>1 DEF FinishRegisterChannel, TypeOK
  <2>3. \A s \in Id : Announcement(c, task[c].arg, s) \subseteq Message
    BY MessageTypes DEF Announcement
  <2>4. \A s \in Id : Welcome(pairs, s, name') \subseteq Message
    BY WelcomeType
  <2>5. told' \in [Id -> SUBSET Message]
    BY <1>4, <2>3, <2>4 DEF FinishRegisterChannel, TypeOK
  <2>6. subs' \in [Id -> SUBSET Id] /\ sentMapping' \in [Id -> SUBSET Id]
    BY <1>4, SubscribedTypes DEF FinishRegisterChannel
  <2>7. QED
    BY <1>4, <2>2, <2>5, <2>6 DEF FinishRegisterChannel, TypeOK
<1>5. ASSUME NEW s \in Id, SubscribeAll(s) PROVE TypeOK'
  <2> DEFINE pairs == AllOthers(s) \X {s}
  <2>1. told' \in [Id -> SUBSET Message]
    BY <1>5, WelcomeType DEF SubscribeAll, TypeOK
  <2>2. subs' \in [Id -> SUBSET Id] /\ sentMapping' \in [Id -> SUBSET Id]
    BY <1>5, SubscribedTypes DEF SubscribeAll
  <2>3. QED
    BY <1>5, <2>1, <2>2 DEF SubscribeAll, TypeOK
<1>6. ASSUME NEW s \in Id, NEW n \in Name, Subscribe(s, n) \/ Unsubscribe(s, n)
      PROVE  TypeOK'
  <2>1. connectionMapping[n] \in Id
    BY <1>6 DEF Subscribe, Unsubscribe, TypeOK
  <2>2. QED
    BY <1>6, <2>1 DEF Subscribe, Unsubscribe, TypeOK
<1>7. ASSUME NEW s \in Id, FinishSubscribe(s) PROVE TypeOK'
  <2> DEFINE t == task[s].arg
             pairs == {<<t, s>>}
             roots == connections \cup subscribedToAll \cup Handles(task')
             queued == [told EXCEPT ![s] = @ \cup {ChannelMsg(t, name[t])}
                                             \cup Welcome(pairs, s, name)]
  <2>1. t \in Id
    BY <1>7, TaskArgs DEF FinishSubscribe, TypeOK
  <2>2. queued \in [Id -> SUBSET Message]
    BY <2>1, MessageTypes, WelcomeType DEF TypeOK
  <2>3. Release(roots, Subscribed(pairs), queued)
    BY <1>7 DEF FinishSubscribe
  <2> HIDE DEF queued, roots
  <2>4. /\ destroyed' \subseteq Id
        /\ running' \subseteq Id
        /\ subs' \in [Id -> SUBSET Id]
        /\ told' \in [Id -> SUBSET Message]
    BY <2>2, <2>3, SubscribedTypes, ReleaseTypes
  <2>5. sentMapping' \in [Id -> SUBSET Id]
    BY <1>7, SubscribedTypes DEF FinishSubscribe
  <2>6. QED
    BY <1>7, <2>4, <2>5 DEF FinishSubscribe, TypeOK
<1>8. ASSUME NEW s \in Id, FinishUnsubscribe(s) PROVE TypeOK'
  <2> DEFINE t == task[s].arg
             roots == connections \cup subscribedToAll \cup Handles(task')
             left == [subs EXCEPT ![t] = @ \ {s}]
  <2>1. t \in Id
    BY <1>8, TaskArgs DEF FinishUnsubscribe, TypeOK
  <2>2. left \in [Id -> SUBSET Id]
    BY <2>1 DEF TypeOK
  <2>3. Release(roots, left, told)
    BY <1>8 DEF FinishUnsubscribe
  <2> HIDE DEF left, roots
  <2>4. /\ destroyed' \subseteq Id
        /\ running' \subseteq Id
        /\ subs' \in [Id -> SUBSET Id]
        /\ told' \in [Id -> SUBSET Message]
    BY <2>2, <2>3, ReleaseTypes DEF TypeOK
  <2>5. sentMapping' \in [Id -> SUBSET Id]
    BY <1>8, <2>1 DEF FinishUnsubscribe, SentMappingWithout, TypeOK
  <2>6. QED
    BY <1>8, <2>4, <2>5 DEF FinishUnsubscribe, TypeOK
<1>9. ASSUME NEW c \in Id, NEW t \in Types, RegisterMapping(c, t) PROVE TypeOK'
  BY <1>9 DEF RegisterMapping, TypeOK
<1>10. ASSUME NEW c \in Id, FinishRegisterMapping(c) PROVE TypeOK'
  <2>1. TypeMsg(c, task[c].arg) \in Message
    BY <1>10, TaskArgs, MessageTypes DEF FinishRegisterMapping, TypeOK
  <2>2. QED
    BY <1>10, <2>1 DEF FinishRegisterMapping, TypeOK
<1>11. ASSUME NEW c \in Id, NEW r \in Id, SendTo(c, r) PROVE TypeOK'
  <2>1. told' \in [Id -> SUBSET Message]
    BY <1>11, IntroductionType DEF SendTo, TypeOK
  <2>2. QED
    BY <1>11, <2>1 DEF SendTo, TypeOK
<1>12. ASSUME CheckActiveConnections PROVE TypeOK'
  <2> DEFINE unsubs == UnsubscribedNoLock(Dead, connections')
             roots == connections' \cup subscribedToAll' \cup Handles(task)
             left == [c \in Id |-> IF c \in connections' THEN subs[c] \ unsubs
                                   ELSE subs[c]]
  <2>1. left \in [Id -> SUBSET Id]
    BY DEF TypeOK
  <2>2. Release(roots, left, told)
    BY <1>12 DEF CheckActiveConnections
  <2> HIDE DEF left, roots
  <2>3. /\ destroyed' \subseteq Id
        /\ running' \subseteq Id
        /\ subs' \in [Id -> SUBSET Id]
        /\ told' \in [Id -> SUBSET Message]
    BY <2>1, <2>2, ReleaseTypes DEF TypeOK
  <2>4. QED
    BY <1>12, <2>3 DEF CheckActiveConnections, Dead, MappingWithout, TypeOK
<1>13. CASE UNCHANGED vars
  BY <1>13 DEF vars, TypeOK
<1>14. QED
  BY <1>1, <1>2, <1>3, <1>4, <1>5, <1>6, <1>7, <1>8, <1>9, <1>10, <1>11, <1>12,
     <1>13 DEF Next, Request, Finish

(* Every variable has its type in every reachable state.                   *)
THEOREM TypeCorrect == Spec => []TypeOK
<1>1. Init => TypeOK
  BY TaskTypes DEF Init, TypeOK
<1>2. QED
  BY <1>1, TypeStep, PTL DEF Spec

-----------------------------------------------------------------------------
(* Lifetimes.                                                              *)

(* Reference counting keeps what is held from outside, and whatever a kept *)
(* object holds.                                                           *)
LEMMA KeptClosed ==
  ASSUME NEW roots, NEW sb
  PROVE  /\ Kept(roots, sb) \subseteq Existing
         /\ roots \cap Existing \subseteq Kept(roots, sb)
         /\ \A p \in Kept(roots, sb) : sb[p] \cap Existing \subseteq Kept(roots, sb)
<1>1. Kept(roots, sb) \subseteq Existing
  BY DEF Kept
<1>2. ASSUME NEW o \in roots \cap Existing PROVE o \in Kept(roots, sb)
  <2>1. {o} \in SUBSET Existing /\ \A x \in {o} : x \in roots
    OBVIOUS
  <2>2. QED
    BY <2>1 DEF Kept
<1>3. ASSUME NEW p \in Kept(roots, sb), NEW o \in sb[p] \cap Existing
      PROVE  o \in Kept(roots, sb)
  <2>1. PICK S \in SUBSET Existing :
          p \in S /\ \A x \in S : x \in roots \/ \E y \in S : x \in sb[y]
    BY DEF Kept
  <2>2. S \cup {o} \in SUBSET Existing
    OBVIOUS
  <2>3. \A x \in S \cup {o} : x \in roots \/ \E y \in S \cup {o} : x \in sb[y]
    BY <2>1
  <2>4. QED
    BY <2>2, <2>3 DEF Kept
<1>4. QED
  BY <1>1, <1>2, <1>3

(* After a release nothing that is left refers to what was destroyed, and  *)
(* only what was destroyed was announced as gone.                          *)
LEMMA ReleaseSafe ==
  ASSUME TypeOK, Lifecycle, NEW roots, NEW sb \in [Id -> SUBSET Id], NEW q,
         \A c \in Id : sb[c] \subseteq Existing /\ (c \notin Existing => sb[c] = {}),
         accepted' = accepted, Release(roots, sb, q)
  PROVE  /\ destroyed' \subseteq accepted' /\ destroyed \subseteq destroyed'
         /\ roots \cap Existing \subseteq Existing'
         /\ running \cap roots \subseteq running' /\ running' \subseteq running
         /\ \A c \in Id : /\ subs'[c] \subseteq Existing'
                          /\ c \notin Existing' => subs'[c] = {}
         /\ \A c, s \in Id :
              GoneMsg(c) \in told'[s] => GoneMsg(c) \in q[s] \/ c \in destroyed'
<1> DEFINE kept == Kept(roots, sb)
           dying == Existing \ kept
<1>1. /\ kept \subseteq Existing
      /\ roots \cap Existing \subseteq kept
      /\ \A p \in kept : sb[p] \cap Existing \subseteq kept
  BY KeptClosed
<1>2. /\ destroyed' = destroyed \cup dying
      /\ running' = running \ dying
      /\ subs' = [c \in Id |-> IF c \in dying THEN {} ELSE sb[c]]
      /\ told' = [s \in Id |-> q[s] \cup Notices(dying, sb, s)]
  BY DEF Release
<1> HIDE DEF kept
<1>3. Existing' = kept
  BY <1>1, <1>2 DEF Existing, Lifecycle
<1>4. ASSUME NEW c \in Id
      PROVE  /\ subs'[c] \subseteq Existing'
             /\ c \notin Existing' => subs'[c] = {}
  BY <1>1, <1>2, <1>3
<1>5. ASSUME NEW c \in Id, NEW s \in Id, GoneMsg(c) \in told'[s]
      PROVE  GoneMsg(c) \in q[s] \/ c \in destroyed'
  BY <1>2, <1>5 DEF Notices, GoneMsg
<1>6. destroyed' \subseteq accepted'
  BY <1>2 DEF Existing, Lifecycle
<1>7. roots \cap Existing \subseteq Existing'
  BY <1>1, <1>3
<1>8. running \cap roots \subseteq running'
  BY <1>1, <1>2
<1>9. QED
  BY <1>2, <1>4, <1>5, <1>6, <1>7, <1>8

(* Introductions and announcements are no termination notices.             *)
LEMMA NoGone ==
  ASSUME NEW d
  PROVE  /\ \A c, n : GoneMsg(d) \notin Introduction(c, n)
         /\ \A pairs, s, names : GoneMsg(d) \notin Welcome(pairs, s, names)
         /\ \A c, n, s : GoneMsg(d) \notin Announcement(c, n, s)
         /\ \A c, t : GoneMsg(d) # TypeMsg(c, t)
         /\ \A c, n : GoneMsg(d) # ChannelMsg(c, n)
<1>1. /\ \A c, n : GoneMsg(d) # ChannelMsg(c, n)
      /\ \A c, t : GoneMsg(d) # TypeMsg(c, t)
  BY DEF GoneMsg, ChannelMsg, TypeMsg
<1>2. \A c, n : GoneMsg(d) \notin Introduction(c, n)
  BY <1>1 DEF Introduction
<1>3. QED
  BY <1>1, <1>2 DEF Welcome, Announcement

(* The kinds of a pending task are told apart.                             *)
LEMMA TaskKinds ==
  /\ Idle.op = "idle"
  /\ \A n : Registering(n).op = "register" /\ Registering(n).arg = n
  /\ \A t : Subscribing(t).op = "subscribe" /\ Subscribing(t).arg = t
  /\ \A t : Leaving(t).op = "unsubscribe" /\ Leaving(t).arg = t
  /\ \A t : Forwarding(t).op = "forward" /\ Forwarding(t).arg = t
BY DEF Idle, Registering, Subscribing, Leaving, Forwarding

(* Handles depends on no variable but the one it is given.                 *)
LEMMA HandlesPrime == Handles(task)' = Handles(task')
BY DEF Handles, Subscribing, Leaving

(* Only Subscribe and Unsubscribe take a handle, on what they looked up.   *)
LEMMA HandlesAfter ==
  ASSUME TypeOK, NEW c \in Id, NEW k, task' = [task EXCEPT ![c] = k]
  PROVE  /\ k.op \notin {"subscribe", "unsubscribe"} =>
              Handles(task') \subseteq Handles(task)
         /\ \A t : k \in {Subscribing(t), Leaving(t)} =>
              Handles(task') \subseteq Handles(task) \cup {t}
<1>1. \A d \in Id : task'[d] = IF d = c THEN k ELSE task[d]
  BY DEF TypeOK
<1>2. QED
  BY <1>1, TaskKinds DEF Handles

(* Letting live connections subscribe to live objects keeps Lifecycle: no  *)
(* reference to a destroyed object appears.                                *)
LEMMA JoiningSafe ==
  ASSUME TypeOK, Lifecycle, NEW pairs,
         \A d, s \in Id : <<d, s>> \in pairs => d \in Existing /\ s \in Existing,
         NEW c \in Id
  PROVE  /\ Subscribed(pairs)[c] \subseteq Existing
         /\ c \notin Existing => Subscribed(pairs)[c] = {}
<1>1. Subscribed(pairs)[c] = subs[c] \cup Joining(pairs, c)
  BY DEF Subscribed
<1>2. Joining(pairs, c) \subseteq Existing
  BY DEF Joining
<1>3. c \notin Existing => Joining(pairs, c) = {}
  BY DEF Joining
<1>4. QED
  BY <1>1, <1>2, <1>3 DEF Lifecycle

(* Every step of the broker keeps Lifecycle: the locks and the reference   *)
(* counts do what the destructor relies on.                                *)
LEMMA LifecycleStep == TypeOK /\ Lifecycle /\ [Next]_vars => Lifecycle'
<1> SUFFICES ASSUME TypeOK, Lifecycle, [Next]_vars PROVE Lifecycle'
  OBVIOUS
<1>1. ASSUME NEW c \in Id, AddConnection(c) PROVE Lifecycle'
  <2>1. Existing' = Existing \cup {c} /\ Handles(task') = Handles(task)
    BY <1>1 DEF AddConnection, Existing, Lifecycle, Handles
  <2>2. QED
    BY <1>1, <2>1, HandlesPrime DEF AddConnection, Lifecycle, TypeOK
<1>2. ASSUME NEW c \in Id, Interrupted(c) PROVE Lifecycle'
  <2>1. Existing' = Existing /\ Handles(task') = Handles(task)
    BY <1>2 DEF Interrupted, Existing, Handles
  <2>2. QED
    BY <1>2, <2>1, HandlesPrime DEF Interrupted, Lifecycle, TypeOK
<1>3. ASSUME NEW c \in Id, RegisterChannel(c) PROVE Lifecycle'
  <2>1. PICK n : task' = [task EXCEPT ![c] = Registering(n)]
    BY <1>3 DEF RegisterChannel
  <2>2. Existing' = Existing /\ Handles(task') \subseteq Handles(task)
    BY <1>3, <2>1, HandlesAfter, TaskKinds DEF RegisterChannel, Existing
  <2>3. QED
    BY <1>3, <2>1, <2>2, HandlesPrime DEF RegisterChannel, Ready, Lifecycle, TypeOK
<1>4. ASSUME NEW c \in Id, FinishRegisterChannel(c) PROVE Lifecycle'
  <2> DEFINE pairs == {c} \X Followers(c)
  <2>1. Existing' = Existing /\ Handles(task') \subseteq Handles(task)
    BY <1>4, HandlesAfter, TaskKinds DEF FinishRegisterChannel, Existing
  <2>2. c \in running /\ c \in Existing
    BY <1>4, TaskKinds DEF FinishRegisterChannel, Lifecycle
  <2>3. \A d, s \in Id : <<d, s>> \in pairs => d \in Existing /\ s \in Existing
    BY <2>2 DEF Followers, Lifecycle
  <2>4. \A d, s \in Id : GoneMsg(d) \in told'[s] => GoneMsg(d) \in told[s]
    BY <1>4, NoGone DEF FinishRegisterChannel
  <2>5. \A d \in Id : /\ subs'[d] \subseteq Existing
                      /\ d \notin Existing => subs'[d] = {}
    BY <1>4, <2>3, JoiningSafe DEF FinishRegisterChannel
  <2>6. \A d \in Id : task'[d] # Idle => d \in running'
    BY <1>4 DEF FinishRegisterChannel, Lifecycle, TypeOK
  <2>7. connections' \cup subscribedToAll' \cup Handles(task') \subseteq Existing'
    BY <1>4, <2>1 DEF FinishRegisterChannel, Lifecycle
  <2>8. \A d, s \in Id : GoneMsg(d) \in told'[s] => d \in destroyed'
    BY <1>4, <2>4 DEF FinishRegisterChannel, Lifecycle
  <2>9. destroyed' \subseteq accepted' /\ running' \subseteq connections'
    BY <1>4 DEF FinishRegisterChannel, Lifecycle
  <2>10. QED
    BY <2>1, <2>5, <2>6, <2>7, <2>8, <2>9, HandlesPrime DEF Lifecycle
<1>5. ASSUME NEW s \in Id, SubscribeAll(s) PROVE Lifecycle'
  <2> DEFINE pairs == AllOthers(s) \X {s}
  <2>1. Existing' = Existing /\ Handles(task') = Handles(task)
    BY <1>5 DEF SubscribeAll, Existing
  <2>2. \A d, r \in Id : <<d, r>> \in pairs => d \in Existing /\ r \in Existing
    BY <1>5 DEF SubscribeAll, AllOthers, Lifecycle
  <2>3. \A d \in Id : /\ subs'[d] \subseteq Existing
                      /\ d \notin Existing => subs'[d] = {}
    BY <1>5, <2>2, JoiningSafe DEF SubscribeAll
  <2>4. \A d, r \in Id : GoneMsg(d) \in told'[r] => GoneMsg(d) \in told[r]
    BY <1>5, NoGone DEF SubscribeAll, TypeOK
  <2>5. connections' \cup subscribedToAll' \cup Handles(task') \subseteq Existing'
    BY <1>5, <2>1 DEF SubscribeAll, Lifecycle
  <2>6. \A d \in Id : task'[d] # Idle => d \in running'
    BY <1>5 DEF SubscribeAll, Lifecycle
  <2>7. \A d, r \in Id : GoneMsg(d) \in told'[r] => d \in destroyed'
    BY <1>5, <2>4 DEF SubscribeAll, Lifecycle
  <2>8. destroyed' \subseteq accepted' /\ running' \subseteq connections'
    BY <1>5 DEF SubscribeAll, Lifecycle
  <2>9. QED
    BY <2>1, <2>3, <2>5, <2>6, <2>7, <2>8, HandlesPrime DEF Lifecycle
<1>6. ASSUME NEW s \in Id, NEW n \in Name, Subscribe(s, n) \/ Unsubscribe(s, n)
      PROVE  Lifecycle'
  <2> DEFINE t == connectionMapping[n]
  <2>1. PICK k \in {Subscribing(t), Leaving(t)} : task' = [task EXCEPT ![s] = k]
    BY <1>6 DEF Subscribe, Unsubscribe
  <2>2. Handles(task') \subseteq Handles(task) \cup {t}
    BY <2>1, TaskKinds DEF Handles, TypeOK
  <2>3. Existing' = Existing /\ t \in Existing
    BY <1>6 DEF Subscribe, Unsubscribe, Existing, Lifecycle
  <2>4. \A d \in Id : task'[d] # Idle => d \in running'
    BY <1>6, <2>1 DEF Subscribe, Unsubscribe, Ready, Lifecycle, TypeOK
  <2>5. QED
    BY <1>6, <2>2, <2>3, <2>4, HandlesPrime DEF Subscribe, Unsubscribe, Lifecycle
<1>7. ASSUME NEW s \in Id, FinishSubscribe(s) PROVE Lifecycle'
  <2> DEFINE t == task[s].arg
             pairs == {<<t, s>>}
             roots == connections \cup subscribedToAll \cup Handles(task')
             queued == [told EXCEPT ![s] = @ \cup {ChannelMsg(t, name[t])}
                                             \cup Welcome(pairs, s, name)]
  <2>1. t \in Id /\ t \in Handles(task) /\ s \in running
    BY <1>7, TaskArgs, TaskKinds DEF FinishSubscribe, TypeOK, Handles, Lifecycle
  <2>2. t \in Existing /\ s \in Existing
    BY <2>1 DEF Lifecycle
  <2>3. \A c \in Id : /\ Subscribed(pairs)[c] \subseteq Existing
                      /\ c \notin Existing => Subscribed(pairs)[c] = {}
    <3>1. \A d, r \in Id : <<d, r>> \in pairs => d \in Existing /\ r \in Existing
      BY <2>2
    <3>2. QED
      BY <3>1, JoiningSafe
  <2>4. Release(roots, Subscribed(pairs), queued) /\ accepted' = accepted
    BY <1>7 DEF FinishSubscribe
  <2>5. \A d, r \in Id : GoneMsg(d) \in queued[r] => GoneMsg(d) \in told[r]
    BY NoGone DEF TypeOK
  <2>6. Handles(task') \subseteq Handles(task)
    BY <1>7, HandlesAfter, TaskKinds DEF FinishSubscribe
  <2>7. roots \subseteq Existing /\ connections \subseteq roots
    BY <2>6 DEF Lifecycle
  <2> HIDE DEF queued, roots
  <2>8. /\ destroyed' \subseteq accepted' /\ destroyed \subseteq destroyed'
        /\ roots \cap Existing \subseteq Existing'
        /\ running \cap roots \subseteq running' /\ running' \subseteq running
        /\ \A c \in Id : /\ subs'[c] \subseteq Existing'
                         /\ c \notin Existing' => subs'[c] = {}
        /\ \A c, r \in Id :
             GoneMsg(c) \in told'[r] => GoneMsg(c) \in queued[r] \/ c \in destroyed'
    BY <2>3, <2>4, SubscribedTypes, ReleaseSafe
  <2>9. \A d \in Id : task'[d] # Idle => d \in running'
    BY <1>7, <2>7, <2>8 DEF FinishSubscribe, Lifecycle, TypeOK
  <2>10. connections' \cup subscribedToAll' \cup Handles(task') \subseteq Existing'
    BY <1>7, <2>7, <2>8 DEF FinishSubscribe, roots
  <2>11. QED
    BY <1>7, <2>5, <2>8, <2>9, <2>10, HandlesPrime DEF FinishSubscribe, Lifecycle
<1>8. ASSUME NEW s \in Id, FinishUnsubscribe(s) PROVE Lifecycle'
  <2> DEFINE t == task[s].arg
             roots == connections \cup subscribedToAll \cup Handles(task')
             left == [subs EXCEPT ![t] = @ \ {s}]
  <2>1. left \in [Id -> SUBSET Id]
    BY <1>8, TaskArgs DEF FinishUnsubscribe, TypeOK
  <2>2. \A c \in Id : /\ left[c] \subseteq Existing
                      /\ c \notin Existing => left[c] = {}
    BY DEF Lifecycle, TypeOK
  <2>3. Release(roots, left, told) /\ accepted' = accepted
    BY <1>8 DEF FinishUnsubscribe
  <2>4. Handles(task') \subseteq Handles(task)
    BY <1>8, HandlesAfter, TaskKinds DEF FinishUnsubscribe
  <2>5. roots \subseteq Existing /\ connections \subseteq roots
    BY <2>4 DEF Lifecycle
  <2> HIDE DEF left, roots
  <2>6. /\ destroyed' \subseteq accepted' /\ destroyed \subseteq destroyed'
        /\ roots \cap Existing \subseteq Existing'
        /\ running \cap roots \subseteq running' /\ running' \subseteq running
        /\ \A c \in Id : /\ subs'[c] \subseteq Existing'
                         /\ c \notin Existing' => subs'[c] = {}
        /\ \A c, r \in Id :
             GoneMsg(c) \in told'[r] => GoneMsg(c) \in told[r] \/ c \in destroyed'
    BY <2>1, <2>2, <2>3, ReleaseSafe
  <2>7. \A d \in Id : task'[d] # Idle => d \in running'
    BY <1>8, <2>5, <2>6 DEF FinishUnsubscribe, Lifecycle, TypeOK
  <2>8. connections' \cup subscribedToAll' \cup Handles(task') \subseteq Existing'
    BY <1>8, <2>5, <2>6 DEF FinishUnsubscribe, roots
  <2>9. QED
    BY <1>8, <2>6, <2>7, <2>8, HandlesPrime DEF FinishUnsubscribe, Lifecycle
<1>9. ASSUME NEW c \in Id, NEW t \in Types, RegisterMapping(c, t) PROVE Lifecycle'
  <2>1. Existing' = Existing /\ Handles(task') \subseteq Handles(task)
    BY <1>9, HandlesAfter, TaskKinds DEF RegisterMapping, Existing
  <2>2. QED
    BY <1>9, <2>1, HandlesPrime DEF RegisterMapping, Ready, Lifecycle, TypeOK
<1>10. ASSUME NEW c \in Id, FinishRegisterMapping(c) PROVE Lifecycle'
  <2>1. Existing' = Existing /\ Handles(task') \subseteq Handles(task)
    BY <1>10, HandlesAfter, TaskKinds DEF FinishRegisterMapping, Existing
  <2>2. \A d, s \in Id : GoneMsg(d) \in told'[s] => GoneMsg(d) \in told[s]
    BY <1>10, NoGone DEF FinishRegisterMapping
  <2>3. QED
    BY <1>10, <2>1, <2>2, HandlesPrime DEF FinishRegisterMapping, Lifecycle, TypeOK
<1>11. ASSUME NEW c \in Id, NEW r \in Id, SendTo(c, r) PROVE Lifecycle'
  <2>1. Existing' = Existing /\ Handles(task') = Handles(task)
    BY <1>11 DEF SendTo, Existing
  <2>2. \A d, s \in Id : GoneMsg(d) \in told'[s] => GoneMsg(d) \in told[s]
    BY <1>11, NoGone DEF SendTo, TypeOK
  <2>3. QED
    BY <1>11, <2>1, <2>2, HandlesPrime DEF SendTo, Lifecycle
<1>12. ASSUME CheckActiveConnections PROVE Lifecycle'
  <2> DEFINE unsubs == UnsubscribedNoLock(Dead, connections')
             roots == connections' \cup subscribedToAll' \cup Handles(task)
             left == [c \in Id |-> IF c \in connections' THEN subs[c] \ unsubs
                                   ELSE subs[c]]
  <2>1. left \in [Id -> SUBSET Id]
    BY DEF TypeOK
  <2>2. \A c \in Id : /\ left[c] \subseteq Existing
                      /\ c \notin Existing => left[c] = {}
    BY DEF Lifecycle
  <2>3. Release(roots, left, told) /\ accepted' = accepted /\ task' = task
    BY <1>12 DEF CheckActiveConnections
  <2>4. /\ roots \subseteq Existing
        /\ running \subseteq connections'
        /\ connections' \subseteq roots
    BY <1>12 DEF CheckActiveConnections, Dead, Lifecycle
  <2>5. subscribedToAll' \cup Handles(task') \subseteq roots
    BY <2>3
  <2> HIDE DEF left, roots
  <2>6. /\ destroyed' \subseteq accepted' /\ destroyed \subseteq destroyed'
        /\ roots \cap Existing \subseteq Existing'
        /\ running \cap roots \subseteq running' /\ running' \subseteq running
        /\ \A c \in Id : /\ subs'[c] \subseteq Existing'
                         /\ c \notin Existing' => subs'[c] = {}
        /\ \A c, r \in Id :
             GoneMsg(c) \in told'[r] => GoneMsg(c) \in told[r] \/ c \in destroyed'
    BY <2>1, <2>2, <2>3, ReleaseSafe
  <2>7. \A d \in Id : task'[d] # Idle => d \in running'
    BY <2>3, <2>4, <2>6 DEF Lifecycle
  <2>8. QED
    BY <2>3, <2>4, <2>5, <2>6, <2>7, HandlesPrime DEF Lifecycle
<1>13. CASE UNCHANGED vars
  BY <1>13 DEF vars, Lifecycle, Existing, Handles
<1>14. QED
  BY <1>1, <1>2, <1>3, <1>4, <1>5, <1>6, <1>7, <1>8, <1>9, <1>10, <1>11, <1>12,
     <1>13 DEF Next, Request, Finish

(* No reference outlives the object, no worker the table entry, and no     *)
(* termination notice precedes the destructor.                             *)
THEOREM LifecycleHolds == Spec => []Lifecycle
<1>1. Init => Lifecycle
  BY TaskKinds DEF Init, Lifecycle, Existing, Handles
<1>2. QED
  BY <1>1, LifecycleStep, TypeCorrect, PTL DEF Spec
-----------------------------------------------------------------------------
(* The channel directory: it is exact, a termination notice is final, and  *)
(* where no client registers twice it implements the name service.         *)

(* What makes DirectoryExact inductive: a name being registered is already *)
(* in the directory, and nobody has a name before its time.                *)
NamesInOrder ==
  \A c \in Id :
    /\ c \notin accepted => name[c] = Unnamed
    /\ task[c].op = "register" =>
         /\ connectionMapping[task[c].arg] = c
         /\ "rename" \notin Requests[c] => name[c] = Unnamed

DirectoryInv == TypeOK /\ Lifecycle /\ DirectoryExact /\ NamesInOrder

(* A step that leaves names and the directory alone, removes nobody from   *)
(* the table and starts or ends no registration.                           *)
LEMMA DirectoryUntouched ==
  ASSUME DirectoryInv, UNCHANGED <<connectionMapping, name>>,
         accepted \subseteq accepted',
         NEW c \in Id, NEW k, k.op # "register", task[c].op # "register",
         task' = task \/ task' = [task EXCEPT ![c] = k],
         connections \subseteq connections', connections' \subseteq Id,
         \A d \in connections' : d \in connections \/ d \notin accepted
  PROVE  DirectoryExact' /\ NamesInOrder'
<1>1. \A d \in Id : task'[d].op = "register" => task'[d] = task[d]
  BY DEF DirectoryInv, TypeOK
<1>2. \A d \in Id, n \in Name : task[d] = Registering(n) => task'[d] = Registering(n)
  BY TaskKinds DEF DirectoryInv, TypeOK
<1>3. NamesInOrder'
  BY <1>1 DEF DirectoryInv, NamesInOrder
<1>4. \A d \in connections' : name'[d] # Unnamed => connectionMapping'[name'[d]] = d
  BY DEF DirectoryInv, DirectoryExact, NamesInOrder, TypeOK
<1>5. ASSUME NEW n \in Name, NEW d \in Id, connectionMapping'[n] = d,
             "rename" \notin Requests[d]
      PROVE  d \in connections' /\ (name'[d] = n \/ task'[d] = Registering(n))
  BY <1>2, <1>5 DEF DirectoryInv, DirectoryExact
<1>6. QED
  BY <1>3, <1>4, <1>5 DEF DirectoryExact

(* Every step keeps the directory exact; registerChannel and the checker   *)
(* are the two that change it.                                             *)
LEMMA DirectoryStep == DirectoryInv /\ [Next]_vars => DirectoryExact' /\ NamesInOrder'
<1> SUFFICES ASSUME DirectoryInv, [Next]_vars PROVE DirectoryExact' /\ NamesInOrder'
  OBVIOUS
<1> USE DEF DirectoryInv
<1>0. TypeOK' /\ Lifecycle'
  BY TypeStep, LifecycleStep
<1>1. ASSUME NEW c \in Id, AddConnection(c) PROVE DirectoryExact' /\ NamesInOrder'
  BY <1>1 DEF AddConnection, DirectoryExact, NamesInOrder, TypeOK
<1>2. ASSUME NEW c \in Id, Interrupted(c) PROVE DirectoryExact' /\ NamesInOrder'
  BY <1>2 DEF Interrupted, DirectoryExact, NamesInOrder
<1>3. ASSUME NEW c \in Id, RegisterChannel(c) PROVE DirectoryExact' /\ NamesInOrder'
  <2>1. PICK n \in Name :
          /\ connectionMapping[n] = NoId
          /\ connectionMapping' = [connectionMapping EXCEPT ![n] = c]
          /\ task' = [task EXCEPT ![c] = Registering(n)]
    <3>1. PICK b \in Base, k \in 0..MaxSuffix :
            /\ FreeName(b, k)
            /\ connectionMapping' = [connectionMapping EXCEPT ![<<b, k>>] = c]
            /\ task' = [task EXCEPT ![c] = Registering(<<b, k>>)]
      BY <1>3 DEF RegisterChannel
    <3>2. <<b, k>> \in Name
      BY DEF Name
    <3>3. QED
      BY <3>1, <3>2 DEF FreeName
  <2>2. /\ c \in connections
        /\ task[c] = Idle
        /\ name[c] # Unnamed => "rename" \in Requests[c]
        /\ UNCHANGED <<accepted, connections, name>>
    BY <1>3 DEF RegisterChannel, Ready
  <2>3. /\ \A d \in Id \ {c} : task'[d] = task[d]
        /\ task'[c] = Registering(n)
        /\ \A m \in Name \ {n} : connectionMapping'[m] = connectionMapping[m]
        /\ connectionMapping'[n] = c
    BY <2>1 DEF TypeOK
  <2>4. ASSUME NEW d \in connections', name'[d] # Unnamed
        PROVE  connectionMapping'[name'[d]] = d
    BY <2>1, <2>2, <2>3, <2>4, DispatchAssumption DEF DirectoryExact, TypeOK
  <2>5. ASSUME NEW m \in Name, NEW d \in Id, connectionMapping'[m] = d,
               "rename" \notin Requests[d]
        PROVE  d \in connections' /\ (name'[d] = m \/ task'[d] = Registering(m))
    <3>1. CASE m = n
      BY <2>2, <2>3, <2>5, <3>1
    <3>2. CASE m # n
      <4>1. /\ d \in connections
            /\ name[d] = m \/ task[d] = Registering(m)
        BY <2>3, <2>5, <3>2 DEF DirectoryExact
      <4>2. d # c
        BY <2>2, <2>5, <4>1, TaskKinds, DispatchAssumption
      <4>3. QED
        BY <2>2, <2>3, <4>1, <4>2
    <3>3. QED
      BY <3>1, <3>2
  <2>6. NamesInOrder'
    <3> SUFFICES ASSUME NEW d \in Id
                 PROVE  /\ d \notin accepted' => name'[d] = Unnamed
                        /\ task'[d].op = "register" =>
                             /\ connectionMapping'[task'[d].arg] = d
                             /\ "rename" \notin Requests[d] => name'[d] = Unnamed
      BY DEF NamesInOrder
    <3>1. CASE d = c
      BY <2>2, <2>3, <3>1, TaskKinds DEF NamesInOrder
    <3>2. CASE d # c
      BY <2>1, <2>2, <2>3, <3>2, TaskArgs, DispatchAssumption DEF NamesInOrder, TypeOK
    <3>3. QED
      BY <3>1, <3>2
  <2>7. QED
    BY <2>4, <2>5, <2>6 DEF DirectoryExact
<1>4. ASSUME NEW c \in Id, FinishRegisterChannel(c)
      PROVE  DirectoryExact' /\ NamesInOrder'
  <2> DEFINE n == task[c].arg
  <2>1. /\ n \in Name /\ task[c] = Registering(n) /\ connectionMapping[n] = c
        /\ c \in accepted
        /\ "rename" \notin Requests[c] => name[c] = Unnamed
    BY <1>4, TaskArgs, TaskKinds
       DEF FinishRegisterChannel, NamesInOrder, TypeOK, Lifecycle, Existing
  <2>2. /\ name' = [name EXCEPT ![c] = n]
        /\ task' = [task EXCEPT ![c] = Idle]
        /\ UNCHANGED <<accepted, connections, connectionMapping>>
    BY <1>4 DEF FinishRegisterChannel
  <2> HIDE DEF n
  <2>3. /\ name'[c] = n /\ task'[c] = Idle
        /\ \A d \in Id \ {c} : name'[d] = name[d] /\ task'[d] = task[d]
    BY <2>2 DEF TypeOK
  <2>4. \A d \in connections' : name'[d] # Unnamed => connectionMapping'[name'[d]] = d
    BY <2>1, <2>2, <2>3 DEF DirectoryExact, TypeOK
  <2>5. ASSUME NEW m \in Name, NEW d \in Id, connectionMapping'[m] = d,
               "rename" \notin Requests[d]
        PROVE  d \in connections' /\ (name'[d] = m \/ task'[d] = Registering(m))
    <3>1. d \in connections /\ (name[d] = m \/ task[d] = Registering(m))
      BY <2>2, <2>5 DEF DirectoryExact
    <3>2. CASE d = c
      BY <2>1, <2>2, <2>3, <2>5, <3>1, <3>2, TaskKinds, DispatchAssumption
    <3>3. CASE d # c
      BY <2>2, <2>3, <3>1, <3>3
    <3>4. QED
      BY <3>2, <3>3
  <2>6. NamesInOrder'
    BY <2>1, <2>2, <2>3, TaskKinds DEF NamesInOrder
  <2>7. QED
    BY <2>4, <2>5, <2>6 DEF DirectoryExact
<1>5. ASSUME NEW s \in Id, SubscribeAll(s) PROVE DirectoryExact' /\ NamesInOrder'
  BY <1>5 DEF SubscribeAll, DirectoryExact, NamesInOrder
<1>6. ASSUME NEW s \in Id, NEW n \in Name, Subscribe(s, n) \/ Unsubscribe(s, n)
      PROVE  DirectoryExact' /\ NamesInOrder'
  <2>1. PICK k : k.op # "register" /\ task' = [task EXCEPT ![s] = k]
    BY <1>6, TaskKinds DEF Subscribe, Unsubscribe
  <2>2. /\ task[s].op # "register"
        /\ UNCHANGED <<accepted, connections, connectionMapping, name>>
    BY <1>6, TaskKinds DEF Subscribe, Unsubscribe, Ready
  <2>3. QED
    BY <1>0, <2>1, <2>2, DirectoryUntouched DEF TypeOK
<1>7. ASSUME NEW s \in Id, FinishSubscribe(s) \/ FinishUnsubscribe(s)
      PROVE  DirectoryExact' /\ NamesInOrder'
  <2>1. /\ task' = [task EXCEPT ![s] = Idle] /\ task[s].op # "register"
        /\ UNCHANGED <<accepted, connections, connectionMapping, name>>
    BY <1>7 DEF FinishSubscribe, FinishUnsubscribe
  <2>2. QED
    BY <1>0, <2>1, DirectoryUntouched, TaskKinds DEF TypeOK
<1>8. ASSUME NEW c \in Id, NEW t \in Types, RegisterMapping(c, t)
      PROVE  DirectoryExact' /\ NamesInOrder'
  <2>1. PICK k : k.op # "register" /\ task' = [task EXCEPT ![c] = k]
    BY <1>8, TaskKinds DEF RegisterMapping
  <2>2. QED
    BY <1>0, <1>8, <2>1, DirectoryUntouched, TaskKinds
       DEF RegisterMapping, Ready, TypeOK
<1>9. ASSUME NEW c \in Id, FinishRegisterMapping(c)
      PROVE  DirectoryExact' /\ NamesInOrder'
  <2>1. /\ task' = [task EXCEPT ![c] = Idle] /\ task[c].op # "register"
        /\ UNCHANGED <<accepted, connections, connectionMapping, name>>
    BY <1>9 DEF FinishRegisterMapping
  <2>2. QED
    BY <1>0, <2>1, DirectoryUntouched, TaskKinds DEF TypeOK
<1>10. ASSUME NEW c \in Id, NEW r \in Id, SendTo(c, r)
       PROVE  DirectoryExact' /\ NamesInOrder'
  BY <1>10 DEF SendTo, DirectoryExact, NamesInOrder
<1>11. ASSUME CheckActiveConnections PROVE DirectoryExact' /\ NamesInOrder'
  <2>1. /\ connections' = connections \ Dead
        /\ UNCHANGED <<accepted, name, task>>
        /\ \A n \in Name : connectionMapping'[n] =
              IF \E c \in Dead : name[c] = n THEN NoId ELSE connectionMapping[n]
    BY <1>11 DEF CheckActiveConnections, MappingWithout
  <2>2. \A d \in Id : task[d].op # "register"
    BY <1>11 DEF CheckActiveConnections, ConnectionMutexFree
  <2>3. \A d \in connections' : name'[d] # Unnamed => connectionMapping'[name'[d]] = d
    BY <2>1 DEF DirectoryExact, Dead, TypeOK
  <2>4. ASSUME NEW m \in Name, NEW d \in Id, connectionMapping'[m] = d,
               "rename" \notin Requests[d]
        PROVE  d \in connections' /\ (name'[d] = m \/ task'[d] = Registering(m))
    <3>1. connectionMapping[m] = d /\ ~(\E c \in Dead : name[c] = m)
      BY <2>1, <2>4, DispatchAssumption
    <3>2. d \in connections /\ name[d] = m
      BY <2>2, <2>4, <3>1, TaskKinds DEF DirectoryExact
    <3>3. QED
      BY <2>1, <3>1, <3>2
  <2>5. NamesInOrder'
    BY <2>1, <2>2 DEF NamesInOrder
  <2>6. QED
    BY <2>3, <2>4, <2>5 DEF DirectoryExact
<1>12. CASE UNCHANGED vars
  BY <1>12 DEF vars, DirectoryExact, NamesInOrder
<1>13. QED
  BY <1>1, <1>2, <1>3, <1>4, <1>5, <1>6, <1>7, <1>8, <1>9, <1>10, <1>11, <1>12
     DEF Next, Request, Finish

(* The inductive invariant of the directory holds in every reachable       *)
(* state.                                                                  *)
THEOREM DirectoryInvariant == Spec => []DirectoryInv
<1>1. Init => DirectoryExact /\ NamesInOrder
  BY DispatchAssumption, TaskKinds DEF Init, DirectoryExact, NamesInOrder
<1>2. QED
  BY <1>1, DirectoryStep, TypeCorrect, LifecycleHolds, PTL DEF Spec, DirectoryInv

(* Every connection in the table is found under its name, and every entry  *)
(* of the directory leads to a connection in the table.                    *)
THEOREM DirectoryIsExact == Spec => []DirectoryExact
BY DirectoryInvariant, PTL DEF DirectoryInv

(* After a termination notice the broker holds nothing of the channel, and *)
(* no worker is left that could send more on its behalf.                   *)
THEOREM TerminationIsFinal == Spec => []TerminationFinal
<1>1. DirectoryInv => TerminationFinal
  <2> SUFFICES ASSUME DirectoryInv, NEW c \in Id, NEW s \in Id, GoneMsg(c) \in told[s]
               PROVE  /\ c \notin connections \cup running \cup subscribedToAll
                      /\ task[c] = Idle
                      /\ \A d \in Id : c \notin subs[d] /\ task[d] # Subscribing(c)
                      /\ \A n \in Name :
                           connectionMapping[n] = c => "rename" \in Requests[c]
    BY DEF TerminationFinal
  <2> USE DEF DirectoryInv
  <2>1. c \notin Existing
    BY DEF Lifecycle, Existing
  <2>2. /\ c \notin connections \cup running \cup subscribedToAll
        /\ c \notin Handles(task)
        /\ task[c] = Idle
    BY <2>1 DEF Lifecycle
  <2>3. \A d \in Id : c \notin subs[d]
    BY <2>1 DEF Lifecycle
  <2>4. \A d \in Id : task[d] # Subscribing(c)
    BY <2>2 DEF Handles
  <2>5. \A n \in Name : connectionMapping[n] = c => "rename" \in Requests[c]
    BY <2>2 DEF DirectoryExact
  <2>6. QED
    BY <2>2, <2>3, <2>4, <2>5
<1>2. QED
  BY <1>1, DirectoryInvariant, PTL

-----------------------------------------------------------------------------
(* Refinement.                                                             *)

(* A client of this repository registers its channel once.                 *)
RegistersOnce == \A c \in Id : "rename" \notin Requests[c]

(* A step of the broker claims one free name, frees the names of clients   *)
(* that leave, or changes nothing the name service sees.                   *)
LEMMA NameServiceStep ==
  ASSUME RegistersOnce, DirectoryInv, [Next]_vars
  PROVE  [NS!NSNext]_(NS!nsVars)
<1> USE DEF DirectoryInv
<1>1. ASSUME NEW c \in Id, AddConnection(c) PROVE NS!Join(c)
  BY <1>1 DEF AddConnection, NS!Join
<1>2. ASSUME NEW c \in Id, RegisterChannel(c) PROVE \E n \in Name : NS!Claim(c, n)
  <2>1. PICK b \in Base, k \in 0..MaxSuffix :
          /\ FreeName(b, k)
          /\ connectionMapping' = [connectionMapping EXCEPT ![<<b, k>>] = c]
    BY <1>2 DEF RegisterChannel
  <2>2. <<b, k>> \in Name
    BY DEF Name
  <2>3. c \in connections /\ task[c] = Idle /\ name[c] = Unnamed
    BY <1>2 DEF RegisterChannel, Ready, RegistersOnce
  <2>4. \A m \in Name : connectionMapping[m] # c
    BY <2>3, TaskKinds, DispatchAssumption DEF DirectoryExact, RegistersOnce
  <2>5. NS!Claim(c, <<b, k>>)
    BY <1>2, <2>1, <2>2, <2>3, <2>4 DEF RegisterChannel, FreeName, NS!Claim
  <2>6. QED
    BY <2>2, <2>5
<1>3. ASSUME CheckActiveConnections PROVE \E D \in SUBSET Id : NS!Leave(D)
  <2>1. \A d \in Id : task[d].op # "register"
    BY <1>3 DEF CheckActiveConnections, ConnectionMutexFree
  <2>2. \A n \in Name : (\E c \in Dead : name[c] = n) <=> connectionMapping[n] \in Dead
    BY <2>1, TaskKinds, DispatchAssumption
       DEF Dead, DirectoryExact, RegistersOnce, TypeOK
  <2>3. connectionMapping' =
          [n \in Name |-> IF connectionMapping[n] \in Dead
                          THEN NoId ELSE connectionMapping[n]]
    BY <1>3, <2>2 DEF CheckActiveConnections, MappingWithout
  <2>4. Dead \in SUBSET Id /\ Dead \subseteq connections
    BY DEF Dead, TypeOK
  <2>5. NS!Leave(Dead)
    BY <1>3, <2>3, <2>4 DEF CheckActiveConnections, NS!Leave
  <2>6. QED
    BY <2>4, <2>5
<1>4. ASSUME NEW c \in Id,
             \/ Interrupted(c) \/ FinishRegisterChannel(c) \/ SubscribeAll(c)
             \/ \E n \in Name : Subscribe(c, n) \/ Unsubscribe(c, n)
             \/ FinishSubscribe(c) \/ FinishUnsubscribe(c)
             \/ \E t \in Types : RegisterMapping(c, t)
             \/ FinishRegisterMapping(c)
             \/ \E r \in Id : SendTo(c, r)
      PROVE  UNCHANGED NS!nsVars
  BY <1>4
     DEF Interrupted, FinishRegisterChannel, SubscribeAll, Subscribe, Unsubscribe,
         FinishSubscribe, FinishUnsubscribe, RegisterMapping,
         FinishRegisterMapping, SendTo, NS!nsVars
<1>5. CASE UNCHANGED vars
  BY <1>5 DEF vars, NS!nsVars
<1>6. QED
  BY <1>1, <1>2, <1>3, <1>4, <1>5 DEF Next, Request, Finish, NS!NSNext

(* Every behaviour of the broker, whatever its threads do, is one of the   *)
(* name service in which a client claims a free name and leaves.           *)
THEOREM DirectoryRefines ==
  ASSUME RegistersOnce
  PROVE  Spec => ImplementsNameService
<1>1. Init => NS!NSInit
  BY DEF Init, NS!NSInit
<1>2. DirectoryInv /\ [Next]_vars => [NS!NSNext]_(NS!nsVars)
  BY NameServiceStep
<1>3. QED
  BY <1>1, <1>2, DirectoryInvariant, PTL DEF Spec, ImplementsNameService, NS!NSSpec
=============================================================================
