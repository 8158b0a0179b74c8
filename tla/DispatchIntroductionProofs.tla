---------------------- MODULE DispatchIntroductionProofs ----------------------
(***************************************************************************)
(* Who has been introduced to whom: every receiver of a channel was sent   *)
(* its channel mapping, every subscriber the types its client mapped, and  *)
(* no subscriber is dropped without a word.                                *)
(***************************************************************************)
EXTENDS DispatchProofs

(* What a release leaves of the lists and queues it was given.             *)
LEMMA ReleaseFrame ==
  ASSUME TypeOK, NEW roots, NEW sb, NEW q, accepted' = accepted,
         Release(roots, sb, q)
  PROVE  /\ Existing' \subseteq Existing
         /\ \A c \in Id : /\ subs'[c] \subseteq sb[c]
                          /\ c \in Existing' => subs'[c] = sb[c]
         /\ \A c, s \in Id : s \in sb[c] /\ s \notin subs'[c] => GoneMsg(c) \in told'[s]
         /\ \A s \in Id : q[s] \subseteq told'[s]
<1> DEFINE dying == Existing \ Kept(roots, sb)
<1>1. /\ destroyed' = destroyed \cup dying
      /\ subs' = [c \in Id |-> IF c \in dying THEN {} ELSE sb[c]]
      /\ told' = [s \in Id |-> q[s] \cup Notices(dying, sb, s)]
  BY DEF Release
<1> HIDE DEF dying
<1>2. Existing' = Existing \ dying
  BY <1>1 DEF Existing
<1>3. ASSUME NEW c \in Id, NEW s \in Id, s \in sb[c], s \notin subs'[c]
      PROVE  GoneMsg(c) \in told'[s]
  <2>1. c \in dying
    BY <1>1, <1>3
  <2>2. GoneMsg(c) \in Notices(dying, sb, s)
    BY <1>3, <2>1 DEF Notices
  <2>3. QED
    BY <1>1, <2>2
<1>4. \A c \in Id : /\ subs'[c] \subseteq sb[c]
                    /\ c \in Existing' => subs'[c] = sb[c]
  BY <1>1, <1>2
<1>5. \A s \in Id : q[s] \subseteq told'[s]
  BY <1>1
<1>6. QED
  BY <1>2, <1>3, <1>4, <1>5

(* In CheckActiveConnections the ids that unsubscribeAllNoLock is to take  *)
(* out of the lists have just left the table it looks them up in.          *)
LEMMA NobodyUnsubscribed ==
  ASSUME connections' = connections \ Dead
  PROVE  UnsubscribedNoLock(Dead, connections') = {}
BY DEF UnsubscribedNoLock

(* What the checker leaves of the subscriber lists and queues: it takes    *)
(* nobody out of a list that it does not destroy.                          *)
LEMMA CheckFrame ==
  ASSUME TypeOK, CheckActiveConnections
  PROVE  /\ sentMapping' = sentMapping
         /\ accepted' = accepted
         /\ \E roots : Release(roots, subs, told)
<1>1. UnsubscribedNoLock(Dead, connections') = {}
  BY NobodyUnsubscribed DEF CheckActiveConnections
<1>2. /\ [c \in Id |-> IF c \in connections' THEN sentMapping[c] \ {} ELSE sentMapping[c]]
           = sentMapping
      /\ [c \in Id |-> IF c \in connections' THEN subs[c] \ {} ELSE subs[c]] = subs
  BY DEF TypeOK
<1>3. QED
  BY <1>1, <1>2 DEF CheckActiveConnections

(* The two actions that add a subscriber of one's own, seen as a join.     *)
LEMMA WelcomeOfOne ==
  ASSUME NEW D, NEW s, NEW r \in Id, r # s, NEW names
  PROVE  Welcome(D \X {s}, r, names) = {}
<1>1. \A d : r \notin Joining(D \X {s}, d)
  BY DEF Joining
<1>2. QED
  BY <1>1 DEF Welcome

-----------------------------------------------------------------------------
(* Nothing is taken back from an output queue.                             *)
LEMMA ToldGrows ==
  ASSUME TypeOK, [Next]_vars, NEW s \in Id
  PROVE  told[s] \subseteq told'[s]
<1>1. ASSUME NEW c \in Id, FinishRegisterChannel(c) PROVE told[s] \subseteq told'[s]
  BY <1>1 DEF FinishRegisterChannel
<1>2. ASSUME NEW c \in Id, SubscribeAll(c) PROVE told[s] \subseteq told'[s]
  BY <1>2 DEF SubscribeAll, TypeOK
<1>3. ASSUME NEW c \in Id, FinishSubscribe(c) PROVE told[s] \subseteq told'[s]
  <2> DEFINE t == task[c].arg
             queued == [told EXCEPT ![c] = @ \cup {ChannelMsg(t, name[t])}
                                             \cup Welcome({<<t, c>>}, c, name)]
  <2>1. told[s] \subseteq queued[s]
    BY DEF TypeOK
  <2>2. PICK roots : Release(roots, Subscribed({<<t, c>>}), queued)
    BY <1>3 DEF FinishSubscribe
  <2>3. accepted' = accepted
    BY <1>3 DEF FinishSubscribe
  <2> HIDE DEF queued
  <2>4. queued[s] \subseteq told'[s]
    BY <2>2, <2>3, ReleaseFrame
  <2>5. QED
    BY <2>1, <2>4
<1>4. ASSUME NEW c \in Id, FinishUnsubscribe(c) PROVE told[s] \subseteq told'[s]
  BY <1>4, ReleaseFrame DEF FinishUnsubscribe
<1>5. ASSUME CheckActiveConnections PROVE told[s] \subseteq told'[s]
  BY <1>5, CheckFrame, ReleaseFrame
<1>6. ASSUME NEW c \in Id, FinishRegisterMapping(c) PROVE told[s] \subseteq told'[s]
  BY <1>6 DEF FinishRegisterMapping
<1>7. ASSUME NEW c \in Id, NEW r \in Id, SendTo(c, r) PROVE told[s] \subseteq told'[s]
  BY <1>7 DEF SendTo, TypeOK
<1>8. ASSUME NEW c \in Id,
             \/ AddConnection(c) \/ Interrupted(c) \/ RegisterChannel(c)
             \/ \E n \in Name : Subscribe(c, n) \/ Unsubscribe(c, n)
             \/ \E t \in Types : RegisterMapping(c, t)
      PROVE  told[s] \subseteq told'[s]
  BY <1>8 DEF AddConnection, Interrupted, RegisterChannel, Subscribe, Unsubscribe,
              RegisterMapping
<1>9. CASE UNCHANGED vars
  BY <1>9 DEF vars
<1>10. QED
  BY <1>1, <1>2, <1>3, <1>4, <1>5, <1>6, <1>7, <1>8, <1>9 DEF Next, Request, Finish

(* A subscriber is gone from a list only by its own unsubscribe or with a  *)
(* termination notice on its queue.                                        *)
THEOREM NobodyDroppedSilently == Spec => NoSilentLoss
<1> DEFINE Loss(c, s) == s \in subs[c] /\ s \notin subs'[c] =>
                           task[s] = Leaving(c) \/ GoneMsg(c) \in told'[s]
<1>1. ASSUME TypeOK, [Next]_vars, NEW c \in Id, NEW s \in Id PROVE Loss(c, s)
  <2>1. ASSUME NEW x \in Id, FinishRegisterChannel(x) PROVE Loss(c, s)
    BY <2>1 DEF FinishRegisterChannel, Subscribed
  <2>2. ASSUME NEW x \in Id, SubscribeAll(x) PROVE Loss(c, s)
    BY <2>2 DEF SubscribeAll, Subscribed
  <2>3. ASSUME NEW x \in Id, FinishSubscribe(x) PROVE Loss(c, s)
    <3>1. PICK pairs, roots, q :
            Release(roots, Subscribed(pairs), q) /\ accepted' = accepted
      BY <2>3 DEF FinishSubscribe
    <3>2. subs[c] \subseteq Subscribed(pairs)[c]
      BY DEF Subscribed
    <3>3. s \in Subscribed(pairs)[c] /\ s \notin subs'[c] => GoneMsg(c) \in told'[s]
      BY <1>1, <3>1, ReleaseFrame
    <3>4. QED
      BY <3>2, <3>3
  <2>4. ASSUME NEW x \in Id, FinishUnsubscribe(x) PROVE Loss(c, s)
    <3> DEFINE t == task[x].arg
               left == [subs EXCEPT ![t] = @ \ {x}]
    <3>1. t \in Id /\ task[x] = Leaving(t)
      BY <1>1, <2>4, TaskArgs DEF FinishUnsubscribe, TypeOK
    <3>2. PICK roots : Release(roots, left, told) /\ accepted' = accepted
      BY <2>4 DEF FinishUnsubscribe
    <3>3. s \in subs[c] => s \in left[c] \/ (c = t /\ s = x)
      BY <1>1, <3>1 DEF TypeOK
    <3> HIDE DEF left
    <3>4. s \in left[c] /\ s \notin subs'[c] => GoneMsg(c) \in told'[s]
      BY <1>1, <3>2, ReleaseFrame
    <3>5. QED
      BY <3>1, <3>3, <3>4
  <2>5. ASSUME CheckActiveConnections PROVE Loss(c, s)
    BY <1>1, <2>5, CheckFrame, ReleaseFrame
  <2>6. ASSUME NEW x \in Id,
               \/ AddConnection(x) \/ Interrupted(x) \/ RegisterChannel(x)
               \/ \E n \in Name : Subscribe(x, n) \/ Unsubscribe(x, n)
               \/ \E t \in Types : RegisterMapping(x, t)
               \/ FinishRegisterMapping(x)
               \/ \E r \in Id : SendTo(x, r)
        PROVE  Loss(c, s)
    BY <2>6 DEF AddConnection, Interrupted, RegisterChannel, Subscribe, Unsubscribe,
                RegisterMapping, FinishRegisterMapping, SendTo
  <2>7. CASE UNCHANGED vars
    BY <2>7 DEF vars
  <2>8. QED
    BY <1>1, <2>1, <2>2, <2>3, <2>4, <2>5, <2>6, <2>7 DEF Next, Request, Finish
<1>2. TypeOK /\ [Next]_vars =>
        [\A c, s \in Id : s \in subs[c] /\ s \notin subs'[c] =>
           task[s] = Leaving(c) \/ GoneMsg(c) \in told'[s]]_vars
  BY <1>1
<1>3. QED
  BY <1>2, TypeCorrect, PTL DEF Spec, NoSilentLoss

-----------------------------------------------------------------------------
(* Introductions.                                                          *)

(* What makes SubscribersKnowTypes inductive: where no directed message    *)
(* introduces anybody, whoever was introduced to a channel receives it.    *)
IntroducedReceive ==
  \A c \in Id :
    /\ c \notin accepted => sentMapping[c] = {}
    /\ c \in Existing /\ "sendTo" \notin Requests[c] => sentMapping[c] \subseteq subs[c]

Introductions == ReceiversIntroduced /\ SubscribersKnowTypes /\ IntroducedReceive

IntroductionInv == TypeOK /\ Lifecycle /\ Introductions

(* The task of a worker changes, no mapping is being forwarded.            *)
NotForwarding(c) == task' = task \/ \E k : /\ task[c].op # "forward"
                                           /\ task' = [task EXCEPT ![c] = k]

(* A worker that is forwarding a type is still forwarding it after a step  *)
(* of another worker, or a step that finishes something else.              *)
LEMMA StillForwarding ==
  ASSUME TypeOK, NEW x \in Id, NotForwarding(x), NEW c \in Id, NEW t,
         task[c] = Forwarding(t)
  PROVE  task'[c] = Forwarding(t)
BY TaskKinds DEF NotForwarding, TypeOK

(* Any action that lets every s of <<c, s>> in pairs subscribe to c.       *)
LEMMA JoinStep ==
  ASSUME IntroductionInv, NEW pairs, NEW names, NEW x \in Id, NotForwarding(x),
         \A d, s \in Id : <<d, s>> \in pairs => d \in Existing /\ s \in Existing,
         accepted' = accepted, types' = types, Existing' \subseteq Existing,
         sentMapping' = Introduced(pairs),
         \A c \in Id : /\ subs'[c] \subseteq Subscribed(pairs)[c]
                       /\ c \in Existing' => subs'[c] = Subscribed(pairs)[c],
         \A s \in Id : told[s] \cup Welcome(pairs, s, names) \subseteq told'[s]
  PROVE  Introductions'
<1> USE DEF IntroductionInv, Introductions
<1>1. \A c \in Id : /\ sentMapping'[c] = sentMapping[c] \cup Joining(pairs, c)
                    /\ Subscribed(pairs)[c] = subs[c] \cup Joining(pairs, c)
  BY DEF Introduced, Subscribed
<1>2. \A c, s \in Id : s \in Joining(pairs, c) => s \notin subs[c] /\ c \in Existing
  BY DEF Joining
<1>3. ASSUME NEW c \in Id, NEW s \in Id, s \in Joining(pairs, c), s \notin sentMapping[c]
      PROVE  Introduction(c, names[c]) \subseteq told'[s]
  BY <1>3 DEF Welcome
<1>4. ReceiversIntroduced'
  <2> SUFFICES ASSUME NEW c \in Id, NEW s \in Id
               PROVE  /\ s \in subs'[c] => s \in sentMapping'[c]
                      /\ s \in sentMapping'[c] =>
                           \E named \in BOOLEAN :
                             [kind |-> "channel", from |-> c, arg |-> named] \in told'[s]
    BY DEF ReceiversIntroduced
  <2>1. s \in subs'[c] => s \in sentMapping'[c]
    BY <1>1 DEF ReceiversIntroduced
  <2>2. CASE s \in sentMapping[c]
    BY <2>1, <2>2 DEF ReceiversIntroduced
  <2>3. CASE s \in sentMapping'[c] \ sentMapping[c]
    <3>1. ChannelMsg(c, names[c]) \in told'[s]
      BY <1>1, <1>3, <2>3 DEF Introduction
    <3>2. QED
      BY <2>1, <3>1 DEF ChannelMsg
  <2>4. QED
    BY <2>1, <2>2, <2>3
<1>5. SubscribersKnowTypes'
  <2> SUFFICES ASSUME NEW c \in Id, "sendTo" \notin Requests[c],
                      NEW s \in subs'[c], NEW t \in types'[c]
               PROVE  TypeMsg(c, t) \in told'[s] \/ task'[c] = Forwarding(t)
    BY DEF SubscribersKnowTypes, SubscriberKnowsTypes
  <2>1. s \in Id
    BY <1>1 DEF Joining, TypeOK
  <2>2. CASE s \in subs[c]
    BY <2>1, <2>2, StillForwarding DEF SubscribersKnowTypes, SubscriberKnowsTypes
  <2>3. CASE s \notin subs[c]
    <3>1. s \in Joining(pairs, c) /\ c \in Existing
      BY <1>1, <1>2, <2>1, <2>3
    <3>2. s \notin sentMapping[c]
      BY <2>3, <3>1 DEF IntroducedReceive
    <3>3. TypeMsg(c, t) \in told'[s]
      BY <1>3, <2>1, <3>1, <3>2 DEF Introduction
    <3>4. QED
      BY <3>3
  <2>4. QED
    BY <2>2, <2>3
<1>6. IntroducedReceive'
  <2>1. ASSUME NEW c \in Id, c \notin accepted' PROVE sentMapping'[c] = {}
    <3>1. Joining(pairs, c) = {}
      BY <2>1 DEF Joining, Existing
    <3>2. QED
      BY <1>1, <2>1, <3>1 DEF IntroducedReceive
  <2>2. ASSUME NEW c \in Id, c \in Existing', "sendTo" \notin Requests[c]
        PROVE  sentMapping'[c] \subseteq subs'[c]
    BY <1>1, <2>2 DEF IntroducedReceive
  <2>3. QED
    BY <2>1, <2>2 DEF IntroducedReceive
<1>7. QED
  BY <1>4, <1>5, <1>6

(* Any action that introduces nobody and drops the same clients from subs  *)
(* and from sentMapping, or drops whole lists of objects it destroys.      *)
LEMMA LeaveStep ==
  ASSUME IntroductionInv, NEW left, NEW x \in Id, NotForwarding(x),
         accepted' = accepted, types' = types, Existing' \subseteq Existing,
         sentMapping' \in [Id -> SUBSET Id],
         \A c \in Id : /\ subs'[c] \subseteq subs[c] \ left[c]
                       /\ c \in Existing' => subs'[c] = subs[c] \ left[c]
                       /\ sentMapping'[c] = sentMapping[c] \ left[c],
         \A s \in Id : told[s] \subseteq told'[s]
  PROVE  Introductions'
<1> USE DEF IntroductionInv, Introductions
<1>1. ReceiversIntroduced'
  BY DEF ReceiversIntroduced
<1>2. SubscribersKnowTypes'
  BY StillForwarding DEF SubscribersKnowTypes, SubscriberKnowsTypes, TypeOK
<1>3. IntroducedReceive'
  BY DEF IntroducedReceive
<1>4. QED
  BY <1>1, <1>2, <1>3

(* Every step introduces whoever it lets receive, and tells every          *)
(* subscriber of every type.                                               *)
LEMMA IntroductionStep == IntroductionInv /\ [Next]_vars => Introductions'
<1> SUFFICES ASSUME IntroductionInv, [Next]_vars PROVE Introductions'
  OBVIOUS
<1> USE DEF IntroductionInv
<1>0. /\ TypeOK' /\ Lifecycle'
      /\ \A s \in Id : told[s] \subseteq told'[s]
  BY TypeStep, LifecycleStep, ToldGrows
<1>1. ASSUME NEW c \in Id, FinishRegisterChannel(c) PROVE Introductions'
  <2> DEFINE pairs == {c} \X Followers(c)
  <2>1. c \in Existing
    BY <1>1, TaskKinds DEF FinishRegisterChannel, Lifecycle
  <2>2. \A d, s \in Id : <<d, s>> \in pairs => d \in Existing /\ s \in Existing
    BY <2>1 DEF Followers, Lifecycle
  <2>3. /\ accepted' = accepted /\ types' = types /\ Existing' = Existing
        /\ NotForwarding(c)
        /\ subs' = Subscribed(pairs) /\ sentMapping' = Introduced(pairs)
        /\ \A s \in Id : told[s] \cup Welcome(pairs, s, name') \subseteq told'[s]
    BY <1>1 DEF FinishRegisterChannel, Existing, NotForwarding
  <2> HIDE DEF pairs
  <2>4. QED
    BY <2>2, <2>3, JoinStep
<1>2. ASSUME NEW x \in Id, SubscribeAll(x) PROVE Introductions'
  <2> DEFINE pairs == AllOthers(x) \X {x}
  <2>1. \A d, s \in Id : <<d, s>> \in pairs => d \in Existing /\ s \in Existing
    BY <1>2 DEF SubscribeAll, AllOthers, Lifecycle
  <2>2. /\ accepted' = accepted /\ types' = types /\ Existing' = Existing
        /\ NotForwarding(x)
        /\ subs' = Subscribed(pairs) /\ sentMapping' = Introduced(pairs)
        /\ told' = [told EXCEPT ![x] = @ \cup Welcome(pairs, x, name)]
    BY <1>2 DEF SubscribeAll, Existing, NotForwarding
  <2>3. \A s \in Id : told[s] \cup Welcome(pairs, s, name) \subseteq told'[s]
    BY <2>2, WelcomeOfOne DEF TypeOK
  <2> HIDE DEF pairs
  <2>4. QED
    BY <2>1, <2>2, <2>3, JoinStep
<1>3. ASSUME NEW x \in Id, FinishSubscribe(x) PROVE Introductions'
  <2> DEFINE t == task[x].arg
             pairs == {<<t, x>>}
             roots == connections \cup subscribedToAll \cup Handles(task')
             queued == [told EXCEPT ![x] = @ \cup {ChannelMsg(t, name[t])}
                                             \cup Welcome(pairs, x, name)]
  <2>1. t \in Id /\ task[x] = Subscribing(t) /\ x \in running
    BY <1>3, TaskArgs, TaskKinds DEF FinishSubscribe, TypeOK, Lifecycle
  <2>2. t \in Existing /\ x \in Existing
    BY <2>1 DEF Handles, Lifecycle
  <2>3. \A d, s \in Id : <<d, s>> \in pairs => d \in Existing /\ s \in Existing
    BY <2>2
  <2>4. /\ accepted' = accepted /\ types' = types /\ NotForwarding(x)
        /\ sentMapping' = Introduced(pairs)
        /\ Release(roots, Subscribed(pairs), queued)
    BY <1>3 DEF FinishSubscribe, NotForwarding
  <2>5. \A s \in Id : told[s] \cup Welcome(pairs, s, name) \subseteq queued[s]
    <3>1. pairs = {t} \X {x}
      OBVIOUS
    <3>2. \A s \in Id \ {x} : Welcome(pairs, s, name) = {}
      BY <3>1, WelcomeOfOne
    <3> HIDE DEF pairs
    <3>3. QED
      BY <3>2 DEF TypeOK
  <2> HIDE DEF pairs, roots, queued
  <2>6. /\ Existing' \subseteq Existing
        /\ \A c \in Id : /\ subs'[c] \subseteq Subscribed(pairs)[c]
                         /\ c \in Existing' => subs'[c] = Subscribed(pairs)[c]
        /\ \A s \in Id : queued[s] \subseteq told'[s]
    BY <2>4, ReleaseFrame
  <2>7. \A s \in Id : told[s] \cup Welcome(pairs, s, name) \subseteq told'[s]
    BY <2>5, <2>6
  <2>8. QED
    BY <2>3, <2>4, <2>6, <2>7, JoinStep
<1>4. ASSUME NEW x \in Id, FinishUnsubscribe(x) PROVE Introductions'
  <2> DEFINE t == task[x].arg
             without == [subs EXCEPT ![t] = @ \ {x}]
             left == [c \in Id |-> IF c = t THEN {x} ELSE {}]
  <2>1. t \in Id
    BY <1>4, TaskArgs DEF FinishUnsubscribe, TypeOK
  <2>2. PICK roots : Release(roots, without, told)
    BY <1>4 DEF FinishUnsubscribe
  <2>3. \A c \in Id : without[c] = subs[c] \ left[c]
    BY <2>1 DEF TypeOK
  <2>4. /\ accepted' = accepted /\ types' = types /\ NotForwarding(x)
        /\ sentMapping' = [sentMapping EXCEPT ![t] = @ \ {x}]
    BY <1>4 DEF FinishUnsubscribe, NotForwarding, SentMappingWithout
  <2>5. \A c \in Id : sentMapping'[c] = sentMapping[c] \ left[c]
    BY <2>1, <2>4 DEF TypeOK
  <2> HIDE DEF without, left
  <2>6. /\ Existing' \subseteq Existing
        /\ \A c \in Id : /\ subs'[c] \subseteq without[c]
                         /\ c \in Existing' => subs'[c] = without[c]
    BY <2>2, <2>4, ReleaseFrame
  <2>7. /\ sentMapping' \in [Id -> SUBSET Id]
        /\ \A c \in Id : /\ subs'[c] \subseteq subs[c] \ left[c]
                         /\ c \in Existing' => subs'[c] = subs[c] \ left[c]
    BY <1>0, <2>3, <2>6 DEF TypeOK
  <2>8. QED
    BY <1>0, <2>4, <2>5, <2>6, <2>7, LeaveStep
<1>5. ASSUME CheckActiveConnections PROVE Introductions'
  <2>1. /\ sentMapping' = sentMapping /\ accepted' = accepted
        /\ types' = types /\ task' = task
    BY <1>5, CheckFrame DEF CheckActiveConnections
  <2>2. PICK roots : Release(roots, subs, told)
    BY <1>5, CheckFrame
  <2>3. /\ Existing' \subseteq Existing
        /\ \A c \in Id : /\ subs'[c] \subseteq subs[c]
                         /\ c \in Existing' => subs'[c] = subs[c]
    BY <2>1, <2>2, ReleaseFrame
  <2>4. ReceiversIntroduced'
    BY <1>0, <2>1, <2>3 DEF Introductions, ReceiversIntroduced
  <2>5. SubscribersKnowTypes'
    BY <1>0, <2>1, <2>3
       DEF Introductions, SubscribersKnowTypes, SubscriberKnowsTypes, TypeOK
  <2>6. IntroducedReceive'
    BY <2>1, <2>3 DEF Introductions, IntroducedReceive
  <2>7. QED
    BY <2>4, <2>5, <2>6 DEF Introductions
<1>6. ASSUME NEW c \in Id, NEW t \in Types, RegisterMapping(c, t) PROVE Introductions'
  <2>1. /\ UNCHANGED <<accepted, destroyed, subs, sentMapping, told>>
        /\ task[c] = Idle
        /\ types' = [types EXCEPT ![c] = @ \cup {t}]
        /\ task' = [task EXCEPT ![c] = Forwarding(t)]
    BY <1>6 DEF RegisterMapping, Ready
  <2>2. ReceiversIntroduced' /\ IntroducedReceive'
    BY <2>1 DEF Introductions, ReceiversIntroduced, IntroducedReceive, Existing
  <2>3. SubscribersKnowTypes'
    BY <2>1, TaskKinds
       DEF Introductions, SubscribersKnowTypes, SubscriberKnowsTypes, TypeOK
  <2>4. QED
    BY <2>2, <2>3 DEF Introductions
<1>7. ASSUME NEW c \in Id, FinishRegisterMapping(c) PROVE Introductions'
  <2>1. /\ UNCHANGED <<accepted, destroyed, subs, sentMapping, types>>
        /\ task' = [task EXCEPT ![c] = Idle]
        /\ \A s \in Id : s \in subs[c] => TypeMsg(c, task[c].arg) \in told'[s]
    BY <1>7 DEF FinishRegisterMapping
  <2>2. ReceiversIntroduced' /\ IntroducedReceive'
    BY <1>0, <2>1 DEF Introductions, ReceiversIntroduced, IntroducedReceive, Existing
  <2>3. SubscribersKnowTypes'
    BY <1>0, <2>1, TaskKinds
       DEF Introductions, SubscribersKnowTypes, SubscriberKnowsTypes, TypeOK
  <2>4. QED
    BY <2>2, <2>3 DEF Introductions
<1>8. ASSUME NEW c \in Id, NEW r \in Id, SendTo(c, r) PROVE Introductions'
  <2>1. /\ UNCHANGED <<accepted, destroyed, subs, types, task>>
        /\ "sendTo" \in Requests[c] /\ c \in Existing
        /\ sentMapping' = [sentMapping EXCEPT ![c] = @ \cup {r}]
        /\ r \notin sentMapping[c] => Introduction(c, name[c]) \subseteq told'[r]
    BY <1>8 DEF SendTo, Ready, Lifecycle, TypeOK
  <2>2. ReceiversIntroduced'
    BY <1>0, <2>1
       DEF Introductions, ReceiversIntroduced, Introduction, ChannelMsg, TypeOK
  <2>3. SubscribersKnowTypes'
    BY <1>0, <2>1
       DEF Introductions, SubscribersKnowTypes, SubscriberKnowsTypes, TypeOK
  <2>4. IntroducedReceive'
    BY <2>1 DEF Introductions, IntroducedReceive, Existing, TypeOK
  <2>5. QED
    BY <2>2, <2>3, <2>4 DEF Introductions
<1>9. ASSUME NEW c \in Id,
             \/ Interrupted(c) \/ RegisterChannel(c)
             \/ \E n \in Name : Subscribe(c, n) \/ Unsubscribe(c, n)
      PROVE  Introductions'
  <2>1. /\ UNCHANGED <<accepted, destroyed, subs, sentMapping, types, told>>
        /\ NotForwarding(c)
    BY <1>9, TaskKinds DEF Interrupted, RegisterChannel, Subscribe, Unsubscribe,
                           Ready, NotForwarding
  <2>2. ReceiversIntroduced' /\ IntroducedReceive'
    BY <2>1 DEF Introductions, ReceiversIntroduced, IntroducedReceive, Existing
  <2>3. SubscribersKnowTypes'
    BY <2>1, StillForwarding
       DEF Introductions, SubscribersKnowTypes, SubscriberKnowsTypes
  <2>4. QED
    BY <2>2, <2>3 DEF Introductions
<1>10. ASSUME NEW c \in Id, AddConnection(c) PROVE Introductions'
  <2>1. /\ UNCHANGED <<destroyed, subs, sentMapping, types, task, told>>
        /\ accepted' = accepted \cup {c} /\ c \notin accepted
    BY <1>10 DEF AddConnection
  <2>2. ReceiversIntroduced' /\ SubscribersKnowTypes'
    BY <2>1 DEF Introductions, ReceiversIntroduced, SubscribersKnowTypes,
                SubscriberKnowsTypes
  <2>3. IntroducedReceive'
    BY <2>1 DEF Introductions, IntroducedReceive, Existing
  <2>4. QED
    BY <2>2, <2>3 DEF Introductions
<1>11. CASE UNCHANGED vars
  <2>1. UNCHANGED <<accepted, destroyed, subs, sentMapping, types, task, told>>
    BY <1>11 DEF vars
  <2>2. QED
    BY <2>1 DEF Introductions, ReceiversIntroduced, SubscribersKnowTypes,
                SubscriberKnowsTypes, IntroducedReceive, Existing
<1>12. QED
  BY <1>1, <1>2, <1>3, <1>4, <1>5, <1>6, <1>7, <1>8, <1>9, <1>10, <1>11
     DEF Next, Request, Finish

(* The inductive invariant of the introductions holds in every reachable   *)
(* state.                                                                  *)
THEOREM IntroductionInvariant == Spec => []IntroductionInv
<1>1. Init => Introductions
  BY DEF Init, Introductions, ReceiversIntroduced, SubscribersKnowTypes,
         IntroducedReceive
<1>2. QED
  BY <1>1, IntroductionStep, TypeCorrect, LifecycleHolds, PTL DEF Spec, IntroductionInv

(* Whoever receives the traffic of a channel was sent its channel mapping. *)
THEOREM EveryReceiverIntroduced == Spec => []ReceiversIntroduced
BY IntroductionInvariant, PTL DEF IntroductionInv, Introductions

(* Every subscriber of a channel whose client sends no directed messages   *)
(* was sent every type the client mapped, but the one being forwarded.     *)
THEOREM EverySubscriberKnowsTypes == Spec => []SubscribersKnowTypes
BY IntroductionInvariant, PTL DEF IntroductionInv, Introductions

-----------------------------------------------------------------------------
(* Subscriptions to everything.                                            *)

(* A connection has its name from a registration.  Whoever makes no        *)
(* subscription of its own is in a list because it subscribed to           *)
(* everything, from which nobody is ever taken.                            *)
Everything ==
  /\ \A c \in Id \ accepted : name[c] = Unnamed
  /\ \A r \in Id : task[r].op = "subscribe" => "subscribe" \in Requests[r]
  /\ \A c, r \in Id : r \in subs[c] /\ "subscribe" \notin Requests[r]
                       => r \in subscribedToAll

AllInv == IntroductionInv /\ Everything /\ AllSubscribersKnowNames

(* What a step does to the lists: only an announcement, a subscription to  *)
(* everything and a subscription add to them.                              *)
LEMMA ListsStep ==
  ASSUME TypeOK, Lifecycle, [Next]_vars
  PROVE  \/ \E x \in Id : \/ FinishRegisterChannel(x) \/ SubscribeAll(x)
                          \/ FinishSubscribe(x) \/ AddConnection(x)
         \/ /\ UNCHANGED <<accepted, name>>
            /\ subscribedToAll' = subscribedToAll
            /\ connections' \subseteq connections
            /\ \A c \in Id : subs'[c] \subseteq subs[c]
            /\ \A c \in connections', r \in Id :
                 r \in subs[c] /\ r \notin subs'[c] => task[r] = Leaving(c)
<1> DEFINE Kept1 == /\ UNCHANGED <<accepted, name>>
                    /\ subscribedToAll' = subscribedToAll
                    /\ connections' \subseteq connections
                    /\ \A c \in Id : subs'[c] \subseteq subs[c]
                    /\ \A c \in connections', r \in Id :
                         r \in subs[c] /\ r \notin subs'[c] => task[r] = Leaving(c)
<1>0. connections' \subseteq Existing' /\ connections \subseteq Id
  BY LifecycleStep DEF Lifecycle, TypeOK
<1>1. ASSUME NEW x \in Id, FinishUnsubscribe(x) PROVE Kept1
  <2> DEFINE t == task[x].arg
             without == [subs EXCEPT ![t] = @ \ {x}]
  <2>1. t \in Id /\ task[x] = Leaving(t)
    BY <1>1, TaskArgs DEF FinishUnsubscribe, TypeOK
  <2>2. PICK roots : Release(roots, without, told)
    BY <1>1 DEF FinishUnsubscribe
  <2>3. UNCHANGED <<accepted, name, subscribedToAll, connections>>
    BY <1>1 DEF FinishUnsubscribe
  <2>4. \A c, r \in Id : /\ without[c] \subseteq subs[c]
                         /\ r \in subs[c] => r \in without[c] \/ (c = t /\ r = x)
    BY <2>1 DEF TypeOK
  <2> HIDE DEF without
  <2>5. \A c \in Id : /\ subs'[c] \subseteq without[c]
                      /\ c \in Existing' => subs'[c] = without[c]
    BY <2>2, <2>3, ReleaseFrame
  <2>6. QED
    BY <1>0, <2>1, <2>3, <2>4, <2>5
<1>2. ASSUME CheckActiveConnections PROVE Kept1
  <2>1. subscribedToAll' = subscribedToAll /\ connections' \subseteq connections
    BY <1>2, NobodyUnsubscribed DEF CheckActiveConnections
  <2>2. UNCHANGED <<accepted, name>>
    BY <1>2 DEF CheckActiveConnections
  <2>3. PICK roots : Release(roots, subs, told)
    BY <1>2, CheckFrame
  <2>4. \A c \in Id : /\ subs'[c] \subseteq subs[c]
                      /\ c \in Existing' => subs'[c] = subs[c]
    BY <2>2, <2>3, ReleaseFrame
  <2>5. QED
    BY <1>0, <2>1, <2>2, <2>4
<1>3. ASSUME NEW x \in Id,
             \/ Interrupted(x) \/ RegisterChannel(x)
             \/ \E n \in Name : Subscribe(x, n) \/ Unsubscribe(x, n)
             \/ \E t \in Types : RegisterMapping(x, t)
             \/ FinishRegisterMapping(x)
             \/ \E r \in Id : SendTo(x, r)
      PROVE  Kept1
  BY <1>3 DEF Interrupted, RegisterChannel, Subscribe, Unsubscribe,
              RegisterMapping, FinishRegisterMapping, SendTo
<1>4. ASSUME UNCHANGED vars PROVE Kept1
  BY <1>4 DEF vars
<1> HIDE DEF Kept1
<1>5. Kept1 \/ \E x \in Id : \/ FinishRegisterChannel(x) \/ SubscribeAll(x)
                            \/ FinishSubscribe(x) \/ AddConnection(x)
  <2>1. CASE \E x \in Id : AddConnection(x) \/ Interrupted(x) \/ Request(x) \/ Finish(x)
    <3>1. PICK x \in Id : AddConnection(x) \/ Interrupted(x) \/ Request(x) \/ Finish(x)
      BY <2>1
    <3>2. CASE Request(x)
      BY <1>3, <3>2 DEF Request
    <3>3. CASE Finish(x)
      BY <1>1, <1>3, <3>3 DEF Finish
    <3>4. QED
      BY <1>3, <3>1, <3>2, <3>3
  <2>2. QED
    BY <1>2, <1>4, <2>1 DEF Next
<1>6. QED
  BY <1>5 DEF Kept1

(* Joining adds, and adds whom it says.                                    *)
LEMMA SubscribedFacts ==
  ASSUME TypeOK, NEW pairs
  PROVE  \A c, s \in Id : /\ subs[c] \subseteq Subscribed(pairs)[c]
                          /\ <<c, s>> \in pairs => s \in Subscribed(pairs)[c]
                          /\ s \in Subscribed(pairs)[c] => s \in subs[c] \/ <<c, s>> \in pairs
BY DEF Subscribed, Joining

(* The lists after a subscription to one channel.                          *)
LEMMA SubscribeFrame ==
  ASSUME TypeOK, Lifecycle, NEW x \in Id, FinishSubscribe(x)
  PROVE  /\ task[x].op = "subscribe"
         /\ task' = [task EXCEPT ![x] = Idle]
         /\ UNCHANGED <<accepted, connections, name, subscribedToAll>>
         /\ \A c, s \in Id : s \in subs'[c] => s \in subs[c] \/ s = x
         /\ \A c \in connections : subs[c] \subseteq subs'[c]
<1> DEFINE t == task[x].arg
           pairs == {<<t, x>>}
<1>1. /\ task[x].op = "subscribe" /\ task' = [task EXCEPT ![x] = Idle]
      /\ UNCHANGED <<accepted, connections, name, subscribedToAll>>
  BY DEF FinishSubscribe
<1>2. PICK roots, q : Release(roots, Subscribed(pairs), q)
  BY DEF FinishSubscribe
<1>3. \A c \in Id : /\ subs'[c] \subseteq Subscribed(pairs)[c]
                    /\ c \in Existing' => subs'[c] = Subscribed(pairs)[c]
  BY <1>1, <1>2, ReleaseFrame
<1>4. connections \subseteq Existing' /\ connections \subseteq Id
  <2>1. FinishSubscribe(x) => [Next]_vars
    BY DEF Next, Finish
  <2>2. QED
    BY <1>1, <2>1, LifecycleStep DEF Lifecycle, TypeOK
<1>5. \A c, s \in Id : <<c, s>> \in pairs => s = x
  OBVIOUS
<1> HIDE DEF pairs
<1>6. QED
  BY <1>1, <1>3, <1>4, <1>5, SubscribedFacts

LEMMA EverythingStep ==
  ASSUME TypeOK, Lifecycle, Everything, [Next]_vars
  PROVE  Everything'
<1>1. \A r \in Id : task'[r].op = "subscribe" => "subscribe" \in Requests[r]
  <2>1. \A r \in Id : task'[r] = task[r] \/ task'[r].op # "subscribe"
                      \/ "subscribe" \in Requests[r]
    <3> DEFINE Asked == \A r \in Id : task'[r] = task[r] \/ task'[r].op # "subscribe"
                                     \/ "subscribe" \in Requests[r]
    <3>1. CASE CheckActiveConnections \/ UNCHANGED vars
      BY <3>1 DEF CheckActiveConnections, vars
    <3>2. ASSUME NEW x \in Id, AddConnection(x) \/ Interrupted(x) \/ SubscribeAll(x)
                               \/ \E r \in Id : SendTo(x, r)
          PROVE  Asked
      BY <3>2 DEF AddConnection, Interrupted, SubscribeAll, SendTo
    <3>3. ASSUME NEW x \in Id, Finish(x) PROVE Asked
      BY <3>3 DEF Finish, FinishRegisterChannel, FinishSubscribe, FinishUnsubscribe,
                  FinishRegisterMapping, Idle, TypeOK
    <3>4. ASSUME NEW x \in Id, RegisterChannel(x) PROVE Asked
      BY <3>4 DEF RegisterChannel, Registering, TypeOK
    <3>5. ASSUME NEW x \in Id, NEW n \in Name, Subscribe(x, n) \/ Unsubscribe(x, n)
          PROVE  Asked
      BY <3>5 DEF Subscribe, Unsubscribe, Leaving, Ready, TypeOK
    <3>6. ASSUME NEW x \in Id, NEW t \in Types, RegisterMapping(x, t) PROVE Asked
      BY <3>6 DEF RegisterMapping, Forwarding, TypeOK
    <3> HIDE DEF Asked
    <3>7. ASSUME NEW x \in Id, Request(x) PROVE Asked
      BY <3>2, <3>4, <3>5, <3>6, <3>7 DEF Request
    <3>8. Asked
      BY <3>1, <3>2, <3>3, <3>7 DEF Next, Asked
    <3>9. QED
      BY <3>8 DEF Asked
  <2>2. QED
    BY <2>1 DEF Everything
<1>2. ASSUME NEW x \in Id, FinishRegisterChannel(x) PROVE Everything'
  <2> DEFINE pairs == {x} \X Followers(x)
  <2>1. /\ UNCHANGED <<accepted, subscribedToAll>>
        /\ subs' = Subscribed(pairs)
        /\ name' = [name EXCEPT ![x] = task[x].arg]
        /\ task[x] # Idle
    BY <1>2, TaskKinds DEF FinishRegisterChannel
  <2>2. x \in accepted
    BY <2>1 DEF Lifecycle, Existing
  <2>3. \A c, s \in Id : <<c, s>> \in pairs => s \in subscribedToAll
    BY DEF Followers
  <2> HIDE DEF pairs
  <2>4. \A c, r \in Id : r \in subs'[c] => r \in subs[c] \/ r \in subscribedToAll
    BY <2>1, <2>3, SubscribedFacts
  <2>5. \A c \in Id \ accepted : name'[c] = Unnamed
    BY <2>1, <2>2 DEF Everything, TypeOK
  <2>6. QED
    BY <1>1, <2>1, <2>4, <2>5 DEF Everything
<1>3. ASSUME NEW x \in Id, SubscribeAll(x) PROVE Everything'
  <2> DEFINE pairs == AllOthers(x) \X {x}
  <2>1. /\ UNCHANGED <<accepted, name>>
        /\ subs' = Subscribed(pairs)
        /\ subscribedToAll' = subscribedToAll \cup {x}
    BY <1>3 DEF SubscribeAll
  <2>2. \A c, s \in Id : <<c, s>> \in pairs => s = x
    OBVIOUS
  <2> HIDE DEF pairs
  <2>3. \A c, r \in Id : r \in subs'[c] => r \in subs[c] \/ r = x
    BY <2>1, <2>2, SubscribedFacts
  <2>4. QED
    BY <1>1, <2>1, <2>3 DEF Everything
<1>4. ASSUME NEW x \in Id, FinishSubscribe(x) PROVE Everything'
  BY <1>1, <1>4, SubscribeFrame DEF Everything
<1>5. ASSUME NEW x \in Id, AddConnection(x) PROVE Everything'
  BY <1>1, <1>5 DEF AddConnection, Everything
<1>6. QED
  BY <1>1, <1>2, <1>3, <1>4, <1>5, ListsStep DEF Everything

LEMMA KnowNamesStep ==
  ASSUME AllInv, [Next]_vars
  PROVE  AllSubscribersKnowNames'
<1> USE DEF AllInv, IntroductionInv
<1> SUFFICES ASSUME NEW c \in Id, NEW r \in Id,
                    r \in subscribedToAll', r \in subs'[c],
                    "sendTo" \notin Requests[c], "subscribe" \notin Requests[r],
                    name'[c] # Unnamed
             PROVE  ChannelMsg(c, name'[c]) \in told'[r]
  <2>1. subscribedToAll' \subseteq Id
    BY TypeStep DEF TypeOK
  <2>2. QED
    BY <2>1 DEF AllSubscribersKnowNames
<1>0. told[r] \subseteq told'[r]
  BY ToldGrows
<1>1. ASSUME r \in subscribedToAll, r \in subs[c], name'[c] = name[c]
      PROVE  ChannelMsg(c, name'[c]) \in told'[r]
  BY <1>0, <1>1 DEF AllSubscribersKnowNames
<1>2. ASSUME NEW x \in Id, FinishRegisterChannel(x)
      PROVE  ChannelMsg(c, name'[c]) \in told'[r]
  <2> DEFINE pairs == {x} \X Followers(x)
  <2>1. /\ subscribedToAll' = subscribedToAll
        /\ subs' = Subscribed(pairs)
        /\ name' = [name EXCEPT ![x] = task[x].arg]
        /\ Announcement(x, task[x].arg, r) \subseteq told'[r]
    BY <1>2 DEF FinishRegisterChannel
  <2>2. CASE c = x
    BY <2>1, <2>2 DEF Announcement, Followers, TypeOK
  <2>3. CASE c # x
    <3>1. <<c, r>> \notin pairs
      BY <2>3
    <3> HIDE DEF pairs
    <3>2. r \in subs[c] /\ name'[c] = name[c]
      BY <2>1, <2>3, <3>1, SubscribedFacts DEF TypeOK
    <3>3. QED
      BY <1>1, <2>1, <3>2
  <2>4. QED
    BY <2>2, <2>3
<1>3. ASSUME NEW x \in Id, SubscribeAll(x)
      PROVE  ChannelMsg(c, name'[c]) \in told'[r]
  <2> DEFINE pairs == AllOthers(x) \X {x}
  <2>1. /\ UNCHANGED name
        /\ subs' = Subscribed(pairs)
        /\ subscribedToAll' = subscribedToAll \cup {x}
        /\ told' = [told EXCEPT ![x] = @ \cup Welcome(pairs, x, name)]
        /\ AllOthers(x) \subseteq connections
    BY <1>3 DEF SubscribeAll, AllOthers
  <2>2. CASE r \in subs[c]
    BY <1>1, <2>1, <2>2 DEF Everything
  <2>3. CASE r \notin subs[c]
    <3>1. <<c, r>> \in pairs
      <4> HIDE DEF pairs
      <4>1. QED
        BY <2>1, <2>3, SubscribedFacts
    <3>2. r = x /\ c \in Existing /\ r \in Joining(pairs, c)
      BY <2>1, <2>3, <3>1 DEF Lifecycle, Joining
    <3>3. r \notin sentMapping[c]
      BY <2>3, <3>2 DEF Introductions, IntroducedReceive
    <3>4. ChannelMsg(c, name[c]) \in Welcome(pairs, x, name)
      BY <3>2, <3>3 DEF Welcome, Introduction
    <3> HIDE DEF pairs
    <3>5. QED
      BY <2>1, <3>2, <3>4 DEF TypeOK
  <2>4. QED
    BY <2>2, <2>3
<1>4. ASSUME NEW x \in Id, FinishSubscribe(x)
      PROVE  ChannelMsg(c, name'[c]) \in told'[r]
  BY <1>1, <1>4, SubscribeFrame DEF Everything
<1>5. ASSUME NEW x \in Id, AddConnection(x)
      PROVE  ChannelMsg(c, name'[c]) \in told'[r]
  BY <1>1, <1>5 DEF AddConnection
<1>6. QED
  BY <1>1, <1>2, <1>3, <1>4, <1>5, ListsStep

(* What a subscriber to everything knows, with what makes it inductive.    *)
THEOREM AllInvariant == Spec => []AllInv
<1>1. Init => Everything /\ AllSubscribersKnowNames
  BY DEF Init, Everything, AllSubscribersKnowNames, Idle
<1>2. AllInv /\ [Next]_vars => Everything' /\ AllSubscribersKnowNames'
  BY EverythingStep, KnowNamesStep DEF AllInv, IntroductionInv
<1>3. QED
  BY <1>1, <1>2, IntroductionInvariant, PTL DEF Spec, AllInv

(* A client subscribed to everything has been sent the real name of every  *)
(* registered channel, unless it met the channel in another way before.    *)
THEOREM EveryNameIsKnown == Spec => []AllSubscribersKnowNames
BY AllInvariant, PTL DEF AllInv

(* A subscription to everything misses no channel, those that connect and  *)
(* register later included: only the client's own unsubscribe takes one    *)
(* away.                                                                   *)
THEOREM NothingIsMissed == Spec => AllMeansAll
<1> DEFINE Missed(r, c) == ~Missing(r, c) /\ Missing(r, c)' => task[r] = Leaving(c)
<1>1. ASSUME TypeOK, Lifecycle, Everything, [Next]_vars, NEW r \in Id, NEW c \in Id
      PROVE  Missed(r, c)
  <2>1. ASSUME NEW x \in Id, FinishRegisterChannel(x) PROVE Missed(r, c)
    <3> DEFINE pairs == {x} \X Followers(x)
    <3>1. /\ UNCHANGED <<subscribedToAll, connections>>
          /\ subs' = Subscribed(pairs)
          /\ name' = [name EXCEPT ![x] = task[x].arg]
      BY <2>1 DEF FinishRegisterChannel
    <3>2. c = x /\ r \in subscribedToAll => <<c, r>> \in pairs
      BY DEF Followers
    <3> HIDE DEF pairs
    <3>3. subs[c] \subseteq subs'[c] /\ (c = x /\ r \in subscribedToAll => r \in subs'[c])
      BY <1>1, <3>1, <3>2, SubscribedFacts
    <3>4. c # x => name'[c] = name[c]
      BY <1>1, <3>1 DEF TypeOK
    <3>5. QED
      BY <3>1, <3>3, <3>4 DEF Missing
  <2>2. ASSUME NEW x \in Id, SubscribeAll(x) PROVE Missed(r, c)
    <3> DEFINE pairs == AllOthers(x) \X {x}
    <3>1. /\ UNCHANGED <<name, connections>>
          /\ subscribedToAll' = subscribedToAll \cup {x}
          /\ subs' = Subscribed(pairs)
      BY <2>2 DEF SubscribeAll
    <3>2. r = x /\ c \in connections \ {r} => <<c, r>> \in pairs
      BY DEF AllOthers
    <3> HIDE DEF pairs
    <3>3. /\ subs[c] \subseteq subs'[c]
          /\ r = x /\ c \in connections \ {r} => r \in subs'[c]
      BY <1>1, <3>1, <3>2, SubscribedFacts
    <3>4. QED
      BY <3>1, <3>3 DEF Missing
  <2>3. ASSUME NEW x \in Id, FinishSubscribe(x) PROVE Missed(r, c)
    BY <1>1, <2>3, SubscribeFrame DEF Missing
  <2>4. ASSUME NEW x \in Id, AddConnection(x) PROVE Missed(r, c)
    BY <1>1, <2>4 DEF AddConnection, Missing, Everything
  <2>5. QED
    BY <1>1, <2>1, <2>2, <2>3, <2>4, ListsStep DEF Missing
<1>2. TypeOK /\ Lifecycle /\ Everything /\ [Next]_vars =>
        [\A r, c \in Id : ~Missing(r, c) /\ Missing(r, c)' => task[r] = Leaving(c)]_vars
  BY <1>1
<1>3. QED
  BY <1>2, AllInvariant, PTL DEF Spec, AllMeansAll, AllInv, IntroductionInv

-----------------------------------------------------------------------------
(* What is stopped is found.                                               *)

(* Kept keeps no more than it must: each object is held from outside or by *)
(* one that is kept.                                                       *)
LEMMA KeptHeld ==
  ASSUME NEW roots, NEW sb, NEW o \in Kept(roots, sb)
  PROVE  o \in roots \/ \E p \in Kept(roots, sb) : o \in sb[p]
<1>1. PICK S \in SUBSET Existing :
        o \in S /\ \A x \in S : x \in roots \/ \E p \in S : x \in sb[p]
  BY DEF Kept
<1>2. S \subseteq Kept(roots, sb)
  BY <1>1 DEF Kept
<1>3. QED
  BY <1>1, <1>2

(* The tables and the workers in mid-request.                              *)
HeldOutside == connections \cup subscribedToAll \cup Handles(task)

(* Every object that lives is held, from outside or by another that lives. *)
LivingAreHeld ==
  \A o \in Existing : o \in HeldOutside \/ \E p \in Existing : o \in subs[p]

LEMMA ReleaseHeld ==
  ASSUME TypeOK, Lifecycle, accepted' = accepted, NEW sb, NEW q,
         Release(HeldOutside', sb, q)
  PROVE  LivingAreHeld'
<1> DEFINE kept == Kept(HeldOutside', sb)
           dying == Existing \ kept
<1>1. kept \subseteq Existing
  BY KeptClosed
<1>2. \A o \in kept : o \in HeldOutside' \/ \E p \in kept : o \in sb[p]
  BY KeptHeld
<1>3. /\ destroyed' = destroyed \cup dying
      /\ subs' = [c \in Id |-> IF c \in dying THEN {} ELSE sb[c]]
  BY DEF Release
<1> HIDE DEF kept
<1>4. Existing' = kept
  BY <1>1, <1>3 DEF Existing, Lifecycle
<1>5. \A p \in kept : subs'[p] = sb[p]
  BY <1>1, <1>3 DEF Existing, TypeOK
<1>6. QED
  BY <1>2, <1>4, <1>5 DEF LivingAreHeld

(* Steps that let nothing go.                                              *)
LEMMA GrowthHeld ==
  ASSUME LivingAreHeld, Existing' \subseteq Existing \cup connections',
         HeldOutside \subseteq HeldOutside', Existing \subseteq Existing',
         \A c \in Existing : subs[c] \subseteq subs'[c]
  PROVE  LivingAreHeld'
<1> SUFFICES ASSUME NEW o \in Existing'
             PROVE  o \in HeldOutside' \/ \E p \in Existing' : o \in subs'[p]
  BY DEF LivingAreHeld
<1>1. CASE o \in connections'
  BY <1>1 DEF HeldOutside
<1>2. CASE o \in Existing
  BY <1>2 DEF LivingAreHeld
<1>3. QED
  BY <1>1, <1>2

(* A worker that held no handle lets none go.                              *)
LEMMA HandlesKept ==
  ASSUME TypeOK, NEW c \in Id, NEW k, task' = [task EXCEPT ![c] = k],
         task[c].op \notin {"subscribe", "unsubscribe"}
  PROVE  Handles(task) \subseteq Handles(task')
<1>1. \A d \in Id : d # c => task'[d] = task[d]
  BY DEF TypeOK
<1>2. \A t : task[c] \notin {Subscribing(t), Leaving(t)}
  BY TaskKinds
<1>3. QED
  BY <1>1, <1>2 DEF Handles

LEMMA HeldStep == TypeOK /\ Lifecycle /\ LivingAreHeld /\ [Next]_vars => LivingAreHeld'
<1> SUFFICES ASSUME TypeOK, Lifecycle, LivingAreHeld, [Next]_vars
             PROVE  LivingAreHeld'
  OBVIOUS
<1>1. ASSUME NEW c \in Id, AddConnection(c) PROVE LivingAreHeld'
  <2>1. /\ Existing' = Existing \cup {c} /\ connections' = connections \cup {c}
        /\ UNCHANGED <<subscribedToAll, task, subs>>
    BY <1>1 DEF AddConnection, Existing, Lifecycle
  <2>2. QED
    BY <2>1, HandlesPrime, GrowthHeld DEF HeldOutside
<1>2. ASSUME NEW c \in Id, FinishRegisterChannel(c) PROVE LivingAreHeld'
  <2> DEFINE pairs == {c} \X Followers(c)
  <2>1. /\ UNCHANGED <<accepted, destroyed, connections, subscribedToAll>>
        /\ subs' = Subscribed(pairs)
        /\ task[c].op = "register" /\ task' = [task EXCEPT ![c] = Idle]
    BY <1>2 DEF FinishRegisterChannel
  <2> HIDE DEF pairs
  <2>2. Handles(task) \subseteq Handles(task')
    BY <2>1, HandlesKept
  <2>3. Existing' = Existing /\ \A d \in Existing : subs[d] \subseteq subs'[d]
    BY <2>1, SubscribedFacts DEF Existing, TypeOK
  <2>4. HeldOutside \subseteq HeldOutside'
    BY <2>1, <2>2, HandlesPrime DEF HeldOutside
  <2>5. QED
    BY <2>3, <2>4, GrowthHeld
<1>3. ASSUME NEW s \in Id, SubscribeAll(s) PROVE LivingAreHeld'
  <2> DEFINE pairs == AllOthers(s) \X {s}
  <2>1. /\ UNCHANGED <<accepted, destroyed, connections, task>>
        /\ subscribedToAll' = subscribedToAll \cup {s} /\ subs' = Subscribed(pairs)
    BY <1>3 DEF SubscribeAll
  <2> HIDE DEF pairs
  <2>2. Existing' = Existing /\ \A d \in Existing : subs[d] \subseteq subs'[d]
    BY <2>1, SubscribedFacts DEF Existing, TypeOK
  <2>3. HeldOutside \subseteq HeldOutside'
    BY <2>1, HandlesPrime DEF HeldOutside
  <2>4. QED
    BY <2>2, <2>3, GrowthHeld
<1>4. ASSUME NEW c \in Id,
             \/ RegisterChannel(c)
             \/ \E n \in Name : Subscribe(c, n) \/ Unsubscribe(c, n)
             \/ \E t \in Types : RegisterMapping(c, t)
             \/ FinishRegisterMapping(c)
      PROVE  LivingAreHeld'
  <2>1. /\ UNCHANGED <<accepted, destroyed, connections, subscribedToAll, subs>>
        /\ task[c].op \notin {"subscribe", "unsubscribe"}
        /\ \E k : task' = [task EXCEPT ![c] = k]
    BY <1>4, TaskKinds DEF RegisterChannel, Subscribe, Unsubscribe, RegisterMapping,
                           FinishRegisterMapping, Ready
  <2>2. Handles(task) \subseteq Handles(task')
    BY <2>1, HandlesKept
  <2>3. Existing' = Existing /\ HeldOutside \subseteq HeldOutside'
    BY <2>1, <2>2, HandlesPrime DEF Existing, HeldOutside
  <2>4. QED
    BY <2>1, <2>3, GrowthHeld
<1>5. ASSUME NEW c \in Id, Interrupted(c) \/ \E r \in Id : SendTo(c, r)
      PROVE  LivingAreHeld'
  BY <1>5, HandlesPrime DEF Interrupted, SendTo, LivingAreHeld, HeldOutside, Existing
<1>6. ASSUME NEW s \in Id, FinishSubscribe(s) \/ FinishUnsubscribe(s)
      PROVE  LivingAreHeld'
  <2>1. PICK sb, q :
          Release(connections \cup subscribedToAll \cup Handles(task'), sb, q)
    BY <1>6 DEF FinishSubscribe, FinishUnsubscribe
  <2>2. UNCHANGED <<accepted, connections, subscribedToAll>>
    BY <1>6 DEF FinishSubscribe, FinishUnsubscribe
  <2>3. HeldOutside' = connections \cup subscribedToAll \cup Handles(task')
    BY <2>2, HandlesPrime DEF HeldOutside
  <2>4. QED
    BY <2>1, <2>2, <2>3, ReleaseHeld
<1>7. ASSUME CheckActiveConnections PROVE LivingAreHeld'
  <2>1. PICK sb : Release(connections' \cup subscribedToAll' \cup Handles(task), sb, told)
    BY <1>7 DEF CheckActiveConnections
  <2>2. UNCHANGED <<accepted, task>>
    BY <1>7 DEF CheckActiveConnections
  <2>3. HeldOutside' = connections' \cup subscribedToAll' \cup Handles(task)
    BY <2>2, HandlesPrime DEF HeldOutside
  <2>4. QED
    BY <2>1, <2>2, <2>3, ReleaseHeld
<1>8. CASE UNCHANGED vars
  BY <1>8, HandlesPrime DEF vars, LivingAreHeld, HeldOutside, Existing
<1>9. QED
  BY <1>1, <1>2, <1>3, <1>4, <1>5, <1>6, <1>7, <1>8 DEF Next, Request, Finish

(* Whoever lets go last destroys (the shared pointers of Dispatch and      *)
(* Connection): an object that lives is in a table, in the hands of a      *)
(* worker or in the list of another that lives.                            *)
THEOREM NothingLingers == Spec => []LivingAreHeld
<1>1. Init => LivingAreHeld
  BY DEF Init, LivingAreHeld, Existing
<1>2. QED
  BY <1>1, HeldStep, TypeCorrect, LifecycleHolds, PTL DEF Spec

(* When the checker comes round, a stopped connection that nothing else    *)
(* holds is destroyed and its subscribers told, and until then it is in the*)
(* table that the checker goes through.                                    *)
StoppedAreFound ==
  \A c \in accepted \ running : Unheld(c) =>
    /\ c \in destroyed \/ c \in Dead
    /\ CheckActiveConnections =>
         /\ c \in destroyed'
         /\ \A s \in subs[c] : GoneMsg(c) \in told'[s]

(* The checker misses no stopped connection that nothing else holds        *)
(* (checkActiveConnections, ~Connection): the safety that                  *)
(* SubscribersAreTold rests on.                                            *)
THEOREM CheckerFindsStopped == Spec => [][StoppedAreFound]_vars
<1>1. ASSUME TypeOK, Lifecycle, LivingAreHeld, [Next]_vars PROVE StoppedAreFound
  <2> SUFFICES ASSUME NEW c \in accepted \ running, Unheld(c)
               PROVE  /\ c \in destroyed \/ c \in Dead
                      /\ CheckActiveConnections =>
                           /\ c \in destroyed'
                           /\ \A s \in subs[c] : GoneMsg(c) \in told'[s]
    BY DEF StoppedAreFound
  <2>1. /\ c \in Id /\ c \notin subscribedToAll /\ c \notin Handles(task)
        /\ \A d \in Existing : c \notin subs[d]
    BY <1>1 DEF Unheld, TypeOK, Existing
  <2>2. c \in destroyed \/ c \in Dead
    BY <1>1, <2>1 DEF LivingAreHeld, HeldOutside, Existing, Dead
  <2>3. ASSUME CheckActiveConnections
        PROVE  /\ c \in destroyed'
               /\ \A s \in subs[c] : GoneMsg(c) \in told'[s]
    <3>1. /\ connections' = connections \ Dead
          /\ subscribedToAll' \subseteq subscribedToAll
          /\ UNCHANGED <<accepted, task>>
      BY <2>3 DEF CheckActiveConnections
    <3>2. LivingAreHeld' /\ Lifecycle'
      BY <1>1, HeldStep, LifecycleStep
    <3>3. PICK roots : Release(roots, subs, told)
      BY <1>1, <2>3, CheckFrame
    <3>4. /\ Existing' \subseteq Existing
          /\ \A d \in Id : subs'[d] \subseteq subs[d]
          /\ \A s \in Id : s \in subs[c] /\ s \notin subs'[c] => GoneMsg(c) \in told'[s]
      BY <1>1, <2>1, <3>1, <3>3, ReleaseFrame
    <3>5. c \notin HeldOutside'
      BY <2>1, <2>2, <3>1, <1>1, HandlesPrime DEF HeldOutside, Lifecycle, Existing
    <3>6. \A d \in Existing' : c \notin subs'[d]
      BY <1>1, <2>1, <3>4 DEF Existing, TypeOK
    <3>7. c \notin Existing'
      BY <3>2, <3>5, <3>6 DEF LivingAreHeld
    <3>8. c \in destroyed'
      BY <3>1, <3>7 DEF Existing
    <3>9. CASE c \in Existing
      <4>1. subs'[c] = {}
        BY <2>1, <3>2, <3>7 DEF Lifecycle
      <4>2. QED
        BY <1>1, <2>1, <3>4, <3>8, <4>1 DEF TypeOK
    <3>10. CASE c \notin Existing
      <4>1. subs[c] = {}
        BY <1>1, <2>1, <3>10 DEF Lifecycle
      <4>2. QED
        BY <3>8, <4>1
    <3>11. QED
      BY <3>9, <3>10
  <2>4. QED
    BY <2>2, <2>3
<1>2. TypeOK /\ Lifecycle /\ LivingAreHeld /\ [Next]_vars => [StoppedAreFound]_vars
  BY <1>1
<1>3. QED
  BY <1>2, TypeCorrect, LifecycleHolds, NothingLingers, PTL DEF Spec
=============================================================================
