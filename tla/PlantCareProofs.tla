-------------------------- MODULE PlantCareProofs ---------------------------
(***************************************************************************)
(* The proofs about PlantCare, for any levels, settings and bounds.        *)
(*                                                                         *)
(* A run of the service commands one connection of the pot at most, and    *)
(* what it sent last says what the label says.                             *)
(***************************************************************************)
EXTENDS PlantCare, SequenceTheorems, TLAPS

(* Commands of this run are for its target and behind those of others.     *)
CommandsInOrder ==
  \A i \in 1..Len(commands) :
    commands[i].by = runs =>
      /\ commands[i].to = targetEpId
      /\ \A j \in i..Len(commands) : commands[j].by = runs

(* A pot that obeyed this run is its target, and no other run is heard.    *)
PumpObeys ==
  pumpBy = runs =>
    /\ pot # 0 /\ pot = targetEpId
    /\ \A i \in 1..Len(commands) : commands[i].by = runs

(* A target is found once in a run.                                        *)
TargetOnce ==
  /\ targetEpId # 0 => mapping = 0
  /\ targetEpId # 0 \/ mapping # 0 => ~subscribing

LastAgrees ==
  (commands # <<>> /\ commands[Len(commands)].by = runs)
    => commands[Len(commands)].on = solution

IInv ==
  /\ TypeOK
  /\ CommandsInOrder /\ PumpObeys /\ TargetOnce /\ LastAgrees
  /\ LabelAgrees

-----------------------------------------------------------------------------
Command(n, r) == [to : 1..n, on : BOOLEAN, by : 1..r]
Reading(n)    == [from : 1..n, level : Level]

(* A queue of messages is one of messages of a larger type.                *)
LEMMA Wider ==
  ASSUME NEW S, NEW T, S \subseteq T, NEW s \in Seq(S)
  PROVE  s \in Seq(T)
<1>1. \A i \in 1..Len(s) : s[i] \in T
  OBVIOUS
<1> QED BY <1>1

LEMMA Prefix ==
  ASSUME NEW S, NEW s \in Seq(S), NEW n \in 0..Len(s)
  PROVE  /\ SubSeq(s, 1, n) \in Seq(S)
         /\ Len(SubSeq(s, 1, n)) = n
         /\ \A i \in 1..n : SubSeq(s, 1, n)[i] = s[i]
<1>1. \A i \in 1..n : s[i] \in S
  OBVIOUS
<1>2. n \in Int /\ 1 \in Int /\ n - 1 + 1 = n
  OBVIOUS
<1> QED BY <1>1, <1>2, SubSeqProperties

LEMMA WiderTypes ==
  ASSUME TypeOK
  PROVE  /\ commands \in Seq(Command(pots + 1, runs))
         /\ commands \in Seq(Command(pots, runs + 1))
         /\ readings \in Seq(Reading(pots + 1))
<1>1. /\ commands \in Seq(Command(pots, runs))
      /\ readings \in Seq(Reading(pots))
      /\ pots \in Nat /\ runs \in Nat
  BY PlantCareAssumption DEF TypeOK, Command, Reading, Run
<1>2. /\ Command(pots, runs) \subseteq Command(pots + 1, runs)
      /\ Command(pots, runs) \subseteq Command(pots, runs + 1)
      /\ Reading(pots) \subseteq Reading(pots + 1)
  BY <1>1 DEF Command, Reading
<1> QED BY <1>1, <1>2, Wider

(* What startPump or stopPump leaves in the queue.                         *)
LEMMA SendPumpType ==
  ASSUME TypeOK, NEW on \in BOOLEAN, SendPump(on)
  PROVE  /\ commands' \in Seq(Command(pots, runs))
         /\ swallowed' \in BOOLEAN
<1>1. commands \in Seq(Command(pots, runs))
  BY DEF TypeOK, Command
<1>2. CASE targetEpId = 0
  BY <1>1, <1>2 DEF SendPump, TypeOK
<1>3. CASE targetEpId # 0
  <2>1. targetEpId \in 1..pots /\ runs \in 1..runs
    BY <1>3, PlantCareAssumption DEF TypeOK, Run
  <2>2. [to |-> targetEpId, on |-> on, by |-> runs] \in Command(pots, runs)
    BY <2>1 DEF Command
  <2>3. commands' = Append(commands,
                     [to |-> targetEpId, on |-> on, by |-> runs])
    BY <1>3 DEF SendPump
  <2>4. commands' \in Seq(Command(pots, runs))
    BY <1>1, <2>2, <2>3, AppendProperties
  <2> QED BY <1>3, <2>4 DEF SendPump, TypeOK
<1> QED BY <1>2, <1>3

LEMMA ExecuteType ==
  ASSUME TypeOK, NEW l \in Level, Execute(l)
  PROVE  /\ commands' \in Seq(Command(pots, runs))
         /\ swallowed' \in BOOLEAN
         /\ was' \in Band /\ solution' \in BOOLEAN
<1>1. was' \in Band
  BY DEF Execute, TypeOK, Band
<1>2. CASE Below(l) /\ was # "lower"
  <2>1. SendPump(TRUE) /\ solution' = TRUE
    BY <1>2 DEF Execute
  <2> QED BY <1>1, <2>1, SendPumpType
<1>3. CASE ~(Below(l) /\ was # "lower") /\ Contains(l) /\ Undesired(was)
  <2>1. SendPump(FALSE) /\ solution' = FALSE
    BY <1>3 DEF Execute
  <2> QED BY <1>1, <2>1, SendPumpType
<1>4. CASE ~(Below(l) /\ was # "lower") /\ ~(Contains(l) /\ Undesired(was))
  <2>1. UNCHANGED <<solution, commands, swallowed>>
    BY <1>4 DEF Execute, LabelElse
  <2> QED BY <1>1, <2>1 DEF TypeOK, Command
<1> QED BY <1>2, <1>3, <1>4

LEMMA TypeStep ==
  ASSUME TypeOK, [Next]_vars
  PROVE  TypeOK'
<1> USE PlantCareAssumption DEF Level, Run
<1>1. CASE Connect
  <2>1. /\ commands \in Seq([to : 1..pots', on : BOOLEAN, by : 1..runs])
        /\ readings \in Seq([from : 1..pots', level : Level])
    BY <1>1, WiderTypes DEF Connect, Command, Reading
  <2> QED BY <1>1, <2>1 DEF Connect, TypeOK, pump, link, service, tracker
<1>2. CASE Reboot
  <2>1. pot' \in 0..pots /\ pot' \in open \cup {0} /\ pumpBy' \in 0..runs
    BY <1>2 DEF Reboot, TypeOK
  <2> QED BY <1>2, <2>1 DEF Reboot, TypeOK, broker, link, service, tracker
<1>3. CASE BeginPulse \/ EndPulse \/ CutShort \/ Rest
  BY <1>3 DEF BeginPulse, EndPulse, CutShort, Rest, TypeOK, broker, link,
              service, tracker
<1>4. CASE Soil
  BY <1>4 DEF Soil, TypeOK, potVars, broker, link, service, tracker
<1>5. CASE SendReadings
  <2>1. [from |-> pot, level |-> moisture] \in [from : 1..pots, level : Level]
    BY <1>5 DEF SendReadings, TypeOK
  <2>2. readings' \in Seq([from : 1..pots, level : Level])
    BY <1>5, <2>1 DEF SendReadings, TypeOK
  <2> QED BY <1>5, <2>2 DEF SendReadings, TypeOK, potVars, broker, link, service,
                            tracker
<1>6. CASE TogglePump
  <2>1. /\ commands' \in Seq([to : 1..pots, on : BOOLEAN, by : 1..runs])
        /\ Head(commands) \in [to : 1..pots, on : BOOLEAN, by : 1..runs]
    BY <1>6, HeadTailProperties DEF TogglePump, TypeOK
  <2>2. pumpOn' \in BOOLEAN /\ pumpBy' \in 0..runs
    BY <1>6, <2>1 DEF TogglePump, TypeOK
  <2> QED BY <1>6, <2>1, <2>2 DEF TogglePump, TypeOK, pump, broker, link, service,
                                  tracker
<1>7. CASE Subscribe
  <2>1. mapping' \in 0..pots /\ subscribed' \in SUBSET open
    BY <1>7 DEF Subscribe, TypeOK
  <2> QED BY <1>7, <2>1 DEF Subscribe, TypeOK, potVars, service, tracker
<1>8. ASSUME NEW c \in open, RemoveConnection(c)
      PROVE  TypeOK'
  BY <1>8 DEF RemoveConnection, NameWithout, TypeOK, potVars, service, tracker
<1>9. CASE SetValue
  <2>1. /\ readings' \in Seq([from : 1..pots, level : Level])
        /\ Head(readings) \in [from : 1..pots, level : Level]
    BY <1>9, HeadTailProperties DEF SetValue, TypeOK
  <2>2. /\ commands' \in Seq([to : 1..pots, on : BOOLEAN, by : 1..runs])
        /\ swallowed' \in BOOLEAN
        /\ was' \in Band /\ solution' \in BOOLEAN /\ value' \in Level
    <3>1. CASE Head(readings).from \in known /\ enabledAuto
      BY <1>9, <2>1, <3>1, ExecuteType DEF SetValue, Command
    <3>2. CASE ~(Head(readings).from \in known /\ enabledAuto)
      BY <1>9, <2>1, <3>2 DEF SetValue, TypeOK
    <3> QED BY <3>1, <3>2
  <2> QED BY <1>9, <2>1, <2>2 DEF SetValue, TypeOK, potVars, broker, link
<1>10. ASSUME NEW state \in BOOLEAN, AutoAction(state)
       PROVE  TypeOK'
  <2>1. /\ commands' \in Seq([to : 1..pots, on : BOOLEAN, by : 1..runs])
        /\ swallowed' \in BOOLEAN
        /\ was' \in Band /\ solution' \in BOOLEAN
    <3>1. CASE state
      <4>1. value \in Level /\ Execute(value)
        BY <1>10, <3>1 DEF AutoAction, TypeOK
      <4> QED BY <4>1, ExecuteType DEF Command
    <3>2. CASE ~state
      <4>1. SendPump(FALSE) /\ solution' = FALSE /\ was' = "desired"
        BY <1>10, <3>2 DEF AutoAction, OffBand
      <4> QED BY <4>1, SendPumpType DEF Command, Band
    <3> QED BY <3>1, <3>2
  <2> QED BY <1>10, <2>1 DEF AutoAction, TypeOK, potVars, broker, link
<1>11. ASSUME NEW interval \in [left : Level, right : Level], SetDesired(interval)
       PROVE  TypeOK'
  BY <1>11 DEF SetDesired, TypeOK, potVars, broker, link
<1>12. CASE NotifyMapping
  BY <1>12 DEF NotifyMapping, TypeOK, potVars, broker, tracker
<1>13. ASSUME NEW c \in gone, NotifyTermination(c)
       PROVE  TypeOK'
  BY <1>13 DEF NotifyTermination, TypeOK, potVars, broker, tracker
<1>14. ASSUME NEW sent \in 0..Len(commands), Restart(sent)
       PROVE  TypeOK'
  <2>1. commands \in Seq([to : 1..pots, on : BOOLEAN, by : 1..runs'])
    BY <1>14, WiderTypes DEF Restart, Command
  <2>2. commands' \in Seq([to : 1..pots, on : BOOLEAN, by : 1..runs'])
    BY <1>14, <2>1, Prefix DEF Restart
  <2>3. readings' \in Seq([from : 1..pots, level : Level])
    BY <1>14 DEF Restart
  <2>4. /\ runs' \in Run /\ pumpBy' \in 0..runs'
        /\ mapping' \in 0..pots' /\ targetEpId' \in 0..pots'
        /\ pots' = pots
    BY <1>14 DEF Restart, TypeOK, potVars
  <2>5. /\ pot' \in 0..pots' /\ pot' \in open' \cup {0} /\ named' \in open' \cup {0}
        /\ open' \in SUBSET (1..pots') /\ subscribed' \in SUBSET open'
        /\ known' \in SUBSET (1..pots') /\ gone' \in SUBSET (1..pots')
    BY <1>14 DEF Restart, TypeOK, potVars
  <2>6. /\ was' \in Band /\ value' \in Level
        /\ desired' \in [left : Level, right : Level]
    BY <1>14 DEF Restart, TypeOK, Band
  <2>7. runs' \in Nat /\ pots' = pots
    BY <1>14 DEF Restart, TypeOK
  <2> QED BY <1>14, <2>2, <2>3, <2>4, <2>5, <2>6, <2>7 DEF Restart, TypeOK, potVars
<1>15. CASE UNCHANGED vars
  BY <1>15 DEF vars, TypeOK, potVars, broker, link, service, tracker
<1> QED BY <1>1, <1>2, <1>3, <1>4, <1>5, <1>6, <1>7, <1>8, <1>9, <1>10, <1>11,
           <1>12, <1>13, <1>14, <1>15 DEF Next, Pot, Service

(* Every variable of the pot, the broker and the service keeps its type    *)
(* (loop of SmartPot and of plant_main).                                   *)
THEOREM PlantTypesCorrect == Spec => []TypeOK
<1>1. Init => TypeOK
  <2> SUFFICES ASSUME Init PROVE TypeOK
    OBVIOUS
  <2> USE PlantCareAssumption DEF Level, Run, Band
  <2>1. /\ pots \in 0..MaxPots /\ pot \in 0..pots /\ open \in SUBSET (1..pots)
        /\ subscribed \in SUBSET open /\ mapping \in 0..pots
        /\ gone \in SUBSET (1..pots) /\ known \in SUBSET (1..pots)
        /\ targetEpId \in 0..pots
    BY DEF Init
  <2>2. /\ readings \in Seq([from : 1..pots, level : Level])
        /\ commands \in Seq([to : 1..pots, on : BOOLEAN, by : 1..runs])
    BY DEF Init
  <2>3. /\ value \in Level /\ desired \in [left : Level, right : Level]
        /\ runs \in Run /\ moves \in 0..MaxMoves /\ pumpBy \in 0..runs
    BY DEF Init
  <2> QED BY <2>1, <2>2, <2>3 DEF Init, TypeOK
<1> QED BY <1>1, TypeStep, PTL DEF Spec

-----------------------------------------------------------------------------
Obedience == CommandsInOrder /\ PumpObeys /\ TargetOnce /\ LastAgrees /\ LabelAgrees

(* Without a target no command of this run is under way or was obeyed.     *)
LEMMA NoTarget ==
  ASSUME TypeOK, Obedience, targetEpId = 0
  PROVE  /\ \A i \in 1..Len(commands) : commands[i].by # runs
         /\ pumpBy # runs
<1>1. commands \in Seq(Command(pots, runs)) /\ pots \in Nat
  BY PlantCareAssumption DEF TypeOK, Command
<1>2. \A i \in 1..Len(commands) : commands[i] \in Command(pots, runs)
  BY <1>1
<1>3. \A i \in 1..Len(commands) : commands[i].to # 0
  BY <1>1, <1>2 DEF Command
<1> QED BY <1>3 DEF Obedience, CommandsInOrder, PumpObeys

(* Steps that leave the queue, the pump and the label alone.               *)
LEMMA QuietStep ==
  ASSUME Obedience, pumpBy = runs => pot' = pot,
         UNCHANGED <<pumpOn, pumpBy, commands, runs, targetEpId, solution>>,
         mapping' = mapping, subscribing' = subscribing
  PROVE  Obedience'
BY DEF Obedience, CommandsInOrder, PumpObeys, TargetOnce, LastAgrees, LabelAgrees

(* startPump and stopPump, with the label that goes with them.             *)
LEMMA SendStep ==
  ASSUME TypeOK, Obedience, NEW on \in BOOLEAN, SendPump(on), solution' = on,
         UNCHANGED <<pot, pumpOn, pumpBy, runs, targetEpId, mapping, subscribing>>
  PROVE  Obedience'
<1>1. commands \in Seq(Command(pots, runs)) /\ pots \in Nat /\ runs \in Nat
  BY PlantCareAssumption DEF TypeOK, Command, Run
<1>2. CASE targetEpId = 0
  <2>1. commands' = commands
    BY <1>2 DEF SendPump
  <2>2. commands # <<>> => commands[Len(commands)].by # runs
    BY <1>1, <1>2, NoTarget
  <2> QED BY <1>2, <2>1, <2>2, NoTarget
         DEF Obedience, CommandsInOrder, PumpObeys, TargetOnce, LastAgrees, LabelAgrees
<1>3. CASE targetEpId # 0
  <2> DEFINE m == [to |-> targetEpId, on |-> on, by |-> runs]
  <2>1. commands' = Append(commands, m)
    BY <1>3 DEF SendPump
  <2>2. /\ Len(commands') = Len(commands) + 1
        /\ \A i \in 1..Len(commands) : commands'[i] = commands[i]
        /\ commands'[Len(commands')] = m
        /\ Len(commands) \in Nat
    BY <1>1, <2>1
  <2>3. commands' # <<>>
    BY <2>2
  <2>4. CommandsInOrder'
    BY <2>2 DEF Obedience, CommandsInOrder
  <2>5. PumpObeys'
    BY <2>2 DEF Obedience, PumpObeys
  <2>6. LastAgrees'
    BY <2>2 DEF LastAgrees
  <2> QED BY <2>3, <2>4, <2>5, <2>6 DEF Obedience, TargetOnce, LabelAgrees
<1> QED BY <1>2, <1>3

LEMMA ExecuteStep ==
  ASSUME TypeOK, Obedience, NEW l \in Level, Execute(l),
         UNCHANGED <<pot, pumpOn, pumpBy, runs, targetEpId, mapping, subscribing>>
  PROVE  Obedience'
<1>1. CASE Below(l) /\ was # "lower"
  <2>1. SendPump(TRUE) /\ solution' = TRUE
    BY <1>1 DEF Execute
  <2> QED BY <2>1, SendStep
<1>2. CASE ~(Below(l) /\ was # "lower") /\ Contains(l) /\ Undesired(was)
  <2>1. SendPump(FALSE) /\ solution' = FALSE
    BY <1>2 DEF Execute
  <2> QED BY <2>1, SendStep
<1>3. CASE ~(Below(l) /\ was # "lower") /\ ~(Contains(l) /\ Undesired(was))
  <2>1. UNCHANGED <<solution, commands>>
    BY <1>3 DEF Execute, LabelElse
  <2> QED BY <2>1, QuietStep
<1> QED BY <1>1, <1>2, <1>3

(* A command that reaches the pot, or comes too late for its connection.   *)
LEMMA TogglePumpStep ==
  ASSUME TypeOK, Obedience, TogglePump
  PROVE  Obedience'
<1>1. commands \in Seq(Command(pots, runs)) /\ commands # <<>>
  BY DEF TypeOK, Command, TogglePump
<1>2. commands' = Tail(commands) /\ Head(commands) = commands[1]
  BY <1>1 DEF TogglePump
<1>3. /\ Len(commands) \in Nat \ {0}
      /\ Len(commands') = Len(commands) - 1
      /\ \A i \in 1..Len(commands') : commands'[i] = commands[i + 1]
  BY <1>1, <1>2, HeadTailProperties
<1>4. UNCHANGED <<pot, runs, targetEpId, mapping, subscribing, solution>>
  BY DEF TogglePump, service, tracker, link
<1>5. CommandsInOrder'
  <2> SUFFICES ASSUME NEW i \in 1..Len(commands'), commands'[i].by = runs
               PROVE  /\ commands'[i].to = targetEpId
                      /\ \A j \in i..Len(commands') : commands'[j].by = runs
    BY <1>4 DEF CommandsInOrder
  <2>1. i + 1 \in 1..Len(commands) /\ commands[i + 1].by = runs
    BY <1>3
  <2>2. /\ commands[i + 1].to = targetEpId
        /\ \A j \in (i + 1)..Len(commands) : commands[j].by = runs
    BY <2>1 DEF Obedience, CommandsInOrder
  <2>3. ASSUME NEW j \in i..Len(commands')
        PROVE  commands'[j].by = runs
    <3>1. j \in 1..Len(commands') /\ j + 1 \in (i + 1)..Len(commands)
      BY <1>3
    <3> QED BY <1>3, <2>2, <3>1
  <2> QED BY <1>3, <2>2, <2>3
<1>6. pumpBy' = runs => \A i \in 1..Len(commands) : commands[i].by = runs
  <2>1. CASE commands[1].to = pot
    <3>1. pumpBy' = commands[1].by
      BY <1>2, <2>1 DEF TogglePump
    <3>2. 1 \in 1..Len(commands)
      BY <1>3
    <3>3. commands[1].by = runs => \A j \in 1..Len(commands) : commands[j].by = runs
      BY <3>2 DEF Obedience, CommandsInOrder
    <3> QED BY <3>1, <3>3
  <2>2. CASE commands[1].to # pot
    <3>1. pumpBy' = pumpBy
      BY <1>2, <2>2 DEF TogglePump
    <3> QED BY <3>1 DEF Obedience, PumpObeys
  <2> QED BY <2>1, <2>2
<1>7. pumpBy' = runs => pot # 0 /\ pot = targetEpId /\ pumpOn' = commands[1].on
  <2>1. ASSUME pumpBy' = runs
        PROVE  commands[1].by = runs /\ commands[1].to = targetEpId
    BY <1>3, <1>6, <2>1 DEF Obedience, CommandsInOrder
  <2>2. CASE commands[1].to = pot
    <3>1. pumpOn' = commands[1].on
      BY <1>2, <2>2 DEF TogglePump
    <3>2. commands[1] \in Command(pots, runs) /\ pots \in Nat
      BY <1>1, <1>3, PlantCareAssumption DEF TypeOK
    <3>3. commands[1].to # 0
      BY <3>2 DEF Command
    <3> QED BY <2>1, <2>2, <3>1, <3>3
  <2>3. CASE commands[1].to # pot
    <3>1. pumpBy' = pumpBy
      BY <1>2, <2>3 DEF TogglePump
    <3> QED BY <2>1, <2>3, <3>1 DEF Obedience, PumpObeys
  <2> QED BY <2>2, <2>3
<1>8. PumpObeys'
  <2>1. \A i \in 1..Len(commands') : i + 1 \in 1..Len(commands)
    BY <1>3
  <2> QED BY <1>3, <1>4, <1>6, <1>7, <2>1 DEF PumpObeys
<1>9. LastAgrees'
  <2> SUFFICES ASSUME commands' # <<>>, commands'[Len(commands')].by = runs
               PROVE  commands'[Len(commands')].on = solution
    BY <1>4 DEF LastAgrees
  <2>1. Len(commands') \in 1..Len(commands')
    BY <1>1, <1>2, <1>3, EmptySeq
  <2>2. commands'[Len(commands')] = commands[Len(commands)]
    BY <1>3, <2>1
  <2> QED BY <1>1, <2>2 DEF Obedience, LastAgrees
<1>10. LabelAgrees'
  <2> SUFFICES ASSUME commands' = <<>>, pumpBy' = runs
               PROVE  pumpOn' = solution
    BY <1>4 DEF LabelAgrees
  <2>1. Len(commands) = 1
    BY <1>3
  <2> QED BY <1>1, <1>6, <1>7, <2>1 DEF Obedience, LastAgrees
<1> QED BY <1>4, <1>5, <1>8, <1>9, <1>10 DEF Obedience, TargetOnce

LEMMA ObedienceStep ==
  ASSUME TypeOK, Obedience, [Next]_vars
  PROVE  Obedience'
<1>1. CASE Connect
  <2>1. pumpBy # runs
    BY <1>1 DEF Connect, Obedience, PumpObeys
  <2> QED BY <1>1, <2>1, QuietStep DEF Connect, link, service, tracker
<1>2. CASE Reboot
  <2>1. pumpBy' # runs'
    BY <1>2, PlantCareAssumption DEF Reboot, TypeOK, Run, service
  <2>2. UNCHANGED <<commands, runs, targetEpId, solution, mapping, subscribing>>
    BY <1>2 DEF Reboot, link, service, tracker
  <2> QED BY <2>1, <2>2 DEF Obedience, CommandsInOrder, PumpObeys, TargetOnce,
                            LastAgrees, LabelAgrees
<1>3. CASE BeginPulse \/ EndPulse \/ CutShort \/ Rest
  BY <1>3, QuietStep DEF BeginPulse, EndPulse, CutShort, Rest, link, service, tracker
<1>4. CASE Soil \/ SendReadings
  BY <1>4, QuietStep DEF Soil, SendReadings, potVars, link, service, tracker
<1>5. CASE TogglePump
  BY <1>5, TogglePumpStep
<1>6. CASE Subscribe
  <2>1. targetEpId = 0 /\ subscribing' = FALSE
    BY <1>6 DEF Subscribe, Obedience, TargetOnce
  <2>2. UNCHANGED <<pot, pumpOn, pumpBy, commands, runs, targetEpId, solution>>
    BY <1>6 DEF Subscribe, potVars, service, tracker
  <2> QED BY <2>1, <2>2 DEF Obedience, CommandsInOrder, PumpObeys, TargetOnce,
                            LastAgrees, LabelAgrees
<1>7. ASSUME NEW c \in open, RemoveConnection(c)
      PROVE  Obedience'
  BY <1>7, QuietStep DEF RemoveConnection, potVars, service, tracker
<1>8. CASE SetValue
  <2>1. UNCHANGED <<pot, pumpOn, pumpBy, runs, targetEpId, mapping, subscribing>>
    BY <1>8 DEF SetValue, potVars, link
  <2>2. CASE Head(readings).from \in known /\ enabledAuto
    <3>1. Head(readings) \in [from : 1..pots, level : Level]
      BY <1>8, HeadTailProperties DEF SetValue, TypeOK
    <3>2. Execute(Head(readings).level) /\ Head(readings).level \in Level
      BY <1>8, <2>2, <3>1 DEF SetValue
    <3> QED BY <2>1, <3>2, ExecuteStep
  <2>3. CASE ~(Head(readings).from \in known /\ enabledAuto)
    <3>1. UNCHANGED <<solution, commands>>
      BY <1>8, <2>3 DEF SetValue
    <3> QED BY <2>1, <3>1, QuietStep
  <2> QED BY <2>2, <2>3
<1>9. ASSUME NEW state \in BOOLEAN, AutoAction(state)
      PROVE  Obedience'
  <2>1. UNCHANGED <<pot, pumpOn, pumpBy, runs, targetEpId, mapping, subscribing>>
    BY <1>9 DEF AutoAction, potVars, link
  <2>2. CASE state
    <3>1. Execute(value) /\ value \in Level
      BY <1>9, <2>2 DEF AutoAction, TypeOK
    <3> QED BY <2>1, <3>1, ExecuteStep
  <2>3. CASE ~state
    <3>1. SendPump(FALSE) /\ solution' = FALSE
      BY <1>9, <2>3 DEF AutoAction
    <3> QED BY <2>1, <3>1, SendStep
  <2> QED BY <2>2, <2>3
<1>10. ASSUME NEW interval \in [left : Level, right : Level], SetDesired(interval)
       PROVE  Obedience'
  BY <1>10, QuietStep DEF SetDesired, potVars, link
<1>11. CASE NotifyMapping
  <2>1. targetEpId = 0 /\ mapping' = 0 /\ subscribing' = FALSE
    BY <1>11 DEF NotifyMapping, Obedience, TargetOnce, TypeOK
  <2>2. UNCHANGED <<pot, pumpOn, pumpBy, commands, runs, solution>>
    BY <1>11 DEF NotifyMapping, potVars, tracker
  <2>3. /\ \A i \in 1..Len(commands) : commands[i].by # runs
        /\ pumpBy # runs
    BY <2>1, NoTarget
  <2>4. commands # <<>> => commands[Len(commands)].by # runs
    <3>1. commands \in Seq(Command(pots, runs))
      BY DEF TypeOK, Command
    <3> QED BY <2>3, <3>1
  <2> QED BY <2>1, <2>2, <2>3, <2>4 DEF Obedience, CommandsInOrder, PumpObeys,
                                        TargetOnce, LastAgrees, LabelAgrees
<1>12. ASSUME NEW c \in gone, NotifyTermination(c)
       PROVE  Obedience'
  BY <1>12, QuietStep DEF NotifyTermination, potVars, tracker
<1>13. ASSUME NEW sent \in 0..Len(commands), Restart(sent)
       PROVE  Obedience'
  <2>1. /\ commands \in Seq(Command(pots, runs))
        /\ runs \in Nat /\ pots \in Nat /\ pumpBy \in 0..runs
    BY PlantCareAssumption DEF TypeOK, Command, Run
  <2>2. /\ commands' \in Seq(Command(pots, runs))
        /\ \A i \in 1..Len(commands') : commands'[i] \in Command(pots, runs)
    BY <1>13, <2>1, Prefix DEF Restart
  <2>3. \A i \in 1..Len(commands') : commands'[i].by # runs'
    BY <1>13, <2>1, <2>2 DEF Restart, Command
  <2>4. commands' # <<>> => commands'[Len(commands')].by # runs'
    BY <2>2, <2>3
  <2>5. pumpBy' # runs' /\ targetEpId' = 0 /\ mapping' = 0
    BY <1>13, <2>1 DEF Restart, potVars
  <2> QED BY <2>3, <2>4, <2>5 DEF Obedience, CommandsInOrder, PumpObeys,
                                  TargetOnce, LastAgrees, LabelAgrees
<1>14. CASE UNCHANGED vars
  BY <1>14, QuietStep DEF vars, potVars, link, service, tracker
<1> QED BY <1>1, <1>2, <1>3, <1>4, <1>5, <1>6, <1>7, <1>8, <1>9, <1>10, <1>11,
           <1>12, <1>13, <1>14 DEF Next, Pot, Service

(* The invariant is inductive: a run sends commands to one connection, in  *)
(* order, each with its label (startPump, stopPump, notifyMapping).        *)
THEOREM PlantInvariant == Spec => []IInv
<1>1. Init => Obedience
  BY DEF Init, Obedience, CommandsInOrder, PumpObeys, TargetOnce, LastAgrees, LabelAgrees
<1>2. TypeOK /\ Obedience /\ [Next]_vars => Obedience'
  BY ObedienceStep
<1>3. TypeOK /\ Obedience => IInv
  BY DEF Obedience, IInv
<1> QED BY <1>1, <1>2, <1>3, PlantTypesCorrect, PTL DEF Spec

(* Once a command of the running service has reached the pot and no other  *)
(* is under way, the pump is on exactly if the label says so.              *)
THEOREM LabelIsRight == Spec => []LabelAgrees
BY PlantInvariant, PTL DEF IInv

-----------------------------------------------------------------------------
(* The band of the tracker, its label and its commands go together.        *)

(* The tracker has asked for something in this run.                        *)
Decided == was \in {"lower", "desired"} \/ solution

BandInv ==
  /\ was = "lower" => solution
  /\ was \in {"none", "desired"} => ~solution

(* What it asked a connection for that is still the pot's was obeyed or is *)
(* under way: a connection that is not yet lost has lost nothing.          *)
Asked == \E i \in 1..Len(commands) : commands[i].by = runs

ReachedInv ==
  (Decided /\ ~swallowed) =>
    /\ targetEpId # 0
    /\ pot = targetEpId => pumpBy = runs \/ Asked

(* While no slider is moved, the band is that of the last level.           *)
EvaluatedInv ==
  (enabledAuto /\ moves = 0) =>
    /\ Above(value) => was = "higher"
    /\ Contains(value) => was = "desired"
    /\ (Below(value) /\ ~Above(value)) => was = "lower"

BandsInv == BandInv /\ ReachedInv /\ EvaluatedInv

(* Steps that leave the tracker and the queue alone, and the pump obeying  *)
(* at least whom it obeyed.                                                *)
LEMMA BandQuietStep ==
  ASSUME BandsInv, UNCHANGED <<enabledAuto, was, value, desired, solution>>,
         moves' = moves,
         UNCHANGED <<commands, runs, targetEpId, swallowed>>,
         pot' = targetEpId => pot' = pot /\ pumpBy' = pumpBy
  PROVE  BandsInv'
BY DEF BandsInv, BandInv, ReachedInv, EvaluatedInv, Decided, Asked, Above, Below,
       Contains

(* startPump and stopPump: the command is under way, or swallowed.         *)
LEMMA SendReaches ==
  ASSUME TypeOK, NEW on \in BOOLEAN, SendPump(on),
         UNCHANGED <<pot, pumpBy, runs, targetEpId>>
  PROVE  ReachedInv'
<1>1. commands \in Seq(Command(pots, runs))
  BY DEF TypeOK, Command
<1>2. CASE targetEpId = 0
  BY <1>2 DEF SendPump, ReachedInv
<1>3. CASE targetEpId # 0
  <2> DEFINE m == [to |-> targetEpId, on |-> on, by |-> runs]
  <2>1. commands' = Append(commands, m)
    BY <1>3 DEF SendPump
  <2>2. Len(commands') \in 1..Len(commands') /\ commands'[Len(commands')] = m
    BY <1>1, <2>1
  <2>3. Asked'
    BY <2>2 DEF Asked
  <2> QED BY <1>3, <2>3 DEF ReachedInv
<1> QED BY <1>2, <1>3

(* A level is above, in or below the interval, and of one turned around    *)
(* both above and below.                                                   *)
LEMMA ExecuteBands ==
  ASSUME TypeOK, BandInv, ReachedInv, NEW l \in Level, Execute(l),
         UNCHANGED <<pot, pumpBy, runs, targetEpId, desired>>
  PROVE  /\ BandInv' /\ ReachedInv'
         /\ Above(l) => was' = "higher"
         /\ Contains(l) => was' = "desired"
         /\ (Below(l) /\ ~Above(l)) => was' = "lower"
<1>1. /\ Above(l) => was' = "higher"
      /\ Contains(l) => was' = "desired"
      /\ (Below(l) /\ ~Above(l)) => was' = "lower"
  BY DEF Execute, Contains
<1>2. Above(l) \/ Contains(l) \/ Below(l)
  BY DEF Contains
<1>3. CASE Below(l) /\ was # "lower"
  <2>1. SendPump(TRUE) /\ solution' = TRUE
    BY <1>3 DEF Execute
  <2>2. was' \in {"higher", "lower"}
    BY <1>1, <1>3
  <2> QED BY <1>1, <2>1, <2>2, SendReaches DEF BandInv
<1>4. CASE ~(Below(l) /\ was # "lower") /\ Contains(l) /\ Undesired(was)
  <2>1. SendPump(FALSE) /\ solution' = FALSE
    BY <1>4 DEF Execute
  <2> QED BY <1>1, <1>4, <2>1, SendReaches DEF BandInv
<1>5. CASE ~(Below(l) /\ was # "lower") /\ ~(Contains(l) /\ Undesired(was))
  <2>1. UNCHANGED <<solution, commands, swallowed>>
    BY <1>5 DEF Execute, LabelElse
  <2>2. was' = "higher" \/ was' = was
    BY <1>1, <1>2, <1>5 DEF Undesired
  <2> QED BY <1>1, <2>1, <2>2 DEF BandInv, ReachedInv, Decided, Asked
<1> QED BY <1>3, <1>4, <1>5

(* The pot obeys the first command: if it was for the pot's own connection *)
(* and of this run, the pump has obeyed this run.                          *)
LEMMA TogglePumpBands ==
  ASSUME TypeOK, Obedience, BandsInv, TogglePump
  PROVE  BandsInv'
<1>1. commands \in Seq(Command(pots, runs)) /\ commands # <<>>
  BY DEF TypeOK, Command, TogglePump
<1>2. commands' = Tail(commands) /\ Head(commands) = commands[1]
  BY <1>1 DEF TogglePump
<1>3. /\ Len(commands) \in Nat \ {0}
      /\ Len(commands') = Len(commands) - 1
      /\ \A i \in 1..Len(commands') : commands'[i] = commands[i + 1]
  BY <1>1, <1>2, HeadTailProperties
<1>4. /\ UNCHANGED <<pot, runs, targetEpId, swallowed, moves>>
      /\ UNCHANGED <<enabledAuto, was, value, desired, solution>>
  BY DEF TogglePump, service, tracker
<1>5. ReachedInv'
  <2> SUFFICES ASSUME Decided, ~swallowed, pot = targetEpId, ~Asked'
               PROVE  pumpBy' = runs
    BY <1>4 DEF BandsInv, ReachedInv, Decided
  <2>1. 1 \in 1..Len(commands)
    BY <1>3
  <2>2. CASE Asked
    <3>1. PICK i \in 1..Len(commands) : commands[i].by = runs
      BY <2>2 DEF Asked
    <3>2. i = 1
      <4>1. SUFFICES ASSUME i # 1 PROVE FALSE
        OBVIOUS
      <4>2. i - 1 \in 1..Len(commands') /\ commands'[i - 1] = commands[i]
        BY <1>3, <4>1
      <4> QED BY <1>4, <3>1, <4>2 DEF Asked
    <3>3. commands[1].to = targetEpId
      BY <2>1, <3>1, <3>2 DEF Obedience, CommandsInOrder
    <3> QED BY <1>2, <3>1, <3>2, <3>3 DEF TogglePump
  <2>3. CASE pumpBy = runs
    <3>1. commands[1].by = runs
      BY <2>1, <2>3 DEF Obedience, PumpObeys
    <3> QED BY <1>2, <2>3, <3>1 DEF TogglePump
  <2> QED BY <2>2, <2>3 DEF BandsInv, ReachedInv
<1> QED BY <1>4, <1>5 DEF BandsInv, BandInv, EvaluatedInv, Above, Below, Contains

LEMMA BandsStep ==
  ASSUME TypeOK, Obedience, BandsInv, [Next]_vars
  PROVE  BandsInv'
<1>1. CASE Connect
  <2>1. pot' # targetEpId
    BY <1>1, PlantCareAssumption DEF Connect, TypeOK
  <2> QED BY <1>1, <2>1, BandQuietStep DEF Connect, service, tracker
<1>2. CASE Reboot
  <2>1. ReachedInv'
    BY <1>2 DEF Reboot, BandsInv, ReachedInv, Decided, service, tracker
  <2> QED BY <1>2, <2>1 DEF Reboot, BandsInv, BandInv, EvaluatedInv, Above, Below,
                            Contains, service, tracker
<1>3. CASE BeginPulse \/ EndPulse \/ CutShort \/ Rest \/ Soil \/ SendReadings
  BY <1>3, BandQuietStep DEF BeginPulse, EndPulse, CutShort, Rest, Soil, SendReadings,
                             potVars, service, tracker
<1>4. CASE TogglePump
  BY <1>4, TogglePumpBands
<1>5. CASE Subscribe
  BY <1>5, BandQuietStep DEF Subscribe, potVars, service, tracker
<1>6. ASSUME NEW c \in open, RemoveConnection(c)
      PROVE  BandsInv'
  BY <1>6, BandQuietStep DEF RemoveConnection, potVars, service, tracker
<1>7. CASE SetValue
  <2>1. UNCHANGED <<pot, pumpBy, runs, targetEpId, desired, enabledAuto, moves>>
    BY <1>7 DEF SetValue, potVars
  <2>2. CASE Head(readings).from \in known
    <3>1. Head(readings) \in [from : 1..pots, level : Level]
      BY <1>7, HeadTailProperties DEF SetValue, TypeOK
    <3>2. value' = Head(readings).level /\ value' \in Level
      BY <1>7, <2>2, <3>1 DEF SetValue
    <3>3. CASE enabledAuto
      <4>1. Execute(value')
        BY <1>7, <2>2, <3>2, <3>3 DEF SetValue
      <4>2. /\ BandInv' /\ ReachedInv'
            /\ Above(value') => was' = "higher"
            /\ Contains(value') => was' = "desired"
            /\ (Below(value') /\ ~Above(value')) => was' = "lower"
        BY <2>1, <3>2, <4>1, ExecuteBands DEF BandsInv
      <4> QED BY <2>1, <4>2 DEF BandsInv, EvaluatedInv, Above, Below, Contains
    <3>4. CASE ~enabledAuto
      <4>1. UNCHANGED <<was, solution, commands, swallowed>>
        BY <1>7, <2>2, <3>4 DEF SetValue
      <4> QED BY <2>1, <3>4, <4>1 DEF BandsInv, BandInv, ReachedInv, EvaluatedInv,
                                      Decided, Asked
    <3> QED BY <3>3, <3>4
  <2>3. CASE Head(readings).from \notin known
    <3>1. UNCHANGED <<value, was, solution, commands, swallowed>>
      BY <1>7, <2>3 DEF SetValue
    <3> QED BY <2>1, <3>1, BandQuietStep
  <2> QED BY <2>2, <2>3
<1>8. ASSUME NEW state \in BOOLEAN, AutoAction(state)
      PROVE  BandsInv'
  <2>1. UNCHANGED <<pot, pumpBy, runs, targetEpId, desired, value>>
    BY <1>8 DEF AutoAction, potVars
  <2>2. CASE state
    <3>1. Execute(value) /\ value \in Level
      BY <1>8, <2>2 DEF AutoAction, TypeOK
    <3>2. /\ BandInv' /\ ReachedInv'
          /\ Above(value) => was' = "higher"
          /\ Contains(value) => was' = "desired"
          /\ (Below(value) /\ ~Above(value)) => was' = "lower"
      BY <2>1, <3>1, ExecuteBands DEF BandsInv
    <3> QED BY <2>1, <3>2 DEF BandsInv, EvaluatedInv, Above, Below, Contains
  <2>3. CASE ~state
    <3>1. SendPump(FALSE) /\ solution' = FALSE /\ was' = "desired" /\ ~enabledAuto'
      BY <1>8, <2>3 DEF AutoAction, OffBand
    <3> QED BY <2>1, <3>1, SendReaches DEF BandsInv, BandInv, EvaluatedInv
  <2> QED BY <2>2, <2>3
<1>9. ASSUME NEW interval \in [left : Level, right : Level], SetDesired(interval)
      PROVE  BandsInv'
  <2>1. moves' # 0
    BY <1>9, PlantCareAssumption DEF SetDesired, TypeOK
  <2> QED BY <1>9, <2>1 DEF SetDesired, potVars, BandsInv, BandInv, ReachedInv,
                            EvaluatedInv, Decided, Asked
<1>10. CASE NotifyMapping
  <2>1. targetEpId = 0
    BY <1>10 DEF NotifyMapping, Obedience, TargetOnce, TypeOK
  <2>2. UNCHANGED <<enabledAuto, was, value, desired, solution, moves, swallowed>>
    BY <1>10 DEF NotifyMapping, tracker
  <2>3. ~Decided \/ swallowed
    BY <2>1 DEF BandsInv, ReachedInv
  <2>4. ReachedInv'
    BY <2>2, <2>3 DEF ReachedInv, Decided
  <2> QED BY <2>2, <2>4 DEF BandsInv, BandInv, EvaluatedInv, Above, Below, Contains
<1>11. ASSUME NEW c \in gone, NotifyTermination(c)
       PROVE  BandsInv'
  BY <1>11, BandQuietStep DEF NotifyTermination, potVars, tracker
<1>12. ASSUME NEW sent \in 0..Len(commands), Restart(sent)
       PROVE  BandsInv'
  BY <1>12 DEF Restart, BandsInv, BandInv, ReachedInv, EvaluatedInv, Decided
<1>13. CASE UNCHANGED vars
  BY <1>13, BandQuietStep DEF vars, potVars, service, tracker
<1> QED BY <1>1, <1>2, <1>3, <1>4, <1>5, <1>6, <1>7, <1>8, <1>9, <1>10, <1>11,
           <1>12, <1>13 DEF Next, Pot, Service

(* At rest the pump obeys the tracker.  With no command under way, a pot   *)
(* that is the target of the service has its pump on if the tracker last   *)
(* found the soil too dry and off if it found it right, unless a command   *)
(* was swallowed before there was a target; and as long as automation is   *)
(* on and no slider was moved, what the tracker found is what the interval *)
(* says of the last level.                                                 *)
RestingPump ==
  (commands = <<>> /\ ~swallowed /\ pot # 0 /\ targetEpId = pot) =>
    /\ was = "lower" => pumpOn
    /\ was = "desired" => ~pumpOn
    /\ (enabledAuto /\ moves = 0) =>
         /\ Contains(value) => ~pumpOn
         /\ (Below(value) /\ ~Above(value)) => pumpOn

(* The pump of a linked pot agrees with the band of the tracker whenever   *)
(* no command is under way (executeOnLower, executeOnDesired, PumpHandler):*)
(* the safety that WetStops and DryStarts rest on.                         *)
THEOREM PumpFollowsBand == Spec => []RestingPump
<1>1. Init => BandsInv
  BY DEF Init, BandsInv, BandInv, ReachedInv, EvaluatedInv, Decided
<1>2. IInv /\ BandsInv /\ [Next]_vars => BandsInv'
  BY BandsStep DEF IInv, Obedience
<1>3. IInv /\ BandsInv => RestingPump
  <2> SUFFICES ASSUME IInv, BandsInv, commands = <<>>, ~swallowed, pot # 0,
                      targetEpId = pot
               PROVE  /\ was = "lower" => pumpOn
                      /\ was = "desired" => ~pumpOn
                      /\ (enabledAuto /\ moves = 0) =>
                           /\ Contains(value) => ~pumpOn
                           /\ (Below(value) /\ ~Above(value)) => pumpOn
    BY DEF RestingPump
  <2>1. ~Asked
    BY DEF Asked
  <2>2. Decided => pumpBy = runs
    BY <2>1 DEF BandsInv, ReachedInv
  <2>3. was = "lower" => pumpOn
    BY <2>2 DEF IInv, LabelAgrees, Decided, BandsInv, BandInv
  <2>4. was = "desired" => ~pumpOn
    BY <2>2 DEF IInv, LabelAgrees, Decided, BandsInv, BandInv
  <2> QED BY <2>3, <2>4 DEF BandsInv, EvaluatedInv
<1> QED BY <1>1, <1>2, <1>3, PlantInvariant, PTL DEF Spec

-----------------------------------------------------------------------------
(* The pump runs in a pulse, and after one that was cut short, and at no   *)
(* other time.                                                             *)
PumpWorks == running <=> (actualPumpOn \/ cutShort)

(* A pump that is between two pulses is still, unless it was switched off  *)
(* in the middle of one (pumpFunction and loop of RealPot): the safety that*)
(* PumpRests rests on.                                                     *)
THEOREM PumpRunsInPulses == Spec => []PumpWorks
<1>1. Init => PumpWorks
  BY DEF Init, PumpWorks
<1>2. PumpWorks /\ [Next]_vars => PumpWorks'
  <2> SUFFICES ASSUME PumpWorks, [Next]_vars
               PROVE  PumpWorks'
    OBVIOUS
  <2>1. CASE Reboot \/ BeginPulse \/ EndPulse \/ CutShort \/ Rest
    BY <2>1 DEF Reboot, BeginPulse, EndPulse, CutShort, Interrupted, Rest, PumpWorks
  <2>2. CASE Connect \/ TogglePump
    BY <2>2 DEF Connect, TogglePump, pump, PumpWorks
  <2>3. CASE Soil \/ SendReadings \/ Subscribe \/ (\E c \in open : RemoveConnection(c))
    BY <2>3 DEF Soil, SendReadings, Subscribe, RemoveConnection, potVars, PumpWorks
  <2>4. CASE Service
    <3>1. UNCHANGED potVars
      BY <2>4 DEF Service, SetValue, NotifyMapping, AutoAction, SetDesired,
                  NotifyTermination, Restart
    <3> QED BY <3>1 DEF potVars, PumpWorks
  <2>5. CASE UNCHANGED vars
    BY <2>5 DEF vars, potVars, PumpWorks
  <2> QED BY <2>1, <2>2, <2>3, <2>4, <2>5 DEF Next, Pot
<1> QED BY <1>1, <1>2, PTL DEF Spec

(* Once a pulse was cut short, the pump runs on until it is switched on    *)
(* again or the pot reboots (loop of RealPot): no step of the service or   *)
(* the broker, and not the rest of the pot, stops it.                      *)
RunsOn == (cutShort /\ ~pumpOn) => (running' \/ pot' = 0)

(* The pot does not correct what CutShort left (loop of RealPot).            *)
THEOREM CutPumpRunsOn == Spec => [][RunsOn]_vars
<1>1. PumpWorks /\ [Next]_vars => [RunsOn]_vars
  <2> SUFFICES ASSUME PumpWorks, Next, cutShort, ~pumpOn
               PROVE  running' \/ pot' = 0
    BY DEF RunsOn
  <2>1. running
    BY DEF PumpWorks
  <2>2. CASE Reboot \/ BeginPulse \/ EndPulse \/ CutShort \/ Rest
    BY <2>1, <2>2 DEF Reboot, BeginPulse, EndPulse, CutShort, Rest
  <2>3. CASE Connect \/ TogglePump
    BY <2>1, <2>3 DEF Connect, TogglePump, pump
  <2>4. CASE Soil \/ SendReadings \/ Subscribe \/ (\E c \in open : RemoveConnection(c))
             \/ Service
    BY <2>1, <2>4 DEF Soil, SendReadings, Subscribe, RemoveConnection, Service,
                      SetValue, NotifyMapping, AutoAction, SetDesired,
                      NotifyTermination, Restart, potVars
  <2> QED BY <2>2, <2>3, <2>4 DEF Next, Pot
<1> QED BY <1>1, PumpRunsInPulses, PTL DEF Spec
=============================================================================
