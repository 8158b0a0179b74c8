----------------------------- MODULE PlantCare -----------------------------
(***************************************************************************)
(* Automatic irrigation: the soil tracker of the plant health service, the *)
(* smart pot that it switches by directed messages, and the broker between *)
(* them.                                                                   *)
(*                                                                         *)
(* The service acts on edges: it remembers the band of the last reading and*)
(* sends a command only when the band changes.  A command that is lost, or *)
(* that nobody was there to be sent, is therefore not repeated.  The pot   *)
(* gives water in pulses for as long as its pump is switched on.           *)
(*                                                                         *)
(* Percentages are levels; the calibration that makes them and the labels  *)
(* that show them are left out.  Light has the same tracker.  A message    *)
(* from the service to the pot is one queue, and from the pot to the       *)
(* service another; introductions and terminations come by other threads   *)
(* of the broker and have no order with either (see Delivery).             *)
(***************************************************************************)
EXTENDS Naturals, Sequences

CONSTANTS
  MaxLevel,  \* the wettest soil
  Settings,  \* intervals that the settings file may have
  MaxPots,   \* bound: connections of the pot
  MaxRuns,   \* bound: runs of the service
  MaxMoves,  \* bound: moves of the sliders
  MaxQueue   \* bound: messages under way in each direction

ASSUME PlantCareAssumption ==
  /\ MaxLevel \in Nat /\ MaxPots \in Nat /\ MaxMoves \in Nat
  /\ MaxRuns \in Nat \ {0} /\ MaxQueue \in Nat
  /\ Settings \subseteq [left : 0..MaxLevel, right : 0..MaxLevel]

VARIABLES
  pot,        \* the pot's connection, 0 while it has none
  pumpOn,     \* RealPot::pumpOn
  actualPumpOn, \* RealPot::actualPumpOn
  running,    \* PUMP_PIN is LOW
  rested,     \* pumpDelay is over
  moisture,   \* the level of the soil
  pots,       \* broker: connections the pot has made
  open,       \* broker: those in the table
  named,      \* broker: the one that has the pot's name, or 0
  subscribed, \* broker: those with the service in their subs
  subscribing,\* the service's only Subscribe is on its way
  mapping,    \* the connection whose introduction is on its way, or 0
  gone,       \* those whose termination is on its way
  readings,   \* Soil messages on their way
  commands,   \* TogglePump messages on their way
  known,      \* service: connections it has a delegator for
  targetEpId, \* OutputHelper::targetEpId
  enabledAuto,\* tracker: enabledAuto
  was,        \* tracker: which of wasLower, wasDesired, wasHigher is set
  value,      \* tracker: the last level
  desired,    \* tracker: the desired interval
  solution,   \* tracker: solutionLabel shows "On"
  runs,       \* runs of the service
  moves,      \* moves of the sliders
  pumpBy,     \* history: the run whose command the pot obeyed last
  cutShort,   \* history: the pump was stopped in the middle of a pulse
  swallowed   \* history: there was no target for a command of this run

potVars == <<pot, pumpOn, actualPumpOn, running, rested, pumpBy, cutShort>>
pump    == <<actualPumpOn, running, rested, cutShort>>
broker  == <<pots, open, named, subscribed>>
link    == <<subscribing, mapping, gone>>
tracker == <<enabledAuto, was, value, desired, solution>>
service == <<known, targetEpId, tracker, runs, swallowed>>
vars == <<potVars, moisture, broker, link, readings, commands, service, moves>>

Level == 0..MaxLevel
Conn  == 1..MaxPots
Run   == 1..MaxRuns
Band  == {"none", "lower", "desired", "higher"}

TypeOK ==
  /\ pots \in 0..MaxPots
  /\ pot \in 0..pots
  /\ pumpOn \in BOOLEAN /\ actualPumpOn \in BOOLEAN
  /\ running \in BOOLEAN /\ rested \in BOOLEAN
  /\ moisture \in Level
  /\ open \in SUBSET (1..pots)
  /\ pot \in open \cup {0} /\ named \in open \cup {0}
  /\ subscribed \in SUBSET open
  /\ subscribing \in BOOLEAN
  /\ mapping \in 0..pots /\ gone \in SUBSET (1..pots)
  /\ readings \in Seq([from : 1..pots, level : Level])
  /\ commands \in Seq([to : 1..pots, on : BOOLEAN, by : 1..runs])
  /\ known \in SUBSET (1..pots)
  /\ targetEpId \in 0..pots
  /\ enabledAuto \in BOOLEAN /\ was \in Band
  /\ value \in Level /\ desired \in [left : Level, right : Level]
  /\ solution \in BOOLEAN
  /\ runs \in Run /\ moves \in 0..MaxMoves
  /\ pumpBy \in 0..runs
  /\ cutShort \in BOOLEAN /\ swallowed \in BOOLEAN

Init ==
  /\ pot = 0 /\ pumpOn = FALSE /\ actualPumpOn = FALSE
  /\ running = FALSE /\ rested = FALSE
  /\ moisture \in Level
  /\ pots = 0 /\ open = {} /\ named = 0 /\ subscribed = {}
  /\ subscribing = TRUE /\ mapping = 0 /\ gone = {}
  /\ readings = <<>> /\ commands = <<>>
  /\ known = {} /\ targetEpId = 0
  /\ enabledAuto = FALSE /\ was = "none" /\ value = 0
  /\ desired \in Settings
  /\ solution = FALSE
  /\ runs = 1 /\ moves = 0
  /\ pumpBy = 0 /\ cutShort = FALSE /\ swallowed = FALSE

-----------------------------------------------------------------------------
(* The pot.                                                                *)

(* setupDevice: a connection and a name, with "#1" appended while an old   *)
(* connection of the pot has it.                                           *)
Connect ==
  /\ pot = 0 /\ pots < MaxPots
  /\ pots' = pots + 1
  /\ pot' = pots'
  /\ open' = open \cup {pots'}
  /\ named' = IF named = 0 THEN pots' ELSE named
  /\ UNCHANGED <<pumpOn, pump, pumpBy, moisture, subscribed, link, readings,
                 commands, service, moves>>

(* The power fails, or loopDevice finds that it is disconnected.           *)
Reboot ==
  /\ pot # 0
  /\ pot' = 0
  /\ pumpOn' = FALSE /\ actualPumpOn' = FALSE
  /\ running' = FALSE /\ rested' = FALSE
  /\ pumpBy' = 0 /\ cutShort' = FALSE
  /\ UNCHANGED <<moisture, broker, link, readings, commands, service, moves>>

(* pumpFunction, the pump switched on: a pulse begins ...                  *)
BeginPulse ==
  /\ pot # 0 /\ pumpOn /\ ~actualPumpOn /\ rested
  /\ running' = TRUE /\ actualPumpOn' = TRUE
  /\ rested' = FALSE
  /\ UNCHANGED <<pot, pumpOn, pumpBy, cutShort, moisture, broker, link,
                 readings, commands, service, moves>>

(* ... and ends after pumpOnTime.                                          *)
EndPulse ==
  /\ pot # 0 /\ pumpOn /\ actualPumpOn
  /\ running' = FALSE /\ actualPumpOn' = FALSE
  /\ cutShort' = FALSE
  /\ UNCHANGED <<pot, pumpOn, rested, pumpBy, moisture, broker, link, readings,
                 commands, service, moves>>

(* loop, the pump switched off in a pulse: it writes LOW, which does not   *)
(* stop the pump.                                                          *)
NotInterrupted == FALSE                                               \* mutant
Interrupted == pot # 0 /\ ~pumpOn /\ actualPumpOn

CutShort ==
  /\ Interrupted
  /\ running' = TRUE /\ actualPumpOn' = FALSE
  /\ cutShort' = TRUE
  /\ UNCHANGED <<pot, pumpOn, rested, pumpBy, moisture, broker, link, readings,
                 commands, service, moves>>

Rest ==
  /\ pot # 0 /\ ~rested
  /\ rested' = TRUE
  /\ UNCHANGED <<pot, pumpOn, actualPumpOn, running, pumpBy, cutShort, moisture,
                 broker, link, readings, commands, service, moves>>

Soil ==
  /\ moisture' \in Level \ {moisture}
  /\ UNCHANGED <<potVars, broker, link, readings, commands, service, moves>>

(* sendReadings, and the broker's copy of it for the service.              *)
SendReadings ==
  /\ pot \in subscribed /\ Len(readings) < MaxQueue
  /\ readings' = Append(readings, [from |-> pot, level |-> moisture])
  /\ UNCHANGED <<potVars, moisture, broker, link, commands, service, moves>>

(* PumpHandler, if the broker still has the connection the command is for. *)
TogglePump ==
  LET m == Head(commands)
  IN  /\ commands # <<>>
      /\ commands' = Tail(commands)
      /\ IF m.to = pot THEN pumpOn' = m.on /\ pumpBy' = m.by
                       ELSE UNCHANGED <<pumpOn, pumpBy>>
      /\ UNCHANGED <<pot, pump, moisture, broker, link, readings, service, moves>>

-----------------------------------------------------------------------------
(* The broker.                                                             *)

(* subscribe(name), once in a run of the service: a name that nobody has   *)
(* is passed over.                                                         *)
Subscribe ==
  /\ subscribing
  /\ subscribing' = FALSE
  /\ subscribed' = subscribed \cup ({named} \ {0})
  /\ mapping' = named
  /\ UNCHANGED <<potVars, moisture, pots, open, named, gone, readings, commands,
                 service, moves>>

(* removeConnection and the end of the connection that it leads to.        *)
NameKept(c) == named                                                  \* mutant
NameWithout(c) == IF named = c THEN 0 ELSE named

RemoveConnection(c) ==
  /\ c \in open /\ c # pot
  /\ open' = open \ {c}
  /\ named' = NameWithout(c)
  /\ subscribed' = subscribed \ {c}
  /\ gone' = gone \cup (subscribed \cap {c})
  /\ UNCHANGED <<potVars, moisture, pots, subscribing, mapping, readings,
                 commands, service, moves>>

-----------------------------------------------------------------------------
(* The service.                                                            *)

(* startPump and stopPump.                                                 *)
SendPump(on) ==
  IF targetEpId = 0
  THEN swallowed' = TRUE /\ UNCHANGED commands
  ELSE /\ commands' = Append(commands, [to |-> targetEpId, on |-> on, by |-> runs])
       /\ UNCHANGED swallowed

Below(l) == l < desired.left
Above(l) == l > desired.right

(* desired.contains.                                                       *)
Contains(l) == ~Below(l) /\ ~Above(l)

(* A reading in the interval stops the pump, whatever the one before was.  *)
AfterLower(band) == band = "lower"                                    \* mutant
Undesired(band) == band # "desired"

(* A reading above the interval has no action: the label stays too.        *)
LabelAbove(l) == IF Above(l) THEN FALSE ELSE solution                 \* mutant
LabelElse(l) == solution

(* executeOnLower, executeOnDesired and executeOnHigher in their order; of *)
(* a reading both below and above an interval turned around the last stays.*)
Execute(l) ==
  /\ was' = IF Above(l) THEN "higher"
            ELSE IF Contains(l) THEN "desired"
            ELSE IF Below(l) THEN "lower" ELSE was
  /\ IF Below(l) /\ was # "lower"
     THEN SendPump(TRUE) /\ solution' = TRUE
     ELSE IF Contains(l) /\ Undesired(was)
     THEN SendPump(FALSE) /\ solution' = FALSE
     ELSE solution' = LabelElse(l) /\ UNCHANGED <<commands, swallowed>>

(* setValue, by SoilHandler.  Readings of an unknown channel are dropped.  *)
SetValue ==
  LET m == Head(readings)
  IN  /\ readings # <<>> /\ Len(commands) < MaxQueue
      /\ readings' = Tail(readings)
      /\ IF m.from \in known
         THEN /\ value' = m.level
              /\ IF enabledAuto THEN Execute(m.level)
                 ELSE UNCHANGED <<was, solution, commands, swallowed>>
         ELSE UNCHANGED <<value, was, solution, commands, swallowed>>
      /\ UNCHANGED <<potVars, moisture, broker, link, known, targetEpId,
                     enabledAuto, desired, runs, moves>>

(* The toggle of the user: autoAction.                                     *)
OffKept(band) == band                                                 \* mutant
OffBand(band) == "desired"

AutoAction(state) ==
  /\ Len(commands) < MaxQueue
  /\ enabledAuto' = state
  /\ IF state
     THEN Execute(value)
     ELSE /\ was' = OffBand(was)
          /\ solution' = FALSE
          /\ SendPump(FALSE)
  /\ UNCHANGED <<potVars, moisture, broker, link, readings, known, targetEpId,
                 value, desired, runs, moves>>

(* The sliders, setDesiredMin and setDesiredMax: nothing is evaluated.     *)
SetDesired(interval) ==
  /\ moves < MaxMoves
  /\ moves' = moves + 1
  /\ \/ interval.right = desired.right
     \/ interval.left = desired.left
  /\ desired' = interval
  /\ UNCHANGED <<potVars, moisture, broker, link, readings, commands, known,
                 targetEpId, enabledAuto, was, value, solution, runs, swallowed>>

(* provide, with notifyMapping of OutputHelper.                            *)
NotifyMapping ==
  /\ mapping # 0
  /\ mapping' = 0
  /\ known' = known \cup {mapping}
  /\ targetEpId' = mapping
  /\ UNCHANGED <<potVars, moisture, broker, subscribing, gone, readings,
                 commands, tracker, runs, swallowed, moves>>

(* notifyTermination: targetEpId stays.                                    *)
NotifyTermination(c) ==
  /\ c \in gone
  /\ gone' = gone \ {c}
  /\ known' = known \ {c}
  /\ UNCHANGED <<potVars, moisture, broker, subscribing, mapping, readings,
                 commands, targetEpId, tracker, runs, swallowed, moves>>

(* The service crashes and main begins again; of the commands some are on  *)
(* their way already.                                                      *)
Restart(sent) ==
  /\ runs < MaxRuns
  /\ runs' = runs + 1
  /\ commands' = SubSeq(commands, 1, sent)
  /\ subscribed' = {} /\ subscribing' = TRUE /\ mapping' = 0 /\ gone' = {}
  /\ readings' = <<>>
  /\ known' = {} /\ targetEpId' = 0
  /\ enabledAuto' = FALSE /\ was' = "none" /\ value' = 0 /\ solution' = FALSE
  /\ swallowed' = FALSE
  /\ UNCHANGED <<potVars, moisture, pots, open, named, desired, moves>>

-----------------------------------------------------------------------------
Pot == Connect \/ Reboot \/ BeginPulse \/ EndPulse \/ CutShort \/ Rest
       \/ SendReadings \/ TogglePump

Service ==
  \/ SetValue \/ NotifyMapping
  \/ \E state \in BOOLEAN : AutoAction(state)
  \/ \E interval \in [left : Level, right : Level] : SetDesired(interval)
  \/ \E c \in gone : NotifyTermination(c)
  \/ \E sent \in 0..Len(commands) : Restart(sent)

Next == Pot \/ Soil \/ Subscribe \/ (\E c \in open : RemoveConnection(c)) \/ Service

Spec == Init /\ [][Next]_vars

(* The pot, the broker and the service run loops, and pulses and pauses    *)
(* have an end.  Users and soil owe nothing.                               *)
Fairness ==
  /\ WF_vars(BeginPulse) /\ WF_vars(EndPulse \/ CutShort)
  /\ WF_vars(Rest)
  /\ WF_vars(SendReadings) /\ WF_vars(TogglePump)
  /\ WF_vars(SetValue) /\ WF_vars(NotifyMapping) /\ WF_vars(Subscribe)

FairSpec == Spec /\ Fairness

-----------------------------------------------------------------------------
(* Once a command of this run has reached the pot and no other is under    *)
(* way, the pump is on exactly if the label shown to the user says so,     *)
(* whatever was lost, restarted or moved before (updates of solutionLabel, *)
(* startPump, stopPump).                                                   *)
LabelAgrees == (commands = <<>> /\ pumpBy = runs) => pumpOn = solution

(* The service listens to the pot and commands it.                         *)
Linked == pot # 0 /\ targetEpId = pot /\ pot \in subscribed \cap known

(* With automation on and the soil in the desired interval, a linked pump  *)
(* is switched off, also one that an earlier run of the service left on;   *)
(* unless a command was swallowed before the pot was known                 *)
(* (executeOnDesired).                                                     *)
WetStops ==
  (Linked /\ enabledAuto /\ Contains(moisture))
    ~> (~pumpOn \/ swallowed \/ ~(Linked /\ enabledAuto /\ Contains(moisture)))

(* With automation on and the soil dry, a linked pump is switched on.      *)
DryStarts ==
  (Linked /\ enabledAuto /\ Below(moisture))
    ~> (pumpOn \/ swallowed \/ ~(Linked /\ enabledAuto /\ Below(moisture)))

(* While the pump is switched on it works in pulses; switched off, it comes*)
(* to rest, unless a pulse was cut short (RealPot::loop).                  *)
PumpRests == running ~> (~running \/ cutShort)

(* PlantMessages.h:24 says of TogglePump "true - irrigate, false - stop":  *)
(* a pump that is switched off comes to rest, unless it is switched on     *)
(* again.  Not so, see CutShort.                                           *)
StopStops == ~pumpOn ~> (~running \/ pumpOn)
=============================================================================
