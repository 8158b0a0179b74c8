-------------------------- MODULE UxTrackerProofs ---------------------------
(***************************************************************************)
(* The proofs about UxTracker, for any pages, controls and notifications.  *)
(*                                                                         *)
(* A handler that flags before it changes is safe for the sessions it      *)
(* flagged until one of them is answered, and overtaken names those.       *)
(***************************************************************************)
EXTENDS UxTracker, FiniteSetTheorems, TLAPS

Acting(c) == {p \in Page : acting[p] = c}

(* Changes that were begun stay within the bound.                          *)
Bounded == \A c \in Control : value[c] + Cardinality(Acting(c)) <= MaxChange

(* A page that polls, or shows something, has selected; so has its session.*)
Selected ==
  \A p \in Page :
    /\ \A k \in Loop :
         /\ request[p][k].stage # "none" => selects[p] \in Loop
         /\ request[p][k].stage \notin {"none", "poll"} => request[p][k].session \in Loop
    /\ \A c \in Control : screen[p][c] # NoValue => selects[p] \in Loop

(* What is about to change, or be flagged, is a control; a tracker has all.*)
Tracking ==
  /\ device \in controls \cup {NoControl}
  /\ \A p \in Page : acting[p] \in controls \cup {NoControl}
  /\ \A s \in trackers : tracked[s] = controls

(* While a user's change is under way, every session is flagged or was     *)
(* overtaken by it.                                                        *)
ActingFlagged ==
  \A p \in Page : acting[p] # NoControl =>
    \A s \in trackers : acting[p] \in flagged[s] \/ <<s, acting[p]>> \in overtaken

IInv == TypeOK /\ Bounded /\ Selected /\ Tracking /\ ActingFlagged /\ NothingUntold

-----------------------------------------------------------------------------
(* Types.                                                                  *)

LEMMA ValueTypes ==
  /\ Value \subseteq Nat
  /\ NoAnswer \in [controls : [Control -> Value \cup {NoValue}],
                   removals : SUBSET Actions, notices : SUBSET Actions]
  /\ \A st \in Stage, k \in 0..MaxSelects, f \in BOOLEAN : Asking(st, k, f) \in Request
  /\ Resting \in Request /\ Unborn \in Request
<1>1. Value \subseteq Nat /\ 0 \in 0..MaxSelects
  BY UxTrackerAssumption DEF Value
<1>2. NoAnswer \in [controls : [Control -> Value \cup {NoValue}],
                    removals : SUBSET Actions, notices : SUBSET Actions]
  BY DEF NoAnswer
<1>3. \A st \in Stage, k \in 0..MaxSelects, f \in BOOLEAN : Asking(st, k, f) \in Request
  BY <1>2 DEF Asking, Request
<1> QED BY <1>1, <1>2, <1>3 DEF Resting, Unborn, Stage

LEMMA RequestType ==
  ASSUME TypeOK, NEW p \in Page, NEW k \in Loop, NEW r \in Request,
         request' = [request EXCEPT ![p][k] = r]
  PROVE  request' \in [Page -> [Loop -> Request]]
<1>1. request \in [Page -> [Loop -> Request]] /\ request[p] \in [Loop -> Request]
  BY DEF TypeOK
<1>2. [request[p] EXCEPT ![k] = r] \in [Loop -> Request]
  BY <1>1
<1> QED BY <1>1, <1>2

LEMMA SessionType ==
  ASSUME Selected, NEW p \in Page, NEW k \in Loop,
         request[p][k].stage \notin {"none", "poll"}
  PROVE  <<p, request[p][k].session>> \in Session
BY DEF Selected, Session

LEMMA DeviceType ==
  ASSUME TypeOK, Device
  PROVE  TypeOK'
<1> USE DEF shared, updates, notices, page
<1>1. ASSUME NEW c \in Control, AddControl(c)
      PROVE  TypeOK'
  <2>1. controls' \subseteq Control /\ controls \subseteq controls'
    BY <1>1 DEF AddControl, TypeOK
  <2>2. tracked' \in [Session -> SUBSET controls'] /\ flagged' \in [Session -> SUBSET controls']
    BY <1>1 DEF AddControl, AddedFlagged, TypeOK
  <2>3. \A s \in Session : flagged'[s] \subseteq tracked'[s]
    BY <1>1 DEF AddControl, AddedFlagged, TypeOK
  <2> QED BY <1>1, <2>1, <2>2, <2>3 DEF AddControl, TypeOK
<1>2. ASSUME NEW c \in Control, SetText(c)
      PROVE  TypeOK'
  <2>1. value' \in [Control -> Value]
    BY <1>2, UxTrackerAssumption DEF SetText, TypeOK, Value
  <2> QED BY <1>2, <2>1 DEF SetText, TypeOK
<1>3. ASSUME NEW a \in Actions, DisplayNotification(a)
      PROVE  TypeOK'
  <2>1. /\ pending' \subseteq displayed' /\ displayed' \subseteq Actions
        /\ removed' \in [Session -> SUBSET (displayed' \ pending')]
    BY <1>3 DEF DisplayNotification, TypeOK
  <2>2. /\ noted' \in [Session -> SUBSET pending'] /\ unseen' \in [Session -> SUBSET pending']
        /\ promised' \in [Session -> SUBSET displayed']
    BY <1>3 DEF DisplayNotification, TypeOK
  <2>3. \A s \in Session : unseen'[s] \subseteq noted'[s]
    BY <1>3 DEF DisplayNotification, TypeOK
  <2> QED BY <1>3, <2>1, <2>2, <2>3 DEF DisplayNotification, TypeOK
<1> QED BY <1>1, <1>2, <1>3 DEF Device

LEMMA FlaggedType ==
  ASSUME TypeOK, NEW ss, NEW c \in controls
  PROVE  /\ Flagged(ss, c) \in [Session -> SUBSET controls]
         /\ \A s \in Session : Flagged(ss, c)[s] \subseteq tracked[s]
BY DEF Flagged, TypeOK

LEMMA UserType ==
  ASSUME TypeOK, Selected, NEW p \in Page, User(p)
  PROVE  TypeOK'
<1> USE DEF shared, updates, notices, page
<1>1. CASE Select(p)
  <2> DEFINE k == selects[p] + 1
  <2>1. k \in Loop /\ selects[p] \in Nat
    BY <1>1, UxTrackerAssumption DEF Select, TypeOK, Loop
  <2>2. Asking("track", k, TRUE) \in Request
    <3>1. k \in 0..MaxSelects /\ "track" \in Stage
      BY <2>1, UxTrackerAssumption DEF Loop, Stage
    <3> HIDE DEF k
    <3> QED BY <3>1, ValueTypes
  <2>3. request' \in [Page -> [Loop -> Request]]
    BY <1>1, <2>1, <2>2, RequestType DEF Select
  <2>4. selects' \in [Page -> 0..MaxSelects]
    BY <1>1, <2>1 DEF Select, TypeOK, Loop
  <2> QED BY <1>1, <2>3, <2>4 DEF Select, TypeOK
<1>2. CASE Sleep(p)
  BY <1>2 DEF Sleep, TypeOK
<1>3. ASSUME NEW c \in Toggles, NEW k \in Loop, HandleToggle(p, c, k)
      PROVE  TypeOK'
  <2>1. c \in controls
    BY <1>3 DEF HandleToggle
  <2>2. {<<p, k>>} \cap trackers \subseteq Session
    BY DEF Session
  <2>3. overtaken' \subseteq Session \X Toggles
    BY <1>3, <2>2 DEF HandleToggle, TypeOK
  <2>4. /\ flagged' \in [Session -> SUBSET controls]
        /\ \A s \in Session : flagged'[s] \subseteq tracked[s]
    BY <1>3, <2>1, FlaggedType DEF HandleToggle
  <2>5. acting' \in [Page -> Toggles \cup {NoControl}]
    BY <1>3 DEF HandleToggle, TypeOK
  <2> QED BY <1>3, <2>3, <2>4, <2>5 DEF HandleToggle, TypeOK
<1>4. ASSUME NEW a \in Actions, PostNotification(p, a)
      PROVE  TypeOK'
  <2>1. shown' \in [Page -> [Actions -> Nat]]
    BY <1>4 DEF PostNotification, TypeOK
  <2>2. acted' \in [Page -> [Actions -> {"none", "posted", "taken", "lost"}]]
    BY <1>4 DEF PostNotification, TypeOK
  <2> QED BY <1>4, <2>1, <2>2 DEF PostNotification, TypeOK
<1>6. ASSUME NEW a \in Actions, LosePost(p, a)
      PROVE  TypeOK'
  <2>1. acted' \in [Page -> [Actions -> {"none", "posted", "taken", "lost"}]]
    BY <1>6 DEF LosePost, TypeOK
  <2> QED BY <1>6, <2>1 DEF LosePost, TypeOK
<1>5. ASSUME NEW k \in Loop, Lose(p, k)
      PROVE  TypeOK'
  <2>1. request' \in [Page -> [Loop -> Request]]
    BY <1>5, ValueTypes, RequestType DEF Lose
  <2> QED BY <1>5, <2>1 DEF Lose, TypeOK
<1> QED BY <1>1, <1>2, <1>3, <1>4, <1>5, <1>6 DEF User

LEMMA HandleNotificationType ==
  ASSUME TypeOK, NEW p \in Page, NEW a \in Actions, HandleNotification(p, a)
  PROVE  TypeOK'
<1>1. pending' = pending \ {a} /\ pending' \subseteq displayed
  BY DEF HandleNotification, TypeOK
<1>2. removed' \in [Session -> SUBSET (displayed \ pending')]
  BY <1>1 DEF HandleNotification, Dismissed, TypeOK
<1>3. /\ noted' \in [Session -> SUBSET pending'] /\ unseen' \in [Session -> SUBSET pending']
      /\ \A s \in Session : unseen'[s] \subseteq noted'[s]
  BY <1>1 DEF HandleNotification, Erased, TypeOK
<1>4. acted' \in [Page -> [Actions -> {"none", "posted", "taken", "lost"}]]
  BY DEF HandleNotification, TypeOK
<1> QED BY <1>1, <1>2, <1>3, <1>4
        DEF HandleNotification, TypeOK, shared, updates

LEMMA AnswerType ==
  ASSUME NEW r \in Request, NEW st \in Stage,
         NEW cs \in [Control -> Value \cup {NoValue}], NEW as \in SUBSET Actions
  PROVE  /\ [r EXCEPT !.stage = st] \in Request
         /\ [r EXCEPT !.stage = st, !.answer.controls = cs] \in Request
         /\ [r EXCEPT !.stage = st, !.answer.removals = as] \in Request
         /\ [r EXCEPT !.stage = st, !.answer.notices = as] \in Request
BY DEF Request

LEMMA HandleUpdateType ==
  ASSUME TypeOK, Selected, NEW p \in Page, NEW k \in Loop, HandleUpdate(p, k)
  PROVE  TypeOK'
<1> USE DEF shared, updates, notices, page
<1> DEFINE r == request[p][k]
           s == <<p, r.session>>
<1>1. r \in Request
  BY DEF TypeOK
<1>2. s \in Session
  <2>1. r.stage \notin {"none", "poll"}
    BY DEF HandleUpdate, AddTracker, GetUpdates, GetRemovals, GetNotifications
  <2> QED BY <2>1, SessionType
<1>3. {"updates", "removals", "notices", "answer"} \subseteq Stage
  BY DEF Stage
<1>4. CASE AddTracker(p, k)
  <2>1. request' = [request EXCEPT ![p][k] = [r EXCEPT !.stage = "updates"]]
    BY <1>4 DEF AddTracker
  <2>2. [r EXCEPT !.stage = "updates"] \in Request
    BY <1>1, <1>3 DEF Request
  <2>3. request' \in [Page -> [Loop -> Request]]
    BY <2>1, <2>2, RequestType
  <2>4. /\ tracked' = [tracked EXCEPT ![s] = controls]
        /\ flagged' = [flagged EXCEPT ![s] = controls]
        /\ trackers' \subseteq Session /\ notifTrackers' \subseteq Session
    BY <1>2, <1>4 DEF AddTracker, TrackedNow, TypeOK
  <2>5. /\ tracked' \in [Session -> SUBSET controls]
        /\ flagged' \in [Session -> SUBSET controls]
        /\ \A t \in Session : flagged'[t] \subseteq tracked'[t]
    BY <1>2, <2>4 DEF TypeOK
  <2> QED BY <1>4, <2>3, <2>4, <2>5 DEF AddTracker, TypeOK
<1>5. CASE GetUpdates(p, k)
  <2> DEFINE cs == IF r.force /\ s \in trackers THEN controls ELSE flagged[s]
             shownNow == [c \in Control |-> IF c \in cs THEN value[c] ELSE NoValue]
             toldNow == [c \in Control |-> IF c \in cs THEN value[c] ELSE told[s][c]]
             amid == {<<s, c>> : c \in {d \in cs : \E q \in Page : acting[q] = d}}
  <2>1. cs \subseteq controls /\ cs \subseteq Control
    BY <1>2 DEF TypeOK
  <2>2. shownNow \in [Control -> Value \cup {NoValue}]
    BY DEF TypeOK
  <2>3. toldNow \in [Control -> Value \cup {NoValue}]
    BY <1>2 DEF TypeOK
  <2>4. amid \subseteq Session \X Toggles
    <3>1. \A d \in cs : (\E q \in Page : acting[q] = d) => d \in Toggles
      BY <2>1, UxTrackerAssumption DEF TypeOK
    <3> QED BY <1>2, <3>1
  <2>5. /\ request' = [request EXCEPT ![p][k] =
             [r EXCEPT !.stage = "removals", !.answer.controls = shownNow]]
        /\ flagged' = [flagged EXCEPT ![s] = @ \ cs]
        /\ told' = [told EXCEPT ![s] = toldNow]
        /\ overtaken' = (overtaken \ ({s} \X cs)) \cup amid
    BY <1>5 DEF GetUpdates
  <2> HIDE DEF cs, shownNow, toldNow, amid, r, s
  <2>6. request' \in [Page -> [Loop -> Request]]
    BY <1>1, <1>3, <2>2, <2>5, AnswerType, RequestType
  <2>7. /\ flagged' \in [Session -> SUBSET controls]
        /\ \A t \in Session : flagged'[t] \subseteq tracked[t]
    BY <1>2, <2>5 DEF TypeOK
  <2>8. told' \in [Session -> [Control -> Value \cup {NoValue}]]
    BY <1>2, <2>3, <2>5 DEF TypeOK
  <2>9. overtaken' \subseteq Session \X Toggles
    BY <2>4, <2>5 DEF TypeOK
  <2>10. UNCHANGED <<shared, trackers, tracked, notices, selects, screen, shown,
                     acted, troubled>>
    BY <1>5 DEF GetUpdates
  <2> QED BY <2>6, <2>7, <2>8, <2>9, <2>10 DEF TypeOK
<1>6. CASE GetRemovals(p, k)
  <2>1. /\ request' = [request EXCEPT ![p][k] =
             [r EXCEPT !.stage = "notices", !.answer.removals = removed[s]]]
        /\ removed' = [removed EXCEPT ![s] = {}]
    BY <1>6 DEF GetRemovals
  <2>2. removed[s] \in SUBSET Actions
    BY <1>2 DEF TypeOK
  <2>3. [r EXCEPT !.stage = "notices", !.answer.removals = removed[s]] \in Request
    BY <1>1, <1>3, <2>2 DEF Request
  <2>4. request' \in [Page -> [Loop -> Request]]
    BY <2>1, <2>3, RequestType
  <2>5. removed' \in [Session -> SUBSET (displayed \ pending)]
    BY <2>1 DEF TypeOK
  <2> QED BY <1>6, <2>4, <2>5 DEF GetRemovals, TypeOK
<1>7. CASE GetNotifications(p, k)
  <2> DEFINE as == NoticesFor(s, r.force)
  <2>1. /\ request' = [request EXCEPT ![p][k] =
             [r EXCEPT !.stage = "answer", !.answer.notices = as]]
        /\ unseen' = [unseen EXCEPT ![s] = @ \ as]
    BY <1>7 DEF GetNotifications
  <2>2. as \in SUBSET Actions
    BY DEF NoticesFor, TypeOK
  <2>3. [r EXCEPT !.stage = "answer", !.answer.notices = as] \in Request
    BY <1>1, <1>3, <2>2 DEF Request
  <2>4. request' \in [Page -> [Loop -> Request]]
    BY <2>1, <2>3, RequestType
  <2>5. /\ unseen' \in [Session -> SUBSET pending]
        /\ \A t \in Session : unseen'[t] \subseteq noted[t]
    BY <2>1 DEF TypeOK
  <2> QED BY <1>7, <2>4, <2>5 DEF GetNotifications, TypeOK
<1> QED BY <1>4, <1>5, <1>6, <1>7 DEF HandleUpdate

LEMMA PageType ==
  ASSUME TypeOK, Selected, NEW p \in Page, NEW k \in Loop,
         Poll(p, k) \/ ParseUiUpdate(p, k)
  PROVE  TypeOK'
<1> USE DEF shared, updates, notices, page
<1>1. CASE Poll(p, k)
  <2>1. Asking("updates", selects[p], FALSE) \in Request
    <3>1. selects[p] \in 0..MaxSelects /\ "updates" \in Stage
      BY DEF TypeOK, Stage
    <3> QED BY <3>1, ValueTypes
  <2>2. request' \in [Page -> [Loop -> Request]]
    BY <1>1, <2>1, RequestType DEF Poll
  <2> QED BY <1>1, <2>2 DEF Poll, TypeOK
<1>2. CASE ParseUiUpdate(p, k)
  <2> DEFINE got == request[p][k].answer
             more(a) == IF a \in got.notices /\ acted[p][a] = "none"
                        THEN shown[p][a] + 1 ELSE shown[p][a]
             shows == [a \in Actions |-> IF a \in got.removals /\ more(a) > 0
                                         THEN more(a) - 1 ELSE more(a)]
             draws == [c \in Control |-> IF got.controls[c] # NoValue
                                         THEN got.controls[c] ELSE screen[p][c]]
  <2>1. /\ request' = [request EXCEPT ![p][k] = Resting]
        /\ shown' = [shown EXCEPT ![p] = shows]
        /\ screen' = [screen EXCEPT ![p] = draws]
    BY <1>2 DEF ParseUiUpdate
  <2>2. shows \in [Actions -> Nat]
    BY DEF TypeOK
  <2>3. draws \in [Control -> Value \cup {NoValue}]
    <3>1. got.controls \in [Control -> Value \cup {NoValue}]
      BY DEF TypeOK, Request
    <3> QED BY <3>1 DEF TypeOK
  <2>4. request' \in [Page -> [Loop -> Request]]
    BY <2>1, ValueTypes, RequestType
  <2> HIDE DEF shows, draws
  <2>5. shown' \in [Page -> [Actions -> Nat]]
    BY <2>1, <2>2 DEF TypeOK
  <2>6. screen' \in [Page -> [Control -> Value \cup {NoValue}]]
    BY <2>1, <2>3 DEF TypeOK
  <2>7. UNCHANGED <<shared, updates, notices, selects, acted, troubled>>
    BY <1>2 DEF ParseUiUpdate
  <2> QED BY <2>4, <2>5, <2>6, <2>7 DEF TypeOK
<1> QED BY <1>1, <1>2

LEMMA ActingFinite ==
  \A c \in Control : IsFiniteSet(Acting(c)) /\ Cardinality(Acting(c)) \in Nat
<1>1. \A c \in Control : Acting(c) \in SUBSET Page
  BY DEF Acting
<1> QED BY <1>1, UxTrackerAssumption, FS_Subset, FS_CardinalityType

LEMMA ToggleValue ==
  ASSUME TypeOK, Bounded, NEW p \in Page, Toggle(p)
  PROVE  /\ acting[p] \in Toggles /\ acting[p] \in Control
         /\ value[acting[p]] < MaxChange
         /\ value' \in [Control -> Value]
         /\ \A c \in Control \ {acting[p]} : value'[c] = value[c]
         /\ value'[acting[p]] = value[acting[p]] + 1
<1> DEFINE c == acting[p]
<1>1. c \in Toggles /\ c \in Control
  BY DEF Toggle, TypeOK, Control
<1>2. p \in Acting(c)
  BY DEF Acting
<1>3. Cardinality(Acting(c)) > 0
  BY <1>1, <1>2, ActingFinite, FS_EmptySet
<1>4. value[c] \in Nat /\ value[c] < MaxChange
  <2>1. value[c] + Cardinality(Acting(c)) <= MaxChange
    BY <1>1 DEF Bounded
  <2>2. value[c] \in Nat /\ Cardinality(Acting(c)) \in Nat
    BY <1>1, ActingFinite, ValueTypes DEF TypeOK
  <2> HIDE DEF c
  <2> QED BY <1>3, <2>1, <2>2, UxTrackerAssumption
<1>5. value' = [value EXCEPT ![c] = @ + 1]
  BY DEF Toggle
<1>6. value[c] + 1 \in Value
  BY <1>4, UxTrackerAssumption DEF Value
<1> QED BY <1>1, <1>4, <1>5, <1>6 DEF TypeOK

LEMMA TypeStep == TypeOK /\ Bounded /\ Selected /\ [Next]_vars => TypeOK'
<1> SUFFICES ASSUME TypeOK, Bounded, Selected, [Next]_vars PROVE TypeOK'
  OBVIOUS
<1>1. CASE NotifyUpdate
  <2>1. /\ Flagged(trackers, device) \in [Session -> SUBSET controls]
        /\ \A s \in Session : Flagged(trackers, device)[s] \subseteq tracked[s]
    BY DEF Flagged, TypeOK
  <2> QED BY <1>1, <2>1 DEF NotifyUpdate, TypeOK, notices, page
<1>2. ASSUME NEW p \in Page, Toggle(p)
      PROVE  TypeOK'
  <2>1. acting' \in [Page -> Toggles \cup {NoControl}]
    BY <1>2 DEF Toggle, TypeOK
  <2> QED BY <1>2, <2>1, ToggleValue DEF Toggle, TypeOK, updates, notices, page
<1>3. ASSUME NEW s \in Session, CheckTrackers(s)
      PROVE  TypeOK'
  BY <1>3 DEF CheckTrackers, TypeOK, shared, notices, page
<1>4. CASE UNCHANGED vars
  BY <1>4 DEF vars, shared, updates, notices, page, TypeOK
<1> QED BY <1>1, <1>2, <1>3, <1>4, DeviceType, UserType, HandleNotificationType,
           HandleUpdateType, PageType
        DEF Next, PollingLoop

LEMMA TypeInit == Init => TypeOK
<1> SUFFICES ASSUME Init PROVE TypeOK
  OBVIOUS
<1>1. 0 \in Value /\ 0 \in 0..MaxSelects
  BY UxTrackerAssumption DEF Value
<1>2. request \in [Page -> [Loop -> Request]]
  BY ValueTypes DEF Init
<1>3. /\ value \in [Control -> Value]
      /\ screen \in [Page -> [Control -> Value \cup {NoValue}]]
      /\ told \in [Session -> [Control -> Value \cup {NoValue}]]
      /\ shown \in [Page -> [Actions -> Nat]]
  BY <1>1 DEF Init
<1>4. selects \in [Page -> 0..MaxSelects] /\ acting \in [Page -> Toggles \cup {NoControl}]
  BY <1>1 DEF Init
<1> QED BY <1>2, <1>3, <1>4 DEF Init, TypeOK

-----------------------------------------------------------------------------
(* Bounds and selections.                                                  *)

LEMMA BoundedStep == TypeOK /\ Bounded /\ [Next]_vars => Bounded'
<1> SUFFICES ASSUME TypeOK, Bounded, [Next]_vars,
                    NEW c \in Control
             PROVE  value'[c] + Cardinality(Acting(c)') <= MaxChange
  BY DEF Bounded, Acting
<1>1. /\ value[c] + Cardinality(Acting(c)) <= MaxChange
      /\ value[c] \in Nat /\ Cardinality(Acting(c)) \in Nat
      /\ IsFiniteSet(Acting(c))
  BY ActingFinite, ValueTypes DEF Bounded, TypeOK
<1>2. CASE UNCHANGED <<value, acting>>
  BY <1>1, <1>2 DEF Acting
<1>3. ASSUME NEW d \in Control, SetText(d)
      PROVE  value'[c] + Cardinality(Acting(c)') <= MaxChange
  <2>1. Acting(c)' = Acting(c)
    BY <1>3 DEF SetText, Acting
  <2>2. CASE c # d
    BY <1>1, <1>3, <2>1, <2>2 DEF SetText, TypeOK
  <2>3. CASE c = d
    <3>1. Acting(c) = {}
      BY <1>3, <2>3, UxTrackerAssumption DEF SetText, Acting, TypeOK, Control
    <3>2. value'[c] = value[c] + 1 /\ value[c] < MaxChange
      BY <1>3, <2>3 DEF SetText, TypeOK
    <3> QED BY <1>1, <2>1, <3>1, <3>2, FS_EmptySet, UxTrackerAssumption
  <2> QED BY <2>2, <2>3
<1>4. ASSUME NEW p \in Page, NEW d \in Toggles, NEW k \in Loop,
             HandleToggle(p, d, k)
      PROVE  value'[c] + Cardinality(Acting(c)') <= MaxChange
  <2>1. /\ acting' = [acting EXCEPT ![p] = d] /\ acting[p] = NoControl
        /\ UNCHANGED value /\ value[d] + Cardinality(Acting(d)) < MaxChange
    BY <1>4 DEF HandleToggle, Acting
  <2>2. c # NoControl
    BY UxTrackerAssumption
  <2>3. CASE c # d
    <3>1. Acting(c)' = Acting(c)
      BY <2>1, <2>2, <2>3 DEF Acting, TypeOK
    <3> QED BY <1>1, <2>1, <3>1
  <2>4. CASE c = d
    <3>1. Acting(c)' = Acting(c) \cup {p} /\ p \notin Acting(c)
      BY <2>1, <2>2, <2>4 DEF Acting, TypeOK
    <3>2. Cardinality(Acting(c)') = Cardinality(Acting(c)) + 1
      BY <1>1, <3>1, FS_AddElement
    <3> QED BY <1>1, <2>1, <2>4, <3>2, UxTrackerAssumption
  <2> QED BY <2>3, <2>4
<1>5. ASSUME NEW p \in Page, Toggle(p)
      PROVE  value'[c] + Cardinality(Acting(c)') <= MaxChange
  <2>1. acting' = [acting EXCEPT ![p] = NoControl] /\ c # NoControl
    BY <1>5, UxTrackerAssumption DEF Toggle
  <2>2. CASE c # acting[p]
    <3>1. Acting(c)' = Acting(c)
      BY <2>1, <2>2 DEF Acting, TypeOK
    <3> QED BY <1>1, <1>5, <2>2, <3>1, ToggleValue
  <2>3. CASE c = acting[p]
    <3>1. Acting(c)' = Acting(c) \ {p} /\ p \in Acting(c)
      BY <2>1, <2>3 DEF Acting, TypeOK
    <3>2. Cardinality(Acting(c)') = Cardinality(Acting(c)) - 1
      BY <1>1, <3>1, FS_RemoveElement
    <3> QED BY <1>1, <1>5, <2>3, <3>2, ToggleValue
  <2> QED BY <2>2, <2>3
<1>6. CASE NotifyUpdate \/ (\E s \in Session : CheckTrackers(s))
           \/ (\E d \in Control : AddControl(d))
           \/ \E a \in Actions : DisplayNotification(a)
  <2>1. UNCHANGED <<value, acting>>
    BY <1>6 DEF NotifyUpdate, CheckTrackers, AddControl, DisplayNotification, shared
  <2> QED BY <1>2, <2>1
<1>7. ASSUME NEW p \in Page,
             \/ Select(p) \/ Sleep(p)
             \/ \E a \in Actions : \/ PostNotification(p, a) \/ LosePost(p, a)
                                   \/ HandleNotification(p, a)
             \/ \E k \in Loop : Lose(p, k) \/ Poll(p, k) \/ HandleUpdate(p, k)
                                \/ ParseUiUpdate(p, k)
      PROVE  value'[c] + Cardinality(Acting(c)') <= MaxChange
  <2>1. UNCHANGED <<value, acting>>
    BY <1>7 DEF Select, Sleep, PostNotification, LosePost, HandleNotification,
                Lose, Poll, HandleUpdate, AddTracker, GetUpdates, GetRemovals, GetNotifications,
                ParseUiUpdate, shared
  <2> QED BY <1>2, <2>1
<1>8. CASE UNCHANGED vars
  BY <1>2, <1>8 DEF vars, shared
<1> QED BY <1>3, <1>4, <1>5, <1>6, <1>7, <1>8 DEF Next, Device, User, PollingLoop

LEMMA AskingFields ==
  \A st, k, f : Asking(st, k, f).stage = st /\ Asking(st, k, f).session = k
BY DEF Asking

LEMMA AnswerFields ==
  ASSUME NEW r \in Request, NEW st, NEW x
  PROVE  /\ [r EXCEPT !.stage = st].session = r.session
         /\ [r EXCEPT !.stage = st, !.answer.controls = x].session = r.session
         /\ [r EXCEPT !.stage = st, !.answer.removals = x].session = r.session
         /\ [r EXCEPT !.stage = st, !.answer.notices = x].session = r.session
BY DEF Request

LEMMA RequestSelected ==
  ASSUME TypeOK, Selected, NEW p \in Page, NEW k \in Loop, NEW r,
         request[p][k].stage # "none",
         request' = [request EXCEPT ![p][k] = r],
         r.stage \notin {"none", "poll"} => r.session \in Loop,
         UNCHANGED selects,
         \A q \in Page \ {p} : screen'[q] = screen[q]
  PROVE  Selected'
<1>1. selects[p] \in Loop
  BY DEF Selected
<1>2. \A q \in Page, j \in Loop :
        request'[q][j] = IF q = p /\ j = k THEN r ELSE request[q][j]
  BY DEF TypeOK
<1>3. ASSUME NEW q \in Page, NEW j \in Loop
      PROVE  /\ request'[q][j].stage # "none" => selects[q] \in Loop
             /\ request'[q][j].stage \notin {"none", "poll"}
                  => request'[q][j].session \in Loop
  BY <1>1, <1>2, <1>3 DEF Selected
<1>4. ASSUME NEW q \in Page, NEW c \in Control, screen'[q][c] # NoValue
      PROVE  selects[q] \in Loop
  BY <1>1, <1>4 DEF Selected
<1> QED BY <1>3, <1>4 DEF Selected

LEMMA HandleUpdateSelected ==
  ASSUME TypeOK, Selected, NEW p \in Page, NEW k \in Loop, HandleUpdate(p, k)
  PROVE  Selected'
<1> DEFINE r == request[p][k]
<1>1. /\ r.stage \in {"track", "updates", "removals", "notices"}
      /\ UNCHANGED <<selects, screen>>
  BY DEF HandleUpdate, AddTracker, GetUpdates, GetRemovals, GetNotifications
<1>2. r \in Request /\ r.session \in Loop
  BY <1>1 DEF TypeOK, Selected
<1>3. ASSUME NEW new, new.session = r.session,
             request' = [request EXCEPT ![p][k] = new]
      PROVE  Selected'
  BY <1>1, <1>2, <1>3, RequestSelected
<1>4. CASE AddTracker(p, k)
  <2>1. request' = [request EXCEPT ![p][k] = [r EXCEPT !.stage = "updates"]]
    BY <1>4 DEF AddTracker
  <2> HIDE DEF r
  <2> QED BY <1>2, <1>3, <2>1, AnswerFields
<1>5. CASE GetUpdates(p, k)
  <2>1. PICK x : request' = [request EXCEPT ![p][k] =
                               [r EXCEPT !.stage = "removals", !.answer.controls = x]]
    BY <1>5 DEF GetUpdates
  <2> DEFINE new == [r EXCEPT !.stage = "removals", !.answer.controls = x]
  <2> HIDE DEF r
  <2>2. new.session = r.session
    BY <1>2, AnswerFields
  <2> HIDE DEF new
  <2>3. request' = [request EXCEPT ![p][k] = new]
    BY <2>1 DEF new, r
  <2> QED BY <1>3, <2>2, <2>3
<1>6. CASE GetRemovals(p, k)
  <2>1. PICK x : request' = [request EXCEPT ![p][k] =
                               [r EXCEPT !.stage = "notices", !.answer.removals = x]]
    BY <1>6 DEF GetRemovals
  <2> DEFINE new == [r EXCEPT !.stage = "notices", !.answer.removals = x]
  <2> HIDE DEF r
  <2>2. new.session = r.session
    BY <1>2, AnswerFields
  <2> HIDE DEF new
  <2>3. request' = [request EXCEPT ![p][k] = new]
    BY <2>1 DEF new, r
  <2> QED BY <1>3, <2>2, <2>3
<1>7. CASE GetNotifications(p, k)
  <2>1. PICK x : request' = [request EXCEPT ![p][k] =
                               [r EXCEPT !.stage = "answer", !.answer.notices = x]]
    BY <1>7 DEF GetNotifications
  <2> DEFINE new == [r EXCEPT !.stage = "answer", !.answer.notices = x]
  <2> HIDE DEF r
  <2>2. new.session = r.session
    BY <1>2, AnswerFields
  <2> HIDE DEF new
  <2>3. request' = [request EXCEPT ![p][k] = new]
    BY <2>1 DEF new, r
  <2> QED BY <1>3, <2>2, <2>3
<1> QED BY <1>4, <1>5, <1>6, <1>7 DEF HandleUpdate

LEMMA SelectedStep == TypeOK /\ Selected /\ [Next]_vars => Selected'
<1> SUFFICES ASSUME TypeOK, Selected, [Next]_vars PROVE Selected'
  OBVIOUS
<1>1. ASSUME NEW p \in Page, Select(p)
      PROVE  Selected'
  <2> DEFINE k == selects[p] + 1
             r == Asking("track", k, TRUE)
  <2>1. k \in Loop
    BY <1>1, UxTrackerAssumption DEF Select, TypeOK, Loop
  <2>2. /\ selects' = [selects EXCEPT ![p] = k]
        /\ request' = [request EXCEPT ![p][k] = r]
        /\ UNCHANGED screen
    BY <1>1 DEF Select
  <2>3. r.session \in Loop
    BY <2>1, AskingFields
  <2> HIDE DEF k, r
  <2>4. \A q \in Page : selects'[q] = IF q = p THEN k ELSE selects[q]
    BY <2>2 DEF TypeOK
  <2>5. \A q \in Page, j \in Loop :
          request'[q][j] = IF q = p /\ j = k THEN r ELSE request[q][j]
    BY <2>1, <2>2 DEF TypeOK
  <2>6. ASSUME NEW q \in Page, NEW j \in Loop
        PROVE  /\ request'[q][j].stage # "none" => selects'[q] \in Loop
               /\ request'[q][j].stage \notin {"none", "poll"}
                    => request'[q][j].session \in Loop
    BY <2>1, <2>3, <2>4, <2>5 DEF Selected
  <2>7. ASSUME NEW q \in Page, NEW c \in Control, screen'[q][c] # NoValue
        PROVE  selects'[q] \in Loop
    BY <2>1, <2>2, <2>4, <2>7 DEF Selected
  <2> QED BY <2>6, <2>7 DEF Selected
<1>2. ASSUME NEW p \in Page, NEW k \in Loop, Lose(p, k) \/ ParseUiUpdate(p, k)
      PROVE  Selected'
  <2>1. /\ request[p][k].stage # "none"
        /\ request' = [request EXCEPT ![p][k] = Resting]
        /\ UNCHANGED selects
    BY <1>2 DEF Lose, ParseUiUpdate
  <2>2. \A q \in Page \ {p} : screen'[q] = screen[q]
    BY <1>2 DEF Lose, ParseUiUpdate, TypeOK
  <2>3. Resting.stage = "poll"
    BY AskingFields DEF Resting
  <2> QED BY <2>1, <2>2, <2>3, RequestSelected
<1>3. ASSUME NEW p \in Page, NEW k \in Loop, Poll(p, k)
      PROVE  Selected'
  <2>1. /\ request[p][k].stage # "none"
        /\ request' = [request EXCEPT ![p][k] = Asking("updates", selects[p], FALSE)]
        /\ UNCHANGED <<selects, screen>>
    BY <1>3 DEF Poll
  <2>2. selects[p] \in Loop
    BY <2>1 DEF Selected
  <2>3. Asking("updates", selects[p], FALSE).session \in Loop
    BY <2>2, AskingFields
  <2> QED BY <2>1, <2>3, RequestSelected
<1>4. CASE UNCHANGED <<selects, request, screen>>
  BY <1>4 DEF Selected
<1>5. CASE Device \/ NotifyUpdate \/ (\E s \in Session : CheckTrackers(s))
           \/ \E p \in Page : Toggle(p)
  <2>1. UNCHANGED <<selects, request, screen>>
    BY <1>5 DEF Device, AddControl, SetText, DisplayNotification, NotifyUpdate,
                CheckTrackers, Toggle, page
  <2> QED BY <1>4, <2>1
<1>6. ASSUME NEW p \in Page,
             \/ Sleep(p)
             \/ \E c \in Toggles, k \in Loop : HandleToggle(p, c, k)
             \/ \E a \in Actions : \/ PostNotification(p, a) \/ LosePost(p, a)
                                   \/ HandleNotification(p, a)
      PROVE  Selected'
  <2>1. UNCHANGED <<selects, request, screen>>
    BY <1>6 DEF Sleep, HandleToggle, PostNotification, LosePost,
                HandleNotification, page
  <2> QED BY <1>4, <2>1
<1>7. CASE UNCHANGED vars
  BY <1>4, <1>7 DEF vars, page
<1> QED BY <1>1, <1>2, <1>3, <1>5, <1>6, <1>7, HandleUpdateSelected
        DEF Next, User, PollingLoop

-----------------------------------------------------------------------------
(* Flags.  Core is what the handlers and requests do to controls and       *)
(* trackers; one lemma per action that does anything to them.              *)

Core == Tracking /\ ActingFlagged /\ NothingUntold

LEMMA AddControlCore ==
  ASSUME TypeOK, Core, NEW c \in Control, AddControl(c)
  PROVE  Core'
<1>1. /\ controls' = controls \cup {c}
      /\ UNCHANGED <<value, device, acting, trackers, told, overtaken>>
      /\ \A s \in trackers : /\ tracked'[s] = tracked[s] \cup {c}
                             /\ flagged'[s] = flagged[s] \cup {c}
  BY DEF AddControl, AddedFlagged, TypeOK
<1>2. Tracking'
  BY <1>1 DEF Core, Tracking
<1>3. ActingFlagged'
  BY <1>1 DEF Core, ActingFlagged
<1>4. NothingUntold'
  BY <1>1 DEF Core, NothingUntold
<1> QED BY <1>2, <1>3, <1>4 DEF Core

LEMMA SetTextCore ==
  ASSUME TypeOK, Core, NEW c \in Control, SetText(c)
  PROVE  Core'
<1>1. /\ c \in controls /\ device = NoControl /\ device' = c
      /\ \A d \in Control \ {c} : value'[d] = value[d]
      /\ UNCHANGED <<controls, acting, trackers, tracked, flagged, told, overtaken>>
  BY DEF SetText, TypeOK, updates
<1>2. Tracking' /\ ActingFlagged'
  BY <1>1 DEF Core, Tracking, ActingFlagged
<1>3. NothingUntold'
  <2>1. \A d \in controls \ {c} : value'[d] = value[d] /\ d # device
    BY <1>1, UxTrackerAssumption DEF TypeOK
  <2> QED BY <1>1, <2>1 DEF Core, NothingUntold
<1> QED BY <1>2, <1>3 DEF Core

LEMMA NotifyUpdateCore ==
  ASSUME TypeOK, Core, NotifyUpdate
  PROVE  Core'
<1>1. /\ device \in controls /\ device' = NoControl
      /\ UNCHANGED <<controls, value, acting, trackers, tracked, told, overtaken>>
  BY DEF NotifyUpdate, Core, Tracking
<1>2. \A s \in trackers : flagged'[s] = flagged[s] \cup {device}
  BY <1>1 DEF NotifyUpdate, Flagged, Core, Tracking, TypeOK
<1>3. Tracking' /\ ActingFlagged'
  BY <1>1, <1>2 DEF Core, Tracking, ActingFlagged
<1>4. NothingUntold'
  BY <1>1, <1>2 DEF Core, NothingUntold
<1> QED BY <1>3, <1>4 DEF Core

LEMMA HandleToggleCore ==
  ASSUME TypeOK, Core, NEW p \in Page, NEW c \in Toggles, NEW k \in Loop,
         HandleToggle(p, c, k)
  PROVE  Core'
<1> DEFINE own == <<p, k>>
<1>1. /\ c \in controls /\ acting[p] = NoControl
      /\ overtaken' = overtaken \cup ({own} \cap trackers) \X {c}
      /\ UNCHANGED <<controls, value, device, trackers, tracked, told>>
      /\ \A q \in Page : acting'[q] = IF q = p THEN c ELSE acting[q]
  BY DEF HandleToggle, TypeOK
<1>2. \A s \in trackers \ {own} : flagged'[s] = flagged[s] \cup {c}
  BY <1>1 DEF HandleToggle, Flagged, Core, Tracking, TypeOK
<1>3. \A s \in Session : flagged[s] \subseteq flagged'[s]
  BY DEF HandleToggle, Flagged
<1>4. trackers \subseteq Session
  BY DEF TypeOK
<1> HIDE DEF own
<1>5. Tracking'
  BY <1>1 DEF Core, Tracking
<1>6. ActingFlagged'
  BY <1>1, <1>2, <1>3, <1>4 DEF Core, ActingFlagged
<1>7. NothingUntold'
  <2>1. \A d \in controls, q \in Page : acting[q] = d => acting'[q] = d
    BY <1>1, UxTrackerAssumption DEF TypeOK
  <2>2. \A x : x \in overtaken => x \in overtaken'
    BY <1>1
  <2> SUFFICES ASSUME NEW s \in trackers, NEW d \in controls
               PROVE  \/ told[s][d] = value[d]
                      \/ d \in flagged'[s]
                      \/ d = device
                      \/ \E q \in Page : acting'[q] = d
                      \/ <<s, d>> \in overtaken'
    BY <1>1 DEF NothingUntold
  <2>3. \/ told[s][d] = value[d]
        \/ d \in flagged[s]
        \/ d = device
        \/ \E q \in Page : acting[q] = d
        \/ <<s, d>> \in overtaken
    BY DEF Core, NothingUntold
  <2> QED BY <1>3, <1>4, <2>1, <2>2, <2>3
<1> QED BY <1>5, <1>6, <1>7 DEF Core

LEMMA ToggleCore ==
  ASSUME TypeOK, Bounded, Core, NEW p \in Page, Toggle(p)
  PROVE  Core'
<1>1. /\ UNCHANGED <<controls, device, trackers, tracked, flagged, told, overtaken>>
      /\ acting[p] # NoControl
      /\ \A q \in Page : acting'[q] = IF q = p THEN NoControl ELSE acting[q]
  BY DEF Toggle, TypeOK, updates
<1>2. \A d \in Control \ {acting[p]} : value'[d] = value[d]
  BY ToggleValue
<1>3. Tracking'
  BY <1>1 DEF Core, Tracking
<1>4. ActingFlagged'
  BY <1>1 DEF Core, ActingFlagged
<1>5. NothingUntold'
  <2> SUFFICES ASSUME NEW s \in trackers, NEW d \in controls
               PROVE  \/ told[s][d] = value'[d]
                      \/ d \in flagged[s]
                      \/ d = device
                      \/ \E q \in Page : acting'[q] = d
                      \/ <<s, d>> \in overtaken
    BY <1>1 DEF NothingUntold
  <2>1. CASE d = acting[p]
    BY <1>1, <2>1 DEF Core, ActingFlagged
  <2>2. CASE d # acting[p]
    <3>1. value'[d] = value[d]
      BY <1>2, <2>2 DEF TypeOK
    <3>2. \A q \in Page : acting[q] = d => acting'[q] = d
      BY <1>1, <2>2
    <3> QED BY <3>1, <3>2 DEF Core, NothingUntold
  <2> QED BY <2>1, <2>2
<1> QED BY <1>3, <1>4, <1>5 DEF Core

LEMMA AddTrackerCore ==
  ASSUME TypeOK, Selected, Core, NEW p \in Page, NEW k \in Loop, AddTracker(p, k)
  PROVE  Core'
<1> DEFINE s == <<p, request[p][k].session>>
<1>1. s \in Session
  BY SessionType DEF AddTracker
<1>2. /\ trackers' = trackers \cup {s}
      /\ UNCHANGED <<controls, value, device, acting, told, overtaken>>
  BY DEF AddTracker, shared
<1>3. \A t \in Session :
        /\ tracked'[t] = IF t = s THEN controls ELSE tracked[t]
        /\ flagged'[t] = IF t = s THEN controls ELSE flagged[t]
  BY <1>1 DEF AddTracker, TrackedNow, TypeOK
<1> HIDE DEF s
<1>4. trackers \subseteq Session
  BY DEF TypeOK
<1>5. Tracking'
  BY <1>1, <1>2, <1>3, <1>4 DEF Core, Tracking
<1>6. ActingFlagged'
  BY <1>1, <1>2, <1>3, <1>4 DEF Core, Tracking, ActingFlagged
<1>7. NothingUntold'
  BY <1>1, <1>2, <1>3, <1>4 DEF Core, NothingUntold
<1> QED BY <1>5, <1>6, <1>7 DEF Core

LEMMA GetUpdatesCore ==
  ASSUME TypeOK, Selected, Core, NEW p \in Page, NEW k \in Loop, GetUpdates(p, k)
  PROVE  Core'
<1> DEFINE r  == request[p][k]
           s  == <<p, r.session>>
           cs == IF r.force /\ s \in trackers THEN controls ELSE flagged[s]
           amid == {<<s, c>> : c \in {d \in cs : \E q \in Page : acting[q] = d}}
<1>1. s \in Session
  BY SessionType DEF GetUpdates
<1>2. /\ cs \subseteq controls
      /\ overtaken' = (overtaken \ ({s} \X cs)) \cup amid
      /\ UNCHANGED <<controls, value, device, acting, trackers, tracked>>
  BY <1>1 DEF GetUpdates, TypeOK, shared
<1>3. \A t \in Session : flagged'[t] = IF t = s THEN flagged[s] \ cs ELSE flagged[t]
  BY <1>1 DEF GetUpdates, TypeOK
<1>4. /\ \A t \in Session \ {s} : told'[t] = told[t]
      /\ \A c \in Control : told'[s][c] = IF c \in cs THEN value[c] ELSE told[s][c]
  BY <1>1 DEF GetUpdates, TypeOK
<1>5. \A t \in Session, c \in Control :
        /\ t # s \/ c \notin cs => (<<t, c>> \in overtaken => <<t, c>> \in overtaken')
        /\ c \in cs /\ (\E q \in Page : acting[q] = c) => <<s, c>> \in overtaken'
  BY <1>2
<1>6. trackers \subseteq Session /\ controls \subseteq Control
  BY DEF TypeOK
<1> HIDE DEF r, s, cs, amid
<1>7. Tracking'
  BY <1>2 DEF Core, Tracking
<1>8. ActingFlagged'
  <2> SUFFICES ASSUME NEW q \in Page, acting[q] # NoControl, NEW t \in trackers
               PROVE  acting[q] \in flagged'[t] \/ <<t, acting[q]>> \in overtaken'
    BY <1>2 DEF ActingFlagged
  <2>1. acting[q] \in controls /\ acting[q] \in Control /\ t \in Session
    BY <1>6 DEF Core, Tracking
  <2>2. acting[q] \in flagged[t] \/ <<t, acting[q]>> \in overtaken
    BY DEF Core, ActingFlagged
  <2>3. CASE t = s /\ acting[q] \in cs
    BY <1>5, <2>1, <2>3
  <2>4. CASE ~(t = s /\ acting[q] \in cs)
    BY <1>3, <1>5, <2>1, <2>2, <2>4
  <2> QED BY <2>3, <2>4
<1>9. NothingUntold'
  <2> SUFFICES ASSUME NEW t \in trackers, NEW c \in controls
               PROVE  \/ told'[t][c] = value[c]
                      \/ c \in flagged'[t]
                      \/ c = device
                      \/ \E q \in Page : acting[q] = c
                      \/ <<t, c>> \in overtaken'
    BY <1>2 DEF NothingUntold
  <2>1. t \in Session /\ c \in Control
    BY <1>6
  <2>2. CASE t = s /\ c \in cs
    BY <1>4, <2>1, <2>2
  <2>3. CASE ~(t = s /\ c \in cs)
    <3>1. told'[t][c] = told[t][c]
      BY <1>4, <2>1, <2>3
    <3>2. c \in flagged[t] => c \in flagged'[t]
      BY <1>3, <2>1, <2>3
    <3>3. <<t, c>> \in overtaken => <<t, c>> \in overtaken'
      BY <1>5, <2>1, <2>3
    <3> QED BY <3>1, <3>2, <3>3 DEF Core, NothingUntold
  <2> QED BY <2>2, <2>3
<1> QED BY <1>7, <1>8, <1>9 DEF Core

LEMMA CheckTrackersCore ==
  ASSUME TypeOK, Core, NEW s \in Session, CheckTrackers(s)
  PROVE  Core'
<1>1. /\ trackers' = trackers \ {s}
      /\ UNCHANGED <<controls, value, device, acting>>
      /\ \A t \in trackers' : /\ tracked'[t] = tracked[t] /\ flagged'[t] = flagged[t]
                              /\ told'[t] = told[t]
  BY DEF CheckTrackers, TypeOK, shared
<1>2. \A t \in trackers' : \A x : <<t, x>> \in overtaken => <<t, x>> \in overtaken'
  BY <1>1 DEF CheckTrackers
<1>3. Tracking' /\ ActingFlagged'
  BY <1>1, <1>2 DEF Core, Tracking, ActingFlagged
<1>4. NothingUntold'
  <2> SUFFICES ASSUME NEW t \in trackers', NEW c \in controls
               PROVE  \/ told'[t][c] = value[c]
                      \/ c \in flagged'[t]
                      \/ c = device
                      \/ \E p \in Page : acting[p] = c
                      \/ <<t, c>> \in overtaken'
    BY <1>1 DEF NothingUntold
  <2>1. t \in trackers /\ told'[t] = told[t] /\ flagged'[t] = flagged[t]
    BY <1>1
  <2> QED BY <1>2, <2>1 DEF Core, NothingUntold
<1> QED BY <1>3, <1>4 DEF Core

LEMMA CoreStep == TypeOK /\ Bounded /\ Selected /\ Core /\ [Next]_vars => Core'
<1> SUFFICES ASSUME TypeOK, Bounded, Selected, Core, [Next]_vars PROVE Core'
  OBVIOUS
<1>1. CASE UNCHANGED <<controls, value, device, acting, trackers, tracked,
                       flagged, told, overtaken>>
  BY <1>1 DEF Core, Tracking, ActingFlagged, NothingUntold
<1>2. ASSUME NEW a \in Actions, DisplayNotification(a)
      PROVE  Core'
  BY <1>1, <1>2 DEF DisplayNotification, shared, updates
<1>3. ASSUME NEW p \in Page,
             \/ Select(p) \/ Sleep(p)
             \/ \E a \in Actions : \/ PostNotification(p, a) \/ LosePost(p, a)
                                   \/ HandleNotification(p, a)
             \/ \E k \in Loop : Lose(p, k) \/ Poll(p, k) \/ GetRemovals(p, k)
                                \/ GetNotifications(p, k) \/ ParseUiUpdate(p, k)
      PROVE  Core'
  BY <1>1, <1>3 DEF Select, Sleep, PostNotification, LosePost, HandleNotification,
                    Lose, Poll, GetRemovals, GetNotifications, ParseUiUpdate,
                    shared, updates
<1>4. CASE UNCHANGED vars
  BY <1>1, <1>4 DEF vars, shared, updates
<1> QED BY <1>2, <1>3, <1>4, AddControlCore, SetTextCore, NotifyUpdateCore,
           HandleToggleCore, ToggleCore, AddTrackerCore, GetUpdatesCore,
           CheckTrackersCore
        DEF Next, Device, User, HandleUpdate, PollingLoop

-----------------------------------------------------------------------------
LEMMA IInvInit == Init => IInv
<1> SUFFICES ASSUME Init PROVE IInv
  OBVIOUS
<1>1. TypeOK
  BY TypeInit
<1>2. Bounded
  <2>1. \A c \in Control : Acting(c) = {} /\ value[c] = 0
    BY UxTrackerAssumption DEF Init, Acting
  <2> QED BY <2>1, FS_EmptySet, UxTrackerAssumption DEF Bounded
<1>3. Selected
  <2>1. Unborn.stage = "none"
    BY AskingFields DEF Unborn
  <2> QED BY <2>1 DEF Init, Selected
<1>4. Tracking /\ ActingFlagged /\ NothingUntold
  BY DEF Init, Tracking, ActingFlagged, NothingUntold
<1> QED BY <1>1, <1>2, <1>3, <1>4 DEF IInv

LEMMA IInvStep == IInv /\ [Next]_vars => IInv'
BY TypeStep, BoundedStep, SelectedStep, CoreStep DEF IInv, Core

(* Invariant: flags and trackers name controls that are there, what was    *)
(* answered is a version, a removed notification is no longer pending, and *)
(* requests are for sessions that were opened.                             *)
THEOREM UxTrackerTypesCorrect == Spec => []TypeOK
<1>1. IInv => TypeOK
  BY DEF IInv
<1> QED BY IInvInit, IInvStep, <1>1, PTL DEF Spec

(* The inductive invariant: a tracker tracks every control there is, and   *)
(* while handleToggle is between its two steps every session is flagged or *)
(* was answered in between, the session that switched the toggle included. *)
THEOREM UxTrackerInvariant == Spec => []IInv
BY IInvInit, IInvStep, PTL DEF Spec

(* No change of a control goes untold, whatever the pages, the controls    *)
(* and the order of device messages, requests and sweeps: see              *)
(* NothingUntold for the two sessions a toggle may leave behind.           *)
THEOREM NothingGoesUntold == Spec => []NothingUntold
<1>1. IInv => NothingUntold
  BY DEF IInv
<1> QED BY UxTrackerInvariant, <1>1, PTL

-----------------------------------------------------------------------------
(* Notifications.  On a calm page one polling loop carries all of them: it *)
(* is told of each once, so one removal takes it away.                     *)

(* One loop for each selection, for sessions selected so far; only the     *)
(* first request of a loop is forced.                                      *)
Turns ==
  \A p \in Page, k \in Loop :
    /\ request[p][k].stage = "none" <=> k > selects[p]
    /\ request[p][k].stage \notin {"none", "poll"}
         => request[p][k].session \in 1..selects[p]
    /\ request[p][k].stage = "track" => request[p][k].force
    /\ request[p][k].stage \in {"none", "poll"} => ~request[p][k].force

(* What an answer holds when, and that it holds nothing absurd.            *)
Answers ==
  \A p \in Page, k \in Loop :
    /\ request[p][k].stage # "answer" => request[p][k].answer.notices = {}
    /\ request[p][k].stage \notin {"notices", "answer"}
         => request[p][k].answer.removals = {}
    /\ request[p][k].answer.notices \subseteq displayed
    /\ request[p][k].answer.removals \subseteq displayed \ pending

(* Sessions without a tracker are promised nothing, the others a note.     *)
Noted ==
  \A s \in Session :
    /\ s \in notifTrackers => s[2] \in 1..selects[s[1]]
    /\ s \notin notifTrackers => noted[s] = {} /\ promised[s] = {}
    /\ promised[s] \cap pending \subseteq noted[s]

(* Pages show and answer what was displayed.                               *)
Pages ==
  \A p \in Page :
    /\ \A a \in Actions : shown[p][a] # 0 => a \in displayed /\ selects[p] # 0
    /\ \A a \in Actions : acted[p][a] # "none" => a \in displayed
    /\ \A a \in pending : acted[p][a] # "taken"

(* A calm page gets a notification once.                                   *)
OnceAt(p, a) ==
  Calm(p) =>
    /\ request[p][1].force /\ request[p][1].stage # "answer" => shown[p][a] = 0
    /\ a \in unseen[<<p, 1>>] =>
         shown[p][a] = 0 /\ a \notin request[p][1].answer.notices
    /\ a \in request[p][1].answer.notices => shown[p][a] = 0
    /\ shown[p][a] \in {0, 1}

OnPage(p, a) == shown[p][a] > 0 \/ a \in request[p][1].answer.notices

AgreesAt(p, a) ==
  a \in displayed /\ Calm(p) /\ <<p, 1>> \in notifTrackers =>
    /\ a \in pending => \/ OnPage(p, a) \/ a \in unseen[<<p, 1>>]
                        \/ request[p][1].force /\ request[p][1].stage # "answer"
                        \/ acted[p][a] \in {"posted", "lost"}
    /\ a \notin pending /\ a \in promised[<<p, 1>>] /\ OnPage(p, a) =>
         a \in removed[<<p, 1>>] \cup request[p][1].answer.removals

Seen == \A p \in Page, a \in Actions : OnceAt(p, a) /\ AgreesAt(p, a)

NoticeInv == Turns /\ Answers /\ Noted /\ Pages /\ Seen

LEMMA CalmSession ==
  ASSUME TypeOK, NEW p \in Page, Calm(p)
  PROVE  1 \in Loop /\ <<p, 1>> \in Session
BY UxTrackerAssumption DEF Calm, TypeOK, Loop, Session

LEMMA CalmLoop ==
  ASSUME TypeOK, Turns, NEW p \in Page, NEW k \in Loop, Calm(p),
         request[p][k].stage # "none"
  PROVE  /\ k = 1
         /\ request[p][k].stage # "poll" => request[p][k].session = 1
BY UxTrackerAssumption DEF Calm, Turns, Loop

(* A page that a step does not touch.                                      *)
LEMMA SameView ==
  ASSUME NEW p \in Page, NEW a \in Actions, OnceAt(p, a), AgreesAt(p, a),
         request'[p][1] = request[p][1], shown'[p] = shown[p],
         acted'[p] = acted[p],
         unseen'[<<p, 1>>] = unseen[<<p, 1>>],
         removed'[<<p, 1>>] = removed[<<p, 1>>],
         promised'[<<p, 1>>] = promised[<<p, 1>>],
         selects'[p] = selects[p], troubled \subseteq troubled',
         <<p, 1>> \in notifTrackers' <=> <<p, 1>> \in notifTrackers,
         a \in pending' <=> a \in pending, a \in displayed' <=> a \in displayed
  PROVE  OnceAt(p, a)' /\ AgreesAt(p, a)'
BY DEF OnceAt, AgreesAt, OnPage, Calm

LEMMA NewRequestFields ==
  ASSUME NEW st, NEW k, NEW f
  PROVE  LET n == Asking(st, k, f)
         IN  /\ n.stage = st /\ n.session = k /\ n.force = f
             /\ n.answer.notices = {} /\ n.answer.removals = {}
BY DEF Asking, NoAnswer

-----------------------------------------------------------------------------
LEMMA DisplayNotices ==
  ASSUME TypeOK, NoticeInv, NEW b \in Actions, DisplayNotification(b)
  PROVE  NoticeInv'
<1>1. /\ b \notin displayed /\ displayed' = displayed \cup {b}
      /\ pending' = pending \cup {b} /\ pending \subseteq displayed
      /\ notifTrackers' = notifTrackers /\ removed' = removed
      /\ selects' = selects /\ request' = request /\ shown' = shown
      /\ acted' = acted /\ troubled' = troubled
  BY DEF DisplayNotification, page, TypeOK
<1>2. \A s \in Session :
        IF s \in notifTrackers
        THEN /\ noted'[s] = noted[s] \cup {b} /\ unseen'[s] = unseen[s] \cup {b}
             /\ promised'[s] = promised[s] \cup {b}
        ELSE /\ noted'[s] = noted[s] /\ unseen'[s] = unseen[s]
             /\ promised'[s] = promised[s]
  BY DEF DisplayNotification
<1>3. Turns' /\ Answers' /\ Pages'
  BY <1>1 DEF NoticeInv, Turns, Answers, Pages
<1>4. Noted'
  BY <1>1, <1>2 DEF NoticeInv, Noted, TypeOK
<1>5. ASSUME NEW p \in Page, NEW a \in Actions, Calm(p)
      PROVE  OnceAt(p, a)' /\ AgreesAt(p, a)'
  <2>1. 1 \in Loop /\ <<p, 1>> \in Session
    BY <1>5, CalmSession
  <2>2. OnceAt(p, a) /\ AgreesAt(p, a)
    BY DEF NoticeInv, Seen
  <2>3. /\ shown[p][b] = 0 /\ b \notin request[p][1].answer.notices
        /\ b \notin pending
    BY <1>1, <2>1 DEF NoticeInv, Pages, Answers
  <2> QED BY <1>1, <1>2, <2>1, <2>2, <2>3 DEF OnceAt, AgreesAt, OnPage, Calm
<1>6. Seen'
  <2>1. \A p \in Page : Calm(p)' <=> Calm(p)
    BY <1>1 DEF Calm
  <2> QED BY <1>5, <2>1 DEF Seen, OnceAt, AgreesAt
<1> QED BY <1>3, <1>4, <1>6 DEF NoticeInv

(* The page's side of an answer: nothing but the page changes.             *)
LEMMA PostNotices ==
  ASSUME TypeOK, NoticeInv, NEW q \in Page, NEW b \in Actions,
         PostNotification(q, b) \/ LosePost(q, b)
  PROVE  NoticeInv'
<1>1. /\ UNCHANGED <<notices, selects, request, troubled>>
      /\ b \in displayed
  BY DEF PostNotification, LosePost, NoticeInv, Pages, TypeOK
<1>2. \A p \in Page, a \in Actions :
        IF p = q /\ a = b
        THEN /\ acted'[p][a] \in {"posted", "lost"}
             /\ shown'[p][a] = shown[p][a] \/ shown'[p][a] = 0
        ELSE /\ acted'[p][a] = acted[p][a]
             /\ shown'[p][a] = shown[p][a]
  BY DEF PostNotification, LosePost, TypeOK
<1>3. Turns' /\ Answers' /\ Noted'
  BY <1>1 DEF NoticeInv, Turns, Answers, Noted, notices
<1>4. Pages'
  <2> SUFFICES ASSUME NEW p \in Page, NEW a \in Actions
               PROVE  /\ shown'[p][a] # 0 => a \in displayed /\ selects[p] # 0
                      /\ acted'[p][a] # "none" => a \in displayed
                      /\ a \in pending => acted'[p][a] # "taken"
    BY <1>1 DEF Pages, notices, TypeOK
  <2> QED BY <1>1, <1>2 DEF NoticeInv, Pages
<1>5. ASSUME NEW p \in Page, NEW a \in Actions
      PROVE  OnceAt(p, a)' /\ AgreesAt(p, a)'
  <2>1. OnceAt(p, a) /\ AgreesAt(p, a)
    BY DEF NoticeInv, Seen
  <2>2. shown[p][a] \in Nat
    BY DEF TypeOK
  <2>3. OnceAt(p, a)'
    BY <1>1, <1>2, <2>1 DEF OnceAt, Calm, notices
  <2>4. AgreesAt(p, a)'
    BY <1>1, <1>2, <2>1, <2>2 DEF AgreesAt, OnPage, Calm, notices
  <2> QED BY <2>3, <2>4
<1> QED BY <1>3, <1>4, <1>5 DEF NoticeInv, Seen

LEMMA DismissNotices ==
  ASSUME TypeOK, NoticeInv, NEW q \in Page, NEW b \in Actions, HandleNotification(q, b)
  PROVE  NoticeInv'
<1>1. /\ displayed' = displayed /\ pending' = pending \ {b}
      /\ notifTrackers' = notifTrackers /\ promised' = promised
      /\ selects' = selects /\ request' = request /\ troubled' = troubled
      /\ shown' = shown /\ b \in displayed
  BY DEF HandleNotification, NoticeInv, Pages, TypeOK
<1>2. \A s \in Session :
        /\ noted'[s] = noted[s] \ {b} /\ unseen'[s] = unseen[s] \ {b}
        /\ removed[s] \subseteq removed'[s]
        /\ b \in noted[s] => b \in removed'[s]
  BY DEF HandleNotification, Erased, Dismissed, TypeOK
<1>3. pending \subseteq Actions
  BY DEF TypeOK
<1>4. \A p \in Page, a \in Actions \ {b} : acted'[p][a] = acted[p][a]
  BY DEF HandleNotification, TypeOK
<1>5. Turns' /\ Answers' /\ Pages'
  BY <1>1, <1>3, <1>4 DEF NoticeInv, Turns, Answers, Pages
<1>6. Noted'
  BY <1>1, <1>2 DEF NoticeInv, Noted
<1>7. ASSUME NEW p \in Page, NEW a \in Actions, Calm(p)
      PROVE  OnceAt(p, a)' /\ AgreesAt(p, a)'
  <2>1. 1 \in Loop /\ <<p, 1>> \in Session
    BY <1>7, CalmSession
  <2>2. OnceAt(p, a) /\ AgreesAt(p, a)
    BY DEF NoticeInv, Seen
  <2>3. a \in promised[<<p, 1>>] /\ a \in pending => a \in noted[<<p, 1>>]
    BY <2>1 DEF NoticeInv, Noted
  <2>4. OnceAt(p, a)'
    BY <1>1, <1>2, <2>1, <2>2 DEF OnceAt, Calm
  <2>5. AgreesAt(p, a)'
    BY <1>1, <1>2, <1>4, <1>7, <2>1, <2>2, <2>3 DEF AgreesAt, OnPage
  <2> QED BY <2>4, <2>5
<1>8. Seen'
  <2>1. \A p \in Page : Calm(p)' <=> Calm(p)
    BY <1>1 DEF Calm
  <2> QED BY <1>7, <2>1 DEF Seen, OnceAt, AgreesAt
<1> QED BY <1>5, <1>6, <1>8 DEF NoticeInv

-----------------------------------------------------------------------------
LEMMA SelectNotices ==
  ASSUME TypeOK, NoticeInv, NEW p \in Page, Select(p)
  PROVE  NoticeInv'
<1> DEFINE k == selects[p] + 1
           new == Asking("track", k, TRUE)
<1>1. /\ k \in Loop /\ selects[p] \in Nat
      /\ \A q \in Page : selects[q] \in Nat
      /\ \A q \in Page : selects'[q] = IF q = p THEN k ELSE selects[q]
      /\ request' = [request EXCEPT ![p][k] = new]
      /\ UNCHANGED <<notices, shown, acted, troubled>>
  BY UxTrackerAssumption DEF Select, TypeOK, Loop
<1>2. /\ new.stage = "track" /\ new.session = k /\ new.force = TRUE
      /\ new.answer.notices = {} /\ new.answer.removals = {}
  BY NewRequestFields
<1>3. k = selects[p] + 1
  OBVIOUS
<1> HIDE DEF k, new
<1>4. \A q \in Page, j \in Loop :
        request'[q][j] = IF q = p /\ j = k THEN new ELSE request[q][j]
  BY <1>1 DEF TypeOK
<1>5. Turns'
  <2> SUFFICES ASSUME NEW q \in Page, NEW j \in Loop
               PROVE  /\ request'[q][j].stage = "none" <=> j > selects'[q]
                      /\ request'[q][j].stage \notin {"none", "poll"}
                           => request'[q][j].session \in 1..selects'[q]
                      /\ request'[q][j].stage = "track" => request'[q][j].force
                      /\ request'[q][j].stage \in {"none", "poll"}
                           => ~request'[q][j].force
    BY DEF Turns
  <2>1. CASE q = p /\ j = k
    BY <1>1, <1>2, <1>3, <1>4, <2>1
  <2>2. CASE q # p \/ j # k
    <3>1. request'[q][j] = request[q][j]
      BY <1>4, <2>2
    <3>2. 1..selects[q] \subseteq 1..selects'[q]
      BY <1>1, <1>3
    <3>3. j > selects[q] <=> j > selects'[q]
      BY <1>1, <1>3, <2>2 DEF Loop
    <3> QED BY <3>1, <3>2, <3>3 DEF NoticeInv, Turns
  <2> QED BY <2>1, <2>2
<1>6. Answers'
  BY <1>1, <1>2, <1>4 DEF NoticeInv, Answers, notices
<1>7. Noted'
  <2> SUFFICES ASSUME NEW s \in notifTrackers, s \in Session
               PROVE  s[2] \in 1..selects'[s[1]]
    BY <1>1 DEF NoticeInv, Noted, notices
  <2>1. s[1] \in Page /\ s[2] \in 1..selects[s[1]]
    BY DEF NoticeInv, Noted, Session
  <2> QED BY <1>1, <1>3, <2>1
<1>8. Pages'
  BY <1>1, <1>3 DEF NoticeInv, Pages, notices
<1>9. ASSUME NEW q \in Page, NEW a \in Actions
      PROVE  OnceAt(q, a)' /\ AgreesAt(q, a)'
  <2>1. OnceAt(q, a) /\ AgreesAt(q, a)
    BY DEF NoticeInv, Seen
  <2>2. CASE q # p
    <3>1. 1 \in Loop
      BY <1>1, UxTrackerAssumption DEF Loop
    <3> QED BY <1>1, <1>4, <2>1, <2>2, <3>1, SameView DEF notices
  <2>3. CASE q = p /\ selects[p] # 0
    <3>1. ~Calm(p)'
      BY <1>1, <1>3, <2>3 DEF Calm
    <3> QED BY <2>3, <3>1 DEF OnceAt, AgreesAt
  <2>4. CASE q = p /\ selects[p] = 0
    <3>1. k = 1 /\ 1 \in Loop /\ <<p, 1>> \in Session
      BY <1>1, <1>3, <2>4 DEF Session
    <3>2. <<p, 1>> \notin notifTrackers
      BY <2>4, <3>1 DEF NoticeInv, Noted
    <3>3. unseen[<<p, 1>>] = {}
      BY <3>1, <3>2 DEF NoticeInv, Noted, TypeOK
    <3>4. shown[p][a] = 0
      BY <2>4 DEF NoticeInv, Pages
    <3> QED BY <1>1, <1>2, <1>4, <2>4, <3>1, <3>2, <3>3, <3>4
            DEF OnceAt, AgreesAt, notices
  <2> QED BY <2>2, <2>3, <2>4
<1>10. Seen'
  BY <1>9 DEF Seen
<1> QED BY <1>5, <1>6, <1>7, <1>8, <1>10 DEF NoticeInv

(* A step of one polling loop: what it owes to the other pages, and what   *)
(* its request must look like.                                             *)
LEMMA LoopStep ==
  ASSUME TypeOK, NoticeInv, NEW p \in Page, NEW k \in Loop, NEW new,
         request' = [request EXCEPT ![p][k] = new],
         request[p][k].stage # "none", new.stage # "none",
         new.stage # "poll" => new.session \in 1..selects[p],
         new.stage # "track",
         new.stage = "poll" => ~new.force,
         new.stage # "answer" => new.answer.notices = {},
         new.stage \notin {"notices", "answer"} => new.answer.removals = {},
         new.answer.notices \subseteq displayed,
         new.answer.removals \subseteq displayed \ pending,
         UNCHANGED <<selects, displayed, pending, promised, acted>>,
         troubled \subseteq troubled',
         \A q \in Page \ {p} :
           /\ shown'[q] = shown[q]
           /\ 1 \in Loop => /\ unseen'[<<q, 1>>] = unseen[<<q, 1>>]
                            /\ removed'[<<q, 1>>] = removed[<<q, 1>>]
                            /\ <<q, 1>> \in notifTrackers' <=> <<q, 1>> \in notifTrackers
  PROVE  /\ Turns' /\ Answers'
         /\ \A q \in Page \ {p}, a \in Actions : OnceAt(q, a)' /\ AgreesAt(q, a)'
<1>1. \A q \in Page, j \in Loop :
        request'[q][j] = IF q = p /\ j = k THEN new ELSE request[q][j]
  BY DEF TypeOK
<1>2. Turns'
  BY <1>1 DEF NoticeInv, Turns
<1>3. Answers'
  BY <1>1 DEF NoticeInv, Answers
<1>4. ASSUME NEW q \in Page \ {p}, NEW a \in Actions
      PROVE  OnceAt(q, a)' /\ AgreesAt(q, a)'
  <2>1. 1 \in Loop
    BY UxTrackerAssumption DEF Loop
  <2>2. OnceAt(q, a) /\ AgreesAt(q, a)
    BY DEF NoticeInv, Seen
  <2>3. /\ request'[q][1] = request[q][1] /\ shown'[q] = shown[q]
        /\ unseen'[<<q, 1>>] = unseen[<<q, 1>>]
        /\ removed'[<<q, 1>>] = removed[<<q, 1>>]
        /\ <<q, 1>> \in notifTrackers' <=> <<q, 1>> \in notifTrackers
    BY <1>1, <2>1
  <2> QED BY <2>2, <2>3, SameView
<1> QED BY <1>2, <1>3, <1>4

(* The same for a step that moves no notification.                         *)
LEMMA QuietStep ==
  ASSUME TypeOK, NoticeInv,
         UNCHANGED <<notices, selects, request, shown, acted>>,
         troubled \subseteq troubled'
  PROVE  NoticeInv'
<1>1. Turns' /\ Answers' /\ Noted' /\ Pages'
  BY DEF NoticeInv, Turns, Answers, Noted, Pages, notices
<1>2. ASSUME NEW q \in Page, NEW a \in Actions
      PROVE  OnceAt(q, a)' /\ AgreesAt(q, a)'
  <2>1. OnceAt(q, a) /\ AgreesAt(q, a)
    BY DEF NoticeInv, Seen
  <2> QED BY <2>1, SameView DEF notices
<1> QED BY <1>1, <1>2 DEF NoticeInv, Seen

LEMMA LoseNotices ==
  ASSUME TypeOK, NoticeInv, NEW p \in Page, NEW k \in Loop, Lose(p, k)
  PROVE  NoticeInv'
<1>1. /\ request' = [request EXCEPT ![p][k] = Resting]
      /\ troubled' = troubled \cup {p}
      /\ UNCHANGED <<notices, selects, shown, acted>>
      /\ request[p][k].stage # "none"
  BY DEF Lose
<1>2. /\ Resting.stage = "poll" /\ Resting.force = FALSE
      /\ Resting.answer.notices = {} /\ Resting.answer.removals = {}
  BY DEF Resting, Asking, NoAnswer
<1> DEFINE new == Resting
<1> HIDE DEF new
<1>3. /\ Turns' /\ Answers'
      /\ \A q \in Page \ {p}, a \in Actions : OnceAt(q, a)' /\ AgreesAt(q, a)'
  BY <1>1, <1>2, LoopStep DEF new, notices
<1>4. Noted' /\ Pages'
  BY <1>1 DEF NoticeInv, Noted, Pages, notices
<1>5. ~Calm(p)'
  BY <1>1 DEF Calm
<1> QED BY <1>3, <1>4, <1>5 DEF NoticeInv, Seen, OnceAt, AgreesAt

LEMMA PollNotices ==
  ASSUME TypeOK, NoticeInv, NEW p \in Page, NEW k \in Loop, Poll(p, k)
  PROVE  NoticeInv'
<1> DEFINE new == Asking("updates", selects[p], FALSE)
<1>1. /\ request' = [request EXCEPT ![p][k] = new]
      /\ UNCHANGED <<notices, selects, shown, acted, troubled>>
      /\ request[p][k].stage = "poll"
  BY DEF Poll
<1>2. /\ new.stage = "updates" /\ new.session = selects[p] /\ new.force = FALSE
      /\ new.answer.notices = {} /\ new.answer.removals = {}
  BY NewRequestFields
<1>3. selects[p] \in 1..selects[p]
  BY <1>1, UxTrackerAssumption DEF NoticeInv, Turns, TypeOK, Loop
<1> HIDE DEF new
<1>4. /\ Turns' /\ Answers'
      /\ \A q \in Page \ {p}, a \in Actions : OnceAt(q, a)' /\ AgreesAt(q, a)'
  BY <1>1, <1>2, <1>3, LoopStep DEF notices
<1>5. Noted' /\ Pages'
  BY <1>1 DEF NoticeInv, Noted, Pages, notices
<1>6. ASSUME NEW a \in Actions, Calm(p)
      PROVE  OnceAt(p, a)' /\ AgreesAt(p, a)'
  <2>1. OnceAt(p, a) /\ AgreesAt(p, a)
    BY DEF NoticeInv, Seen
  <2>2. k = 1 /\ 1 \in Loop
    BY <1>1, <1>6, CalmLoop, CalmSession DEF NoticeInv
  <2>3. /\ ~request[p][1].force
        /\ request[p][1].answer.notices = {} /\ request[p][1].answer.removals = {}
    BY <1>1, <2>2 DEF NoticeInv, Turns, Answers
  <2>4. request'[p][1] = new
    BY <1>1, <2>2 DEF TypeOK
  <2> QED BY <1>1, <1>2, <2>1, <2>3, <2>4 DEF OnceAt, AgreesAt, OnPage, Calm, notices
<1>7. Calm(p)' <=> Calm(p)
  BY <1>1 DEF Calm
<1> QED BY <1>4, <1>5, <1>6, <1>7 DEF NoticeInv, Seen, OnceAt, AgreesAt

LEMMA AddTrackerNotices ==
  ASSUME TypeOK, NoticeInv, NEW p \in Page, NEW k \in Loop, AddTracker(p, k)
  PROVE  NoticeInv'
<1> DEFINE r == request[p][k]
           s == <<p, r.session>>
           new == [r EXCEPT !.stage = "updates"]
<1>1. /\ r \in Request /\ r.stage = "track"
      /\ request' = [request EXCEPT ![p][k] = new]
      /\ notifTrackers' = notifTrackers \cup {s}
      /\ UNCHANGED <<noted, unseen, removed, pending, displayed, promised,
                     selects, shown, acted, troubled>>
  BY DEF AddTracker, TypeOK
<1>2. /\ new.stage = "updates" /\ new.session = r.session /\ new.force = r.force
      /\ new.answer.notices = r.answer.notices
      /\ new.answer.removals = r.answer.removals
  BY <1>1 DEF Request
<1>3. /\ r.session \in 1..selects[p] /\ r.force
      /\ r.answer.notices = {} /\ r.answer.removals = {}
  BY <1>1 DEF NoticeInv, Turns, Answers
<1>4. \A q \in Page \ {p} : <<q, 1>> # s
  OBVIOUS
<1>5. Noted'
  <2>1. s[1] = p /\ s[2] = r.session
    OBVIOUS
  <2> HIDE DEF s
  <2> QED BY <1>1, <1>3, <2>1 DEF NoticeInv, Noted
<1>6. Pages'
  BY <1>1 DEF NoticeInv, Pages
<1>7. r = request[p][k] /\ s = <<p, r.session>>
  OBVIOUS
<1> HIDE DEF r, s, new
<1>8. /\ Turns' /\ Answers'
      /\ \A q \in Page \ {p}, a \in Actions : OnceAt(q, a)' /\ AgreesAt(q, a)'
  BY <1>1, <1>2, <1>3, <1>4, <1>7, LoopStep
<1>9. ASSUME NEW a \in Actions, Calm(p)
      PROVE  OnceAt(p, a)' /\ AgreesAt(p, a)'
  <2>1. OnceAt(p, a) /\ AgreesAt(p, a)
    BY DEF NoticeInv, Seen
  <2>2. k = 1 /\ 1 \in Loop
    BY <1>1, <1>7, <1>9, CalmLoop, CalmSession DEF NoticeInv
  <2>3. request'[p][1] = new /\ request[p][1] = r
    BY <1>1, <1>7, <2>2 DEF TypeOK
  <2>4. shown[p][a] = 0
    BY <1>1, <1>3, <1>9, <2>1, <2>3 DEF OnceAt
  <2>5. OnceAt(p, a)'
    BY <1>1, <1>2, <1>3, <1>9, <2>1, <2>3, <2>4 DEF OnceAt, Calm
  <2>6. AgreesAt(p, a)'
    <3>1. request'[p][1].force /\ request'[p][1].stage # "answer"
      BY <1>2, <1>3, <2>3
    <3>2. ~OnPage(p, a)'
      BY <1>1, <1>2, <1>3, <2>3, <2>4 DEF OnPage
    <3> QED BY <3>1, <3>2 DEF AgreesAt
  <2> QED BY <2>5, <2>6
<1>10. Calm(p)' <=> Calm(p)
  BY <1>1 DEF Calm
<1> QED BY <1>5, <1>6, <1>8, <1>9, <1>10 DEF NoticeInv, Seen, OnceAt, AgreesAt

LEMMA GetUpdatesNotices ==
  ASSUME TypeOK, NoticeInv, NEW p \in Page, NEW k \in Loop, GetUpdates(p, k)
  PROVE  NoticeInv'
<1> DEFINE r == request[p][k]
<1>1. PICK x : request' = [request EXCEPT ![p][k] =
                 [r EXCEPT !.stage = "removals", !.answer.controls = x]]
  BY DEF GetUpdates
<1> DEFINE new == [r EXCEPT !.stage = "removals", !.answer.controls = x]
<1>2. /\ request' = [request EXCEPT ![p][k] = new]
      /\ r \in Request /\ r.stage = "updates"
      /\ UNCHANGED <<notices, selects, shown, acted, troubled>>
  <2>1. r \in Request
    BY DEF TypeOK
  <2>2. r.stage = "updates" /\ UNCHANGED <<notices, selects, shown, acted, troubled>>
    BY DEF GetUpdates
  <2> QED BY <1>1, <2>1, <2>2
<1>3. r = request[p][k]
  OBVIOUS
<1> HIDE DEF r
<1>4. /\ new.stage = "removals" /\ new.session = r.session /\ new.force = r.force
      /\ new.answer.notices = r.answer.notices
      /\ new.answer.removals = r.answer.removals
  BY <1>2 DEF Request
<1>5. /\ r.session \in 1..selects[p]
      /\ r.answer.notices = {} /\ r.answer.removals = {}
  BY <1>2, <1>3 DEF NoticeInv, Turns, Answers
<1> HIDE DEF new
<1>6. /\ Turns' /\ Answers'
      /\ \A q \in Page \ {p}, a \in Actions : OnceAt(q, a)' /\ AgreesAt(q, a)'
  BY <1>2, <1>3, <1>4, <1>5, LoopStep DEF notices
<1>7. Noted' /\ Pages'
  BY <1>2 DEF NoticeInv, Noted, Pages, notices
<1>8. ASSUME NEW a \in Actions, Calm(p)
      PROVE  OnceAt(p, a)' /\ AgreesAt(p, a)'
  <2>1. OnceAt(p, a) /\ AgreesAt(p, a)
    BY DEF NoticeInv, Seen
  <2>2. k = 1 /\ 1 \in Loop
    BY <1>2, <1>3, <1>8, CalmLoop, CalmSession DEF NoticeInv
  <2>3. request'[p][1] = new /\ request[p][1] = r
    BY <1>2, <1>3, <2>2 DEF TypeOK
  <2>4. /\ request'[p][1].force <=> request[p][1].force
        /\ request'[p][1].stage # "answer" /\ request[p][1].stage # "answer"
        /\ request'[p][1].answer.notices = request[p][1].answer.notices
        /\ request'[p][1].answer.removals = request[p][1].answer.removals
    BY <1>2, <1>4, <2>3
  <2> QED BY <1>2, <2>1, <2>4 DEF OnceAt, AgreesAt, OnPage, Calm, notices
<1>9. Calm(p)' <=> Calm(p)
  BY <1>2 DEF Calm
<1> QED BY <1>6, <1>7, <1>8, <1>9 DEF NoticeInv, Seen, OnceAt, AgreesAt

LEMMA GetRemovalsNotices ==
  ASSUME TypeOK, NoticeInv, NEW p \in Page, NEW k \in Loop, GetRemovals(p, k)
  PROVE  NoticeInv'
<1> DEFINE r == request[p][k]
           s == <<p, r.session>>
           new == [r EXCEPT !.stage = "notices", !.answer.removals = removed[s]]
<1>1. /\ request' = [request EXCEPT ![p][k] = new]
      /\ r \in Request /\ r.stage = "removals"
      /\ removed' = [removed EXCEPT ![s] = {}]
      /\ UNCHANGED <<notifTrackers, noted, unseen, pending, displayed, promised,
                     selects, shown, acted, troubled>>
  BY DEF GetRemovals, TypeOK
<1>2. /\ r = request[p][k] /\ s = <<p, r.session>>
      /\ \A q \in Page \ {p} : <<q, 1>> # s
  OBVIOUS
<1> HIDE DEF r, s
<1>3. /\ new.stage = "notices" /\ new.session = r.session /\ new.force = r.force
      /\ new.answer.notices = r.answer.notices /\ new.answer.removals = removed[s]
  BY <1>1 DEF Request
<1>4. /\ r.session \in 1..selects[p]
      /\ r.answer.notices = {} /\ r.answer.removals = {}
  BY <1>1, <1>2 DEF NoticeInv, Turns, Answers
<1>5. s \in Session /\ removed[s] \subseteq displayed \ pending
  <2>1. r.session \in Loop
    BY <1>4, UxTrackerAssumption DEF TypeOK, Loop
  <2> QED BY <1>2, <2>1 DEF TypeOK, Session
<1> HIDE DEF new
<1>6. \A t \in Session : removed'[t] = IF t = s THEN {} ELSE removed[t]
  BY <1>1 DEF TypeOK
<1>7. \A q \in Page \ {p} : 1 \in Loop => removed'[<<q, 1>>] = removed[<<q, 1>>]
  BY <1>2, <1>6 DEF Session
<1>8. /\ Turns' /\ Answers'
      /\ \A q \in Page \ {p}, a \in Actions : OnceAt(q, a)' /\ AgreesAt(q, a)'
  BY <1>1, <1>2, <1>3, <1>4, <1>5, <1>7, LoopStep
<1>9. Noted' /\ Pages'
  BY <1>1 DEF NoticeInv, Noted, Pages
<1>10. ASSUME NEW a \in Actions, Calm(p)
       PROVE  OnceAt(p, a)' /\ AgreesAt(p, a)'
  <2>1. OnceAt(p, a) /\ AgreesAt(p, a)
    BY DEF NoticeInv, Seen
  <2>2. k = 1 /\ 1 \in Loop /\ r.session = 1
    BY <1>1, <1>2, <1>10, CalmLoop, CalmSession DEF NoticeInv
  <2>3. request'[p][1] = new /\ request[p][1] = r
    BY <1>1, <1>2, <2>2 DEF TypeOK
  <2>4. /\ request'[p][1].force <=> request[p][1].force
        /\ request'[p][1].stage # "answer" /\ request[p][1].stage # "answer"
        /\ request'[p][1].answer.notices = request[p][1].answer.notices
        /\ request'[p][1].answer.removals = removed[<<p, 1>>]
        /\ request[p][1].answer.removals = {}
    BY <1>1, <1>2, <1>3, <1>4, <2>2, <2>3
  <2>5. OnceAt(p, a)'
    BY <1>1, <2>1, <2>4 DEF OnceAt, Calm
  <2>6. AgreesAt(p, a)'
    BY <1>1, <2>1, <2>4 DEF AgreesAt, OnPage, Calm
  <2> QED BY <2>5, <2>6
<1>11. Calm(p)' <=> Calm(p)
  BY <1>1 DEF Calm
<1> QED BY <1>8, <1>9, <1>10, <1>11 DEF NoticeInv, Seen, OnceAt, AgreesAt

LEMMA GetNotificationsNotices ==
  ASSUME TypeOK, NoticeInv, NEW p \in Page, NEW k \in Loop, GetNotifications(p, k)
  PROVE  NoticeInv'
<1> DEFINE r == request[p][k]
           s == <<p, r.session>>
           as == NoticesFor(s, r.force)
           new == [r EXCEPT !.stage = "answer", !.answer.notices = as]
<1>1. /\ request' = [request EXCEPT ![p][k] = new]
      /\ r \in Request /\ r.stage = "notices"
      /\ unseen' = [unseen EXCEPT ![s] = @ \ as]
      /\ UNCHANGED <<notifTrackers, noted, removed, pending, displayed, promised,
                     selects, shown, acted, troubled>>
  BY DEF GetNotifications, TypeOK
<1>2. /\ r = request[p][k] /\ s = <<p, r.session>>
      /\ \A q \in Page \ {p} : <<q, 1>> # s
      /\ as = IF r.force /\ s \in notifTrackers THEN pending
              ELSE pending \cap unseen[s]
  BY DEF NoticesFor
<1> HIDE DEF r, s, as
<1>3. /\ new.stage = "answer" /\ new.session = r.session /\ new.force = r.force
      /\ new.answer.notices = as /\ new.answer.removals = r.answer.removals
  BY <1>1 DEF Request
<1>4. /\ r.session \in 1..selects[p]
      /\ r.answer.notices = {} /\ r.answer.removals \subseteq displayed \ pending
  BY <1>1, <1>2 DEF NoticeInv, Turns, Answers
<1>5. s \in Session
  <2>1. r.session \in Loop
    BY <1>4, UxTrackerAssumption DEF TypeOK, Loop
  <2> QED BY <1>2, <2>1 DEF Session
<1> HIDE DEF new
<1>6. as \subseteq pending /\ as \subseteq displayed /\ unseen[s] \subseteq pending
  BY <1>2, <1>5 DEF TypeOK
<1>7. \A t \in Session : unseen'[t] = IF t = s THEN unseen[s] \ as ELSE unseen[t]
  BY <1>1 DEF TypeOK
<1>8. \A q \in Page \ {p} : 1 \in Loop => unseen'[<<q, 1>>] = unseen[<<q, 1>>]
  BY <1>2, <1>7 DEF Session
<1>9. /\ Turns' /\ Answers'
      /\ \A q \in Page \ {p}, a \in Actions : OnceAt(q, a)' /\ AgreesAt(q, a)'
  BY <1>1, <1>2, <1>3, <1>4, <1>6, <1>8, LoopStep
<1>10. Noted' /\ Pages'
  BY <1>1 DEF NoticeInv, Noted, Pages
<1>11. ASSUME NEW a \in Actions, Calm(p)
       PROVE  OnceAt(p, a)' /\ AgreesAt(p, a)'
  <2>1. OnceAt(p, a) /\ AgreesAt(p, a)
    BY DEF NoticeInv, Seen
  <2>2. k = 1 /\ 1 \in Loop /\ r.session = 1
    BY <1>1, <1>2, <1>11, CalmLoop, CalmSession DEF NoticeInv
  <2>3. request'[p][1] = new /\ request[p][1] = r /\ s = <<p, 1>>
    BY <1>1, <1>2, <2>2 DEF TypeOK
  <2>4. /\ request[p][1].stage # "answer" /\ request[p][1].answer.notices = {}
        /\ request'[p][1].stage = "answer" /\ request'[p][1].answer.notices = as
        /\ request'[p][1].answer.removals = request[p][1].answer.removals
        /\ unseen'[<<p, 1>>] = unseen[<<p, 1>>] \ as
    BY <1>1, <1>3, <1>4, <1>5, <1>7, <2>3
  <2>5. a \in as => shown[p][a] = 0
    <3>1. CASE r.force
      BY <1>11, <2>1, <2>3, <2>4, <3>1 DEF OnceAt
    <3>2. CASE ~r.force
      BY <1>2, <1>11, <2>1, <2>3, <3>2 DEF OnceAt
    <3> QED BY <3>1, <3>2
  <2>6. OnceAt(p, a)'
    BY <1>1, <1>11, <2>1, <2>4, <2>5 DEF OnceAt
  <2>7. AgreesAt(p, a)'
    <3> SUFFICES ASSUME a \in displayed, <<p, 1>> \in notifTrackers
                 PROVE  /\ a \in pending => \/ OnPage(p, a)' \/ a \in unseen'[<<p, 1>>]
                                            \/ acted[p][a] \in {"posted", "lost"}
                        /\ a \notin pending /\ a \in promised[<<p, 1>>] /\ OnPage(p, a)'
                             => a \in removed'[<<p, 1>>] \cup request'[p][1].answer.removals
      BY <1>1 DEF AgreesAt
    <3>1. a \notin pending => (OnPage(p, a)' <=> OnPage(p, a))
      BY <1>1, <1>6, <2>4 DEF OnPage
    <3>2. a \notin pending /\ a \in promised[<<p, 1>>] /\ OnPage(p, a)'
            => a \in removed'[<<p, 1>>] \cup request'[p][1].answer.removals
      BY <1>1, <1>11, <2>1, <2>4, <3>1 DEF AgreesAt
    <3>3. ASSUME a \in pending
          PROVE  \/ OnPage(p, a)' \/ a \in unseen'[<<p, 1>>]
                 \/ acted[p][a] \in {"posted", "lost"}
      <4>1. CASE r.force
        BY <1>2, <2>3, <2>4, <3>3, <4>1 DEF OnPage
      <4>2. CASE ~r.force
        <5>1. \/ OnPage(p, a) \/ a \in unseen[<<p, 1>>]
              \/ acted[p][a] \in {"posted", "lost"}
          BY <1>11, <2>1, <2>3, <3>3, <4>2 DEF AgreesAt
        <5>2. OnPage(p, a) => OnPage(p, a)'
          BY <1>1, <2>4 DEF OnPage
        <5>3. a \in unseen[<<p, 1>>] => a \in as
          BY <1>2, <2>3, <3>3, <4>2
        <5>4. a \in as => OnPage(p, a)'
          BY <2>4 DEF OnPage
        <5> QED BY <5>1, <5>2, <5>3, <5>4
      <4> QED BY <4>1, <4>2
    <3> QED BY <3>2, <3>3
  <2> QED BY <2>6, <2>7
<1>12. Calm(p)' <=> Calm(p)
  BY <1>1 DEF Calm
<1> QED BY <1>9, <1>10, <1>11, <1>12 DEF NoticeInv, Seen, OnceAt, AgreesAt

LEMMA ParseNotices ==
  ASSUME TypeOK, NoticeInv, NEW p \in Page, NEW k \in Loop, ParseUiUpdate(p, k)
  PROVE  NoticeInv'
<1> DEFINE got == request[p][k].answer
           more(a) == IF a \in got.notices /\ acted[p][a] = "none"
                      THEN shown[p][a] + 1 ELSE shown[p][a]
<1>1. /\ request' = [request EXCEPT ![p][k] = Resting]
      /\ request[p][k].stage = "answer"
      /\ UNCHANGED <<notices, selects, acted, troubled>>
  BY DEF ParseUiUpdate
<1>2. /\ Resting.stage = "poll" /\ Resting.force = FALSE
      /\ Resting.answer.notices = {} /\ Resting.answer.removals = {}
  BY DEF Resting, Asking, NoAnswer
<1>3. /\ \A q \in Page \ {p} : shown'[q] = shown[q]
      /\ \A a \in Actions : shown[p][a] \in Nat
      /\ \A a \in Actions :
           shown'[p][a] = IF a \in got.removals /\ more(a) > 0
                          THEN more(a) - 1 ELSE more(a)
  BY DEF ParseUiUpdate, TypeOK
<1>4. /\ got.notices \subseteq displayed /\ got.removals \subseteq displayed \ pending
      /\ \A a \in pending : acted[p][a] # "taken"
  BY DEF NoticeInv, Answers, Pages
<1>5. selects[p] # 0
  BY <1>1, UxTrackerAssumption DEF NoticeInv, Turns, Loop
<1>6. got = request[p][k].answer
  OBVIOUS
<1> DEFINE new == Resting
<1> HIDE DEF new, got
<1>7. /\ Turns' /\ Answers'
      /\ \A q \in Page \ {p}, a \in Actions : OnceAt(q, a)' /\ AgreesAt(q, a)'
  BY <1>1, <1>2, <1>3, LoopStep DEF new, notices
<1>8. Noted'
  BY <1>1 DEF NoticeInv, Noted, notices
<1>9. Pages'
  <2>1. \A a \in Actions : shown'[p][a] # 0 => shown[p][a] # 0 \/ a \in got.notices
    BY <1>3
  <2> QED BY <1>1, <1>3, <1>4, <1>5, <2>1 DEF NoticeInv, Pages, notices
<1>10. ASSUME NEW a \in Actions, Calm(p)
       PROVE  OnceAt(p, a)' /\ AgreesAt(p, a)'
  <2>1. OnceAt(p, a) /\ AgreesAt(p, a)
    BY DEF NoticeInv, Seen
  <2>2. k = 1 /\ 1 \in Loop
    BY <1>1, <1>10, CalmLoop, CalmSession DEF NoticeInv
  <2>3. /\ request'[p][1] = Resting /\ request[p][1].answer = got
        /\ request[p][1].stage = "answer"
    BY <1>1, <1>6, <2>2 DEF TypeOK
  <2>4. /\ a \in unseen[<<p, 1>>] => shown[p][a] = 0 /\ a \notin got.notices
        /\ a \in got.notices => shown[p][a] = 0
        /\ shown[p][a] \in {0, 1}
    BY <1>10, <2>1, <2>3 DEF OnceAt
  <2>5. more(a) \in {0, 1}
    BY <2>4
  <2>6. shown'[p][a] = IF a \in got.removals THEN 0 ELSE more(a)
    BY <1>3, <2>5
  <2>7. OnceAt(p, a)'
    <3>1. a \in unseen[<<p, 1>>] => shown'[p][a] = 0
      BY <2>4, <2>6
    <3>2. shown'[p][a] \in {0, 1}
      BY <2>5, <2>6
    <3> QED BY <1>1, <1>2, <2>3, <3>1, <3>2 DEF OnceAt, notices
  <2>8. AgreesAt(p, a)'
    <3> SUFFICES ASSUME a \in displayed, <<p, 1>> \in notifTrackers
                 PROVE  /\ a \in pending => \/ shown'[p][a] > 0 \/ a \in unseen[<<p, 1>>]
                                            \/ acted[p][a] \in {"posted", "lost"}
                        /\ a \notin pending /\ a \in promised[<<p, 1>>] /\ shown'[p][a] > 0
                             => a \in removed[<<p, 1>>]
      BY <1>1, <1>2, <2>3 DEF AgreesAt, OnPage, notices
    <3>1. OnPage(p, a) <=> shown[p][a] > 0 \/ a \in got.notices
      BY <2>3 DEF OnPage
    <3>2. ASSUME a \in pending
          PROVE  \/ shown'[p][a] > 0 \/ a \in unseen[<<p, 1>>]
                 \/ acted[p][a] \in {"posted", "lost"}
      <4>1. \/ OnPage(p, a) \/ a \in unseen[<<p, 1>>]
            \/ acted[p][a] \in {"posted", "lost"}
        BY <1>10, <2>1, <2>3, <3>2 DEF AgreesAt
      <4>2. /\ a \notin got.removals
            /\ acted[p][a] \notin {"posted", "lost"} => acted[p][a] = "none"
        BY <1>4, <3>2 DEF TypeOK
      <4> QED BY <2>4, <2>6, <3>1, <4>1, <4>2
    <3>3. ASSUME a \notin pending, a \in promised[<<p, 1>>], shown'[p][a] > 0
          PROVE  a \in removed[<<p, 1>>]
      <4>1. a \notin got.removals /\ more(a) > 0
        BY <2>5, <2>6, <3>3
      <4>2. OnPage(p, a)
        BY <2>4, <3>1, <4>1
      <4> QED BY <1>10, <2>1, <2>3, <3>3, <4>1, <4>2 DEF AgreesAt
    <3> QED BY <3>2, <3>3
  <2> QED BY <2>7, <2>8
<1>11. Calm(p)' <=> Calm(p)
  BY <1>1 DEF Calm
<1> QED BY <1>7, <1>8, <1>9, <1>10, <1>11 DEF NoticeInv, Seen, OnceAt, AgreesAt

LEMMA NoticeInvInit == Init => NoticeInv
<1> SUFFICES ASSUME Init PROVE NoticeInv
  OBVIOUS
<1>1. /\ Unborn.stage = "none" /\ Unborn.force = FALSE
      /\ Unborn.answer.notices = {} /\ Unborn.answer.removals = {}
  BY DEF Unborn, Asking, NoAnswer
<1> DEFINE u == Unborn
<1> HIDE DEF u
<1>2. \A p \in Page, k \in Loop : request[p][k] = u
  BY DEF Init, u
<1>3. \A p \in Page : selects[p] = 0 /\ ~Calm(p)
  BY DEF Init, Calm
<1>4. Turns
  BY <1>1, <1>2, <1>3, UxTrackerAssumption DEF Turns, Loop, u
<1>5. Answers
  BY <1>1, <1>2 DEF Answers, u
<1>6. Noted /\ Pages
  BY DEF Init, Noted, Pages
<1>7. Seen
  BY <1>3 DEF Seen, OnceAt, AgreesAt
<1> QED BY <1>4, <1>5, <1>6, <1>7 DEF NoticeInv

LEMMA NoticeInvStep == IInv /\ NoticeInv /\ [Next]_vars => NoticeInv'
<1> SUFFICES ASSUME TypeOK, NoticeInv, [Next]_vars PROVE NoticeInv'
  BY DEF IInv
<1>1. CASE UNCHANGED vars
  BY <1>1, QuietStep DEF vars, page
<1>2. CASE NotifyUpdate \/ \E c \in Control : AddControl(c) \/ SetText(c)
  BY <1>2, QuietStep DEF NotifyUpdate, AddControl, SetText, page
<1>3. CASE \E s \in Session : CheckTrackers(s)
  BY <1>3, QuietStep DEF CheckTrackers, page
<1>4. ASSUME NEW p \in Page,
             Toggle(p) \/ \E c \in Toggles, k \in Loop : HandleToggle(p, c, k)
      PROVE  NoticeInv'
  BY <1>4, QuietStep DEF Toggle, HandleToggle, page
<1>5. ASSUME NEW p \in Page, Sleep(p)
      PROVE  NoticeInv'
  BY <1>5, QuietStep DEF Sleep
<1> QED BY <1>1, <1>2, <1>3, <1>4, <1>5, DisplayNotices, PostNotices,
           DismissNotices, SelectNotices, LoseNotices, PollNotices, AddTrackerNotices,
           GetUpdatesNotices, GetRemovalsNotices, GetNotificationsNotices,
           ParseNotices
        DEF Next, Device, User, HandleUpdate, PollingLoop

(* The inductive invariant behind it: each polling loop works for a session*)
(* its page has opened and only its first request is forced; an answer     *)
(* carries removals of what is no longer pending; what a page answered is  *)
(* dismissed once the answer is taken, and only then; a session that had   *)
(* its notification tracker at a display has a note of it until it is      *)
(* dismissed; and a calm page is given each notification once.             *)
THEOREM NoticesInvariant == Spec => []NoticeInv
BY NoticeInvInit, NoticeInvStep, UxTrackerInvariant, PTL DEF Spec

(* On a page that selected once and lost nothing, a pending notification   *)
(* is shown or about to be, unless the page's own answer to it is under way*)
(* or lost, and the removal of a dismissed one is on its way, in whatever  *)
(* order displays, answers and requests meet.                              *)
THEOREM NoticesAreRight == Spec => []NoticesAgree
<1>1. TypeOK /\ NoticeInv => NoticesAgree
  BY DEF TypeOK, NoticeInv, Seen, AgreesAt, OnPage, NoticesAgree
<1> QED BY UxTrackerTypesCorrect, NoticesInvariant, <1>1, PTL

-----------------------------------------------------------------------------
(* What a calm page shows: the safety that PageCatchesUp rests on.  A page *)
(* shows what it was told, or carries it, so that once nothing is flagged, *)
(* unseen or carried it shows what there is.                               *)

(* Only an answer being carried holds controls.                            *)
Unanswered ==
  \A p \in Page, k \in Loop, c \in Control :
    request[p][k].stage \notin {"removals", "notices", "answer"}
      => request[p][k].answer.controls[c] = NoValue

(* No session is told anything before it is selected.                      *)
Untold ==
  \A s \in Session, c \in Control : told[s][c] # NoValue => s[2] <= selects[s[1]]

(* A calm page that made its first request has its trackers, for good.     *)
KeptAt(p) ==
  Calm(p) /\ request[p][1].stage # "track" =>
    <<p, 1>> \in trackers /\ <<p, 1>> \in notifTrackers

(* Its screen and the answer it carries make what it was told last.        *)
RelayedAt(p, c) ==
  Calm(p) =>
    told[<<p, 1>>][c] = IF request[p][1].answer.controls[c] = NoValue
                        THEN screen[p][c] ELSE request[p][1].answer.controls[c]

ScreenInv ==
  /\ Unanswered /\ Untold
  /\ \A p \in Page : KeptAt(p) /\ \A c \in Control : RelayedAt(p, c)

(* Between two requests of a calm page, nothing waits to be told to it and *)
(* no answer of it waits to be taken.                                      *)
Rests(p) ==
  /\ Calm(p) /\ request[p][1].stage = "poll"
  /\ flagged[<<p, 1>>] = {} /\ unseen[<<p, 1>>] = {} /\ removed[<<p, 1>>] = {}
  /\ device = NoControl /\ \A a \in Actions : acted[p][a] # "posted"

(* Then it agrees; a toggle may differ while a user's change of it is under*)
(* way, and for the session that was answered amid such a change.          *)
RestingPagesAgree ==
  \A p \in Page : Rests(p) =>
    /\ PageAgrees(p)
    /\ \A c \in controls \cap Toggles :
         \/ screen[p][c] = value[c]
         \/ \E q \in Page : acting[q] = c
         \/ <<<<p, 1>>, c>> \in overtaken

(* A page whose screen, loop and session a step does not touch.            *)
LEMMA SameScreen ==
  ASSUME NEW p \in Page, KeptAt(p), \A c \in Control : RelayedAt(p, c),
         request'[p][1] = request[p][1], screen'[p] = screen[p],
         told'[<<p, 1>>] = told[<<p, 1>>],
         selects'[p] = selects[p], troubled \subseteq troubled',
         Calm(p) /\ <<p, 1>> \in trackers => <<p, 1>> \in trackers',
         notifTrackers \subseteq notifTrackers'
  PROVE  KeptAt(p)' /\ \A c \in Control : RelayedAt(p, c)'
<1>1. Calm(p)' => Calm(p)
  BY DEF Calm
<1>2. KeptAt(p)'
  BY <1>1 DEF KeptAt
<1>3. \A c \in Control : RelayedAt(p, c)'
  BY <1>1 DEF RelayedAt
<1> QED BY <1>2, <1>3

(* One step of a loop leaves the other pages as they were.                 *)
LEMMA ScreenStep ==
  ASSUME TypeOK, ScreenInv, NEW p \in Page, NEW k \in Loop, NEW new,
         request' = [request EXCEPT ![p][k] = new],
         \A c \in Control : new.stage \notin {"removals", "notices", "answer"}
                              => new.answer.controls[c] = NoValue,
         UNCHANGED selects, troubled \subseteq troubled',
         trackers \subseteq trackers', notifTrackers \subseteq notifTrackers',
         \A q \in Page \ {p} :
           /\ screen'[q] = screen[q]
           /\ 1 \in Loop => told'[<<q, 1>>] = told[<<q, 1>>]
  PROVE  /\ Unanswered'
         /\ \A q \in Page \ {p} : KeptAt(q)' /\ \A c \in Control : RelayedAt(q, c)'
<1>1. \A q \in Page, j \in Loop :
        request'[q][j] = IF q = p /\ j = k THEN new ELSE request[q][j]
  BY DEF TypeOK
<1>2. Unanswered'
  BY <1>1 DEF ScreenInv, Unanswered
<1>3. ASSUME NEW q \in Page \ {p}
      PROVE  KeptAt(q)' /\ \A c \in Control : RelayedAt(q, c)'
  <2>1. CASE Calm(q)
    <3>1. 1 \in Loop
      BY <2>1, CalmSession
    <3>2. request'[q][1] = request[q][1]
      BY <1>1, <3>1
    <3>3. KeptAt(q) /\ \A c \in Control : RelayedAt(q, c)
      BY DEF ScreenInv
    <3>4. /\ told'[<<q, 1>>] = told[<<q, 1>>] /\ selects'[q] = selects[q]
          /\ screen'[q] = screen[q]
          /\ <<q, 1>> \in trackers => <<q, 1>> \in trackers'
      BY <3>1
    <3> QED BY <3>2, <3>3, <3>4, SameScreen
  <2>2. CASE ~Calm(q)
    BY <2>2 DEF Calm, KeptAt, RelayedAt
  <2> QED BY <2>1, <2>2
<1> QED BY <1>2, <1>3

(* A step that moves no request and shows nothing.                         *)
LEMMA QuietScreen ==
  ASSUME TypeOK, ScreenInv, UNCHANGED <<request, screen, told, selects>>,
         troubled \subseteq troubled', notifTrackers \subseteq notifTrackers',
         \A q \in Page : Calm(q) /\ <<q, 1>> \in trackers => <<q, 1>> \in trackers'
  PROVE  ScreenInv'
<1>1. Unanswered' /\ Untold'
  BY DEF ScreenInv, Unanswered, Untold
<1>2. ASSUME NEW q \in Page
      PROVE  KeptAt(q)' /\ \A c \in Control : RelayedAt(q, c)'
  <2>1. KeptAt(q) /\ \A c \in Control : RelayedAt(q, c)
    BY DEF ScreenInv
  <2> QED BY <2>1, SameScreen
<1> QED BY <1>1, <1>2 DEF ScreenInv

-----------------------------------------------------------------------------
LEMMA SelectScreen ==
  ASSUME TypeOK, Selected, NoticeInv, ScreenInv, NEW p \in Page, Select(p)
  PROVE  ScreenInv'
<1> DEFINE k == selects[p] + 1
           new == Asking("track", k, TRUE)
<1>1. /\ request' = [request EXCEPT ![p][k] = new]
      /\ selects' = [selects EXCEPT ![p] = k]
      /\ UNCHANGED <<updates, notices, screen, troubled>>
      /\ selects[p] < MaxSelects
  BY DEF Select
<1>2. selects[p] \in Nat /\ k \in Loop /\ k # 0
  BY <1>1, UxTrackerAssumption DEF TypeOK, Loop
<1>3. /\ new.stage = "track"
      /\ \A c \in Control : new.answer.controls[c] = NoValue
  BY DEF Asking, NoAnswer
<1> HIDE DEF new
<1>4. \A q \in Page, j \in Loop :
        request'[q][j] = IF q = p /\ j = k THEN new ELSE request[q][j]
  BY <1>1, <1>2 DEF TypeOK
<1>5. Unanswered'
  BY <1>3, <1>4 DEF ScreenInv, Unanswered
<1>6. \A q \in Page : selects'[q] = IF q = p THEN k ELSE selects[q]
  BY <1>1 DEF TypeOK
<1>7. Untold'
  <2> SUFFICES ASSUME NEW s \in Session, NEW c \in Control, told[s][c] # NoValue
               PROVE  s[2] <= selects'[s[1]]
    BY <1>1 DEF Untold, updates
  <2>1. s[2] <= selects[s[1]] /\ s[1] \in Page /\ s[2] \in Nat
    BY DEF ScreenInv, Untold, Session, Loop
  <2>2. selects[s[1]] \in Nat
    BY <2>1 DEF TypeOK
  <2>3. selects'[s[1]] = selects[s[1]] \/ selects'[s[1]] = selects[s[1]] + 1
    BY <1>6, <2>1
  <2> QED BY <2>1, <2>2, <2>3
<1>8. ASSUME NEW q \in Page
      PROVE  KeptAt(q)' /\ \A c \in Control : RelayedAt(q, c)'
  <2>1. CASE q # p
    <3>1. KeptAt(q) /\ \A c \in Control : RelayedAt(q, c)
      BY DEF ScreenInv
    <3>2. 1 \in Loop => request'[q][1] = request[q][1]
      BY <1>4, <2>1
    <3>3. 1 \in Loop
      BY <1>1, UxTrackerAssumption DEF TypeOK, Loop
    <3>4. selects'[q] = selects[q]
      BY <1>6, <2>1
    <3>5. /\ request'[q][1] = request[q][1] /\ screen'[q] = screen[q]
          /\ told'[<<q, 1>>] = told[<<q, 1>>] /\ troubled \subseteq troubled'
          /\ <<q, 1>> \in trackers => <<q, 1>> \in trackers'
          /\ notifTrackers \subseteq notifTrackers'
      BY <1>1, <3>2, <3>3 DEF updates, notices
    <3> QED BY <3>1, <3>4, <3>5, SameScreen
  <2>2. CASE q = p /\ k = 1
    <3>1. request'[p][1] = new
      BY <1>2, <1>4, <2>2
    <3>2. KeptAt(p)'
      BY <1>3, <3>1 DEF KeptAt
    <3>3. ASSUME NEW c \in Control
          PROVE  told[<<p, 1>>][c] = NoValue /\ screen[p][c] = NoValue
      <4>1. selects[p] = 0
        BY <1>2, <2>2
      <4>2. <<p, 1>> \in Session /\ ~(1 <= 0)
        BY <1>2, <2>2 DEF Session
      <4>3. told[<<p, 1>>][c] = NoValue
        BY <4>1, <4>2 DEF ScreenInv, Untold
      <4>4. screen[p][c] = NoValue
        BY <4>1 DEF Selected, Loop
      <4> QED BY <4>3, <4>4
    <3>4. \A c \in Control : RelayedAt(p, c)'
      BY <1>1, <1>3, <3>1, <3>3 DEF RelayedAt, updates
    <3> QED BY <2>2, <3>2, <3>4
  <2>3. CASE q = p /\ k # 1
    <3>1. ~Calm(p)'
      BY <1>6, <2>3 DEF Calm
    <3> QED BY <2>3, <3>1 DEF KeptAt, RelayedAt
  <2> QED BY <2>1, <2>2, <2>3
<1> QED BY <1>5, <1>7, <1>8 DEF ScreenInv

LEMMA LoseScreen ==
  ASSUME TypeOK, ScreenInv, NEW p \in Page, NEW k \in Loop, Lose(p, k)
  PROVE  ScreenInv'
<1> DEFINE new == Resting
<1>1. /\ request' = [request EXCEPT ![p][k] = new]
      /\ troubled' = troubled \cup {p}
      /\ UNCHANGED <<updates, notices, screen, selects>>
  BY DEF Lose
<1>2. \A c \in Control : new.answer.controls[c] = NoValue
  BY DEF Resting, Asking, NoAnswer
<1> HIDE DEF new
<1>3. /\ Unanswered'
      /\ \A q \in Page \ {p} : KeptAt(q)' /\ \A c \in Control : RelayedAt(q, c)'
  BY <1>1, <1>2, ScreenStep DEF updates, notices
<1>4. Untold'
  BY <1>1 DEF ScreenInv, Untold, updates
<1>5. ~Calm(p)'
  BY <1>1 DEF Calm
<1> QED BY <1>3, <1>4, <1>5 DEF ScreenInv, KeptAt, RelayedAt

(* A step of a loop that neither shows nor answers controls.               *)
LEMMA CarryScreen ==
  ASSUME TypeOK, NoticeInv, ScreenInv, NEW p \in Page, NEW k \in Loop, NEW new,
         request' = [request EXCEPT ![p][k] = new],
         request[p][k].stage \notin {"none", "track"},
         new.answer.controls = request[p][k].answer.controls,
         \/ new.stage \in {"removals", "notices", "answer"}
         \/ request[p][k].stage = "poll",
         UNCHANGED <<updates, notifTrackers, selects, screen, troubled>>
  PROVE  ScreenInv'
<1>1. \A c \in Control : new.stage \notin {"removals", "notices", "answer"}
                            => new.answer.controls[c] = NoValue
  BY DEF ScreenInv, Unanswered
<1>2. /\ Unanswered'
      /\ \A q \in Page \ {p} : KeptAt(q)' /\ \A c \in Control : RelayedAt(q, c)'
  BY <1>1, ScreenStep DEF updates
<1>3. Untold'
  BY DEF ScreenInv, Untold, updates
<1>4. ASSUME Calm(p)
      PROVE  KeptAt(p)' /\ \A c \in Control : RelayedAt(p, c)'
  <2>1. k = 1
    BY <1>4, CalmLoop DEF NoticeInv
  <2>2. request'[p][1] = new
    BY <2>1 DEF TypeOK
  <2>3. KeptAt(p) /\ \A c \in Control : RelayedAt(p, c)
    BY DEF ScreenInv
  <2>4. KeptAt(p)'
    BY <1>4, <2>1, <2>3 DEF KeptAt, updates
  <2>5. \A c \in Control : RelayedAt(p, c)'
    BY <1>4, <2>1, <2>2, <2>3 DEF RelayedAt, updates
  <2> QED BY <2>4, <2>5
<1>5. Calm(p)' <=> Calm(p)
  BY DEF Calm
<1> QED BY <1>2, <1>3, <1>4, <1>5 DEF ScreenInv, KeptAt, RelayedAt

LEMMA PollScreen ==
  ASSUME TypeOK, NoticeInv, ScreenInv, NEW p \in Page, NEW k \in Loop,
         \/ Poll(p, k) \/ GetRemovals(p, k) \/ GetNotifications(p, k)
  PROVE  ScreenInv'
<1> DEFINE r == request[p][k]
<1>1. r \in Request
  BY DEF TypeOK
<1>2. CASE Poll(p, k)
  <2> DEFINE new == Asking("updates", selects[p], FALSE)
  <2>1. /\ request' = [request EXCEPT ![p][k] = new]
        /\ r.stage = "poll"
        /\ UNCHANGED <<updates, notices, selects, screen, troubled>>
    BY <1>2 DEF Poll
  <2>2. new.answer.controls = [c \in Control |-> NoValue]
    BY DEF Asking, NoAnswer
  <2>3. r.answer.controls = [c \in Control |-> NoValue]
    <3>1. r.answer.controls \in [Control -> Value \cup {NoValue}]
      BY <1>1 DEF Request
    <3>2. \A c \in Control : r.answer.controls[c] = NoValue
      BY <2>1 DEF ScreenInv, Unanswered
    <3> HIDE DEF r
    <3> QED BY <3>1, <3>2
  <2> HIDE DEF new
  <2> QED BY <2>1, <2>2, <2>3, CarryScreen DEF notices
<1>3. CASE GetRemovals(p, k)
  <2> DEFINE new == [r EXCEPT !.stage = "notices",
                              !.answer.removals = removed[<<p, r.session>>]]
  <2>1. /\ request' = [request EXCEPT ![p][k] = new]
        /\ r.stage = "removals"
        /\ UNCHANGED <<updates, notifTrackers, selects, screen, troubled>>
    BY <1>3 DEF GetRemovals
  <2>2. r = request[p][k]
    OBVIOUS
  <2> HIDE DEF r
  <2>3. new.stage = "notices" /\ new.answer.controls = r.answer.controls
    BY <1>1 DEF Request
  <2> HIDE DEF new
  <2> QED BY <2>1, <2>2, <2>3, CarryScreen
<1>4. CASE GetNotifications(p, k)
  <2> DEFINE new == [r EXCEPT !.stage = "answer",
                     !.answer.notices = NoticesFor(<<p, r.session>>, r.force)]
  <2>1. /\ request' = [request EXCEPT ![p][k] = new]
        /\ r.stage = "notices"
        /\ UNCHANGED <<updates, notifTrackers, selects, screen, troubled>>
    BY <1>4 DEF GetNotifications
  <2>2. r = request[p][k]
    OBVIOUS
  <2> HIDE DEF r
  <2>3. new.stage = "answer" /\ new.answer.controls = r.answer.controls
    BY <1>1 DEF Request
  <2> HIDE DEF new
  <2> QED BY <2>1, <2>2, <2>3, CarryScreen
<1> QED BY <1>2, <1>3, <1>4

LEMMA AddTrackerScreen ==
  ASSUME TypeOK, NoticeInv, ScreenInv, NEW p \in Page, NEW k \in Loop,
         AddTracker(p, k)
  PROVE  ScreenInv'
<1> DEFINE r == request[p][k]
           new == [r EXCEPT !.stage = "updates"]
<1>1. /\ r \in Request /\ r.stage = "track"
      /\ request' = [request EXCEPT ![p][k] = new]
      /\ trackers' = trackers \cup {<<p, r.session>>}
      /\ notifTrackers' = notifTrackers \cup {<<p, r.session>>}
      /\ UNCHANGED <<told, selects, screen, troubled>>
  BY DEF AddTracker, TypeOK
<1>2. r = request[p][k]
  OBVIOUS
<1> HIDE DEF r
<1>3. new.answer.controls = r.answer.controls
  BY <1>1 DEF Request
<1>4. \A c \in Control : r.answer.controls[c] = NoValue
  BY <1>1, <1>2 DEF ScreenInv, Unanswered
<1> HIDE DEF new
<1>5. /\ Unanswered'
      /\ \A q \in Page \ {p} : KeptAt(q)' /\ \A c \in Control : RelayedAt(q, c)'
  BY <1>1, <1>3, <1>4, ScreenStep
<1>6. Untold'
  BY <1>1 DEF ScreenInv, Untold
<1>7. ASSUME Calm(p)
      PROVE  KeptAt(p)' /\ \A c \in Control : RelayedAt(p, c)'
  <2>1. k = 1 /\ r.session = 1
    BY <1>1, <1>2, <1>7, CalmLoop DEF NoticeInv
  <2>2. request'[p][1] = new
    BY <1>1, <2>1 DEF TypeOK
  <2>3. \A c \in Control : RelayedAt(p, c)
    BY DEF ScreenInv
  <2>4. KeptAt(p)'
    BY <1>1, <2>1 DEF KeptAt
  <2>5. \A c \in Control : RelayedAt(p, c)'
    BY <1>1, <1>2, <1>3, <1>7, <2>1, <2>2, <2>3 DEF RelayedAt
  <2> QED BY <2>4, <2>5
<1>8. Calm(p)' <=> Calm(p)
  BY <1>1 DEF Calm
<1> QED BY <1>5, <1>6, <1>7, <1>8 DEF ScreenInv, KeptAt, RelayedAt
LEMMA GetUpdatesScreen ==
  ASSUME TypeOK, NoticeInv, ScreenInv, NEW p \in Page, NEW k \in Loop,
         GetUpdates(p, k)
  PROVE  ScreenInv'
<1> DEFINE r == request[p][k]
           s == <<p, r.session>>
           cs == IF r.force /\ s \in trackers THEN controls ELSE flagged[s]
           answered == [c \in Control |-> IF c \in cs THEN value[c] ELSE NoValue]
           new == [r EXCEPT !.stage = "removals", !.answer.controls = answered]
<1>1. /\ request' = [request EXCEPT ![p][k] = new]
      /\ r \in Request /\ r.stage = "updates"
      /\ told' = [told EXCEPT ![s] =
             [c \in Control |-> IF c \in cs THEN value[c] ELSE told[s][c]]]
      /\ UNCHANGED <<trackers, notices, selects, screen, troubled>>
  BY DEF GetUpdates, TypeOK
<1>2. /\ r = request[p][k] /\ s = <<p, r.session>>
      /\ \A q \in Page \ {p} : <<q, 1>> # s
      /\ s[1] = p /\ s[2] = r.session
      /\ \A c \in Control : answered[c] = IF c \in cs THEN value[c] ELSE NoValue
  OBVIOUS
<1>3. \A c \in Control : value[c] # NoValue
  BY UxTrackerAssumption DEF TypeOK, Value, NoValue
<1> HIDE DEF r, s, cs, answered
<1>4. new.stage = "removals" /\ new.answer.controls = answered
  BY <1>1 DEF Request
<1> HIDE DEF new
<1>5. r.session \in 1..selects[p] /\ s \in Session
  <2>1. r.session \in 1..selects[p]
    BY <1>1, <1>2 DEF NoticeInv, Turns
  <2>2. r.session \in Loop
    BY <2>1, UxTrackerAssumption DEF TypeOK, Loop
  <2> QED BY <1>2, <2>1, <2>2 DEF Session
<1>6. \A t \in Session, c \in Control :
        told'[t][c] = IF t = s /\ c \in cs THEN value[c] ELSE told[t][c]
  BY <1>1 DEF TypeOK
<1>7. \A q \in Page \ {p} : 1 \in Loop => told'[<<q, 1>>] = told[<<q, 1>>]
  <2>1. \A t \in Session \ {s} : told'[t] = told[t]
    BY <1>1 DEF TypeOK
  <2> QED BY <1>2, <2>1 DEF Session
<1>8. /\ Unanswered'
      /\ \A q \in Page \ {p} : KeptAt(q)' /\ \A c \in Control : RelayedAt(q, c)'
  BY <1>1, <1>4, <1>7, ScreenStep DEF notices
<1>9. Untold'
  <2> SUFFICES ASSUME NEW t \in Session, NEW c \in Control, told'[t][c] # NoValue
               PROVE  t[2] <= selects[t[1]]
    BY <1>1 DEF Untold
  <2>1. CASE t = s
    BY <1>2, <1>5, <2>1 DEF TypeOK
  <2>2. CASE t # s
    BY <1>6, <2>2 DEF ScreenInv, Untold
  <2> QED BY <2>1, <2>2
<1>10. ASSUME Calm(p)
       PROVE  KeptAt(p)' /\ \A c \in Control : RelayedAt(p, c)'
  <2>1. k = 1 /\ r.session = 1 /\ s = <<p, 1>>
    BY <1>1, <1>2, <1>10, CalmLoop DEF NoticeInv
  <2>2. request'[p][1] = new /\ request[p][1] = r
    BY <1>1, <1>2, <2>1 DEF TypeOK
  <2>3. KeptAt(p)'
    BY <1>1, <1>10, <2>2 DEF ScreenInv, KeptAt, notices
  <2>4. ASSUME NEW c \in Control
        PROVE  RelayedAt(p, c)'
    <3>1. told[s][c] = screen[p][c]
      <4>1. RelayedAt(p, c) /\ r.answer.controls[c] = NoValue
        BY <1>1, <1>2 DEF ScreenInv, Unanswered
      <4> QED BY <1>10, <2>1, <2>2, <4>1 DEF RelayedAt
    <3>2. told'[s][c] = IF c \in cs THEN value[c] ELSE screen[p][c]
      BY <1>5, <1>6, <3>1
    <3>3. request'[p][1].answer.controls[c] = IF c \in cs THEN value[c] ELSE NoValue
      BY <1>2, <1>4, <2>2
    <3> QED BY <1>1, <1>3, <2>1, <3>2, <3>3 DEF RelayedAt
  <2> QED BY <2>3, <2>4
<1>11. Calm(p)' <=> Calm(p)
  BY <1>1 DEF Calm
<1> QED BY <1>8, <1>9, <1>10, <1>11 DEF ScreenInv, KeptAt, RelayedAt

LEMMA ParseScreen ==
  ASSUME TypeOK, NoticeInv, ScreenInv, NEW p \in Page, NEW k \in Loop,
         ParseUiUpdate(p, k)
  PROVE  ScreenInv'
<1> DEFINE got == request[p][k].answer
           new == Resting
<1>1. /\ request' = [request EXCEPT ![p][k] = new]
      /\ request[p][k].stage = "answer"
      /\ UNCHANGED <<updates, notices, selects, troubled>>
  BY DEF ParseUiUpdate
<1>2. /\ \A q \in Page \ {p} : screen'[q] = screen[q]
      /\ \A c \in Control :
           screen'[p][c] = IF got.controls[c] # NoValue THEN got.controls[c]
                           ELSE screen[p][c]
  BY DEF ParseUiUpdate, TypeOK
<1>3. \A c \in Control : new.answer.controls[c] = NoValue
  BY DEF Resting, Asking, NoAnswer
<1>4. got = request[p][k].answer
  OBVIOUS
<1> HIDE DEF new, got
<1>5. /\ Unanswered'
      /\ \A q \in Page \ {p} : KeptAt(q)' /\ \A c \in Control : RelayedAt(q, c)'
  BY <1>1, <1>2, <1>3, ScreenStep DEF updates, notices
<1>6. Untold'
  BY <1>1 DEF ScreenInv, Untold, updates
<1>7. ASSUME Calm(p)
      PROVE  KeptAt(p)' /\ \A c \in Control : RelayedAt(p, c)'
  <2>1. k = 1
    BY <1>1, <1>7, CalmLoop DEF NoticeInv
  <2>2. request'[p][1] = new /\ request[p][1].answer = got
    BY <1>1, <1>4, <2>1 DEF TypeOK
  <2>3. KeptAt(p) /\ \A c \in Control : RelayedAt(p, c)
    BY DEF ScreenInv
  <2>4. KeptAt(p)'
    BY <1>1, <1>7, <2>1, <2>3 DEF KeptAt, updates, notices
  <2>5. \A c \in Control : RelayedAt(p, c)'
    BY <1>1, <1>2, <1>3, <1>7, <2>2, <2>3 DEF RelayedAt, updates
  <2> QED BY <2>4, <2>5
<1>8. Calm(p)' <=> Calm(p)
  BY <1>1 DEF Calm
<1> QED BY <1>5, <1>6, <1>7, <1>8 DEF ScreenInv, KeptAt, RelayedAt

LEMMA ScreenInvInit == Init => ScreenInv
<1> SUFFICES ASSUME Init PROVE ScreenInv
  OBVIOUS
<1>1. \A c \in Control : Unborn.answer.controls[c] = NoValue
  BY DEF Unborn, Asking, NoAnswer
<1>2. Unanswered
  BY <1>1 DEF Init, Unanswered
<1>3. Untold
  BY DEF Init, Untold
<1>4. \A p \in Page : ~Calm(p)
  BY DEF Init, Calm
<1> QED BY <1>2, <1>3, <1>4 DEF ScreenInv, KeptAt, RelayedAt

LEMMA ScreenInvStep == IInv /\ NoticeInv /\ ScreenInv /\ [Next]_vars => ScreenInv'
<1> SUFFICES ASSUME TypeOK, Selected, NoticeInv, ScreenInv, [Next]_vars
             PROVE  ScreenInv'
  BY DEF IInv
<1>1. CASE UNCHANGED vars
  BY <1>1, QuietScreen DEF vars, page, updates, notices
<1>2. CASE \/ NotifyUpdate
           \/ \E c \in Control : AddControl(c) \/ SetText(c)
           \/ \E a \in Actions : DisplayNotification(a)
  BY <1>2, QuietScreen
     DEF NotifyUpdate, AddControl, SetText, DisplayNotification, page, updates,
         notices
<1>3. ASSUME NEW s \in Session, CheckTrackers(s)
      PROVE  ScreenInv'
  <2>1. s[2] # selects[s[1]] \/ s[1] \in troubled
    BY <1>3 DEF CheckTrackers
  <2>2. \A q \in Page : Calm(q) => <<q, 1>> # s
    BY <2>1 DEF Calm
  <2>3. /\ trackers' = trackers \ {s}
        /\ UNCHANGED <<request, screen, selects, troubled, notifTrackers>>
        /\ \A t \in Session \ {s} : told'[t] = told[t]
        /\ \A c \in Control : told'[s][c] = NoValue
    BY <1>3 DEF CheckTrackers, notices, page, TypeOK
  <2>4. Unanswered' /\ Untold'
    BY <2>3 DEF ScreenInv, Unanswered, Untold
  <2>5. ASSUME NEW q \in Page
        PROVE  KeptAt(q)' /\ \A c \in Control : RelayedAt(q, c)'
    <3>1. KeptAt(q) /\ \A c \in Control : RelayedAt(q, c)
      BY DEF ScreenInv
    <3>2. CASE Calm(q)
      <4>1. <<q, 1>> \in Session /\ <<q, 1>> # s
        BY <2>2, <3>2, CalmSession
      <4> QED BY <2>3, <3>1, <4>1, SameScreen
    <3>3. CASE ~Calm(q)
      BY <2>3, <3>3 DEF Calm, KeptAt, RelayedAt
    <3> QED BY <3>2, <3>3
  <2> QED BY <2>4, <2>5 DEF ScreenInv
<1>4. ASSUME NEW p \in Page,
             \/ Toggle(p) \/ Sleep(p)
             \/ \E c \in Toggles, k \in Loop : HandleToggle(p, c, k)
             \/ \E a \in Actions : \/ PostNotification(p, a) \/ LosePost(p, a)
                                   \/ HandleNotification(p, a)
      PROVE  ScreenInv'
  BY <1>4, QuietScreen
     DEF Toggle, Sleep, HandleToggle, PostNotification, LosePost,
         HandleNotification, page, updates, notices
<1> QED BY <1>1, <1>2, <1>3, <1>4, SelectScreen, LoseScreen, PollScreen,
           AddTrackerScreen, GetUpdatesScreen, ParseScreen
        DEF Next, Device, User, HandleUpdate, PollingLoop

(* The inductive invariant behind it: only an answer that is carried holds *)
(* controls, no session is told anything before it is selected, a calm page*)
(* keeps its trackers, and its screen and the answer it carries make what  *)
(* its session was told last.                                              *)
THEOREM ScreenInvariant == Spec => []ScreenInv
BY ScreenInvInit, ScreenInvStep, UxTrackerInvariant, NoticesInvariant, PTL DEF Spec

(* The safety that PageCatchesUp rests on: whenever a page that selected   *)
(* once, slept never and lost no response is between two requests, nothing *)
(* is flagged, unseen or removed for it and no answer of its own is under  *)
(* way, it shows every label as it is, every pending notification but those*)
(* its answer to was lost, and none that was dismissed since it polls; a   *)
(* toggle may differ only by a change under way or one that the session    *)
(* was answered amid.                                                      *)
THEOREM RestingPagesAreRight == Spec => []RestingPagesAgree
<1>1. IInv /\ NoticeInv /\ ScreenInv => RestingPagesAgree
  <2> SUFFICES ASSUME IInv, NoticeInv, ScreenInv, NEW p \in Page, Rests(p)
               PROVE  /\ PageAgrees(p)
                      /\ \A c \in controls \cap Toggles :
                           \/ screen[p][c] = value[c]
                           \/ \E q \in Page : acting[q] = c
                           \/ <<<<p, 1>>, c>> \in overtaken
    BY DEF RestingPagesAgree
  <2>1. TypeOK /\ NothingUntold /\ 1 \in Loop /\ <<p, 1>> \in Session
    BY CalmSession DEF IInv, Rests
  <2>2. <<p, 1>> \in trackers /\ <<p, 1>> \in notifTrackers
    BY DEF ScreenInv, KeptAt, Rests
  <2>3. \A c \in Control : screen[p][c] = told[<<p, 1>>][c]
    BY <2>1 DEF ScreenInv, Unanswered, RelayedAt, Rests
  <2>4. ASSUME NEW c \in controls
        PROVE  \/ screen[p][c] = value[c]
               \/ \E q \in Page : acting[q] = c
               \/ <<<<p, 1>>, c>> \in overtaken
    <3>1. c \in Control /\ c # NoControl
      BY <2>1, UxTrackerAssumption DEF TypeOK
    <3> QED BY <2>1, <2>2, <2>3, <3>1 DEF NothingUntold, Rests
  <2>5. \A c \in controls \cap Labels : screen[p][c] = value[c]
    <3>1. \A c \in Labels : c \notin Toggles /\ c # NoControl
      BY UxTrackerAssumption DEF Control
    <3>2. \A q \in Page : acting[q] \in Toggles \cup {NoControl}
      BY <2>1 DEF TypeOK
    <3>3. \A c \in Labels : <<<<p, 1>>, c>> \notin overtaken
      BY <2>1, <3>1 DEF TypeOK
    <3> QED BY <2>4, <3>1, <3>2, <3>3
  <2>6. ASSUME NEW a \in displayed
        PROVE  /\ a \in pending => shown[p][a] > 0 \/ acted[p][a] = "lost"
               /\ a \notin pending /\ a \in promised[<<p, 1>>] => shown[p][a] = 0
    <3>1. a \in Actions /\ shown[p][a] \in Nat
      BY <2>1 DEF TypeOK
    <3>2. /\ request[p][1].answer.notices = {} /\ request[p][1].answer.removals = {}
          /\ ~request[p][1].force
      BY <2>1 DEF NoticeInv, Answers, Turns, Rests
    <3>3. AgreesAt(p, a)
      BY <3>1 DEF NoticeInv, Seen
    <3> QED BY <2>2, <3>1, <3>2, <3>3 DEF AgreesAt, OnPage, Rests
  <2>7. pending \subseteq displayed /\ promised[<<p, 1>>] \subseteq displayed
    BY <2>1 DEF TypeOK
  <2> QED BY <2>4, <2>5, <2>6, <2>7 DEF PageAgrees
<1> QED BY UxTrackerInvariant, NoticesInvariant, ScreenInvariant, <1>1, PTL
=============================================================================
