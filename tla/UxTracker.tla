----------------------------- MODULE UxTracker ------------------------------
(***************************************************************************)
(* One user interface controller of the UX service (UIControllerImpl), the *)
(* browser pages that poll it (update.js, HttpRequestHandler) and the      *)
(* device that changes what it shows.                                      *)
(*                                                                         *)
(* Threads: the one that reads the socket runs the handlers of device      *)
(* messages; every HTTP request runs on a thread of its own; the checker   *)
(* sweeps trackers that were not polled for 30 s.  controlMutex guards     *)
(* controls and trackers, notificationMutex the notifications; a request   *)
(* takes them one after the other and lets the others in between.          *)
(*                                                                         *)
(* Every time the user selects a controller the page draws a new session   *)
(* id and starts one more polling loop: session k and loop k come with the *)
(* k-th selection, and all loops poll for the latest session.              *)
(***************************************************************************)
EXTENDS Naturals, FiniteSets

CONSTANTS
  Page,        \* browser pages
  Labels,      \* controls that the device changes (labels, progress bars)
  Toggles,     \* controls that the user changes (toggles, sliders)
  Actions,     \* action ids of displayed notifications; bound on displays
  NoControl,   \* no control
  MaxChange,   \* bound: how often a control changes
  MaxSelects   \* bound: how often a page selects the controller

Control == Labels \cup Toggles
Loop    == 1..MaxSelects
Session == Page \X Loop
Value   == 0..MaxChange     \* the versions of a control, in order
NoValue == MaxChange + 1    \* a control that is not there

ASSUME UxTrackerAssumption ==
  /\ Labels \cap Toggles = {}
  /\ NoControl \notin Control
  /\ IsFiniteSet(Page)
  /\ MaxChange \in Nat /\ MaxSelects \in Nat

VARIABLES
  controls,     \* ids in UIControllerImpl::controls
  value,        \* what getUx of a control renders
  device,       \* the control whose setText has yet to call notifyUpdate
  acting,       \* the control whose handleToggle has yet to call toggle
  trackers,     \* sessions in UIControllerImpl::trackers
  tracked,      \* their UpdateTracker::updates: the ids ...
  flagged,      \* ... and those of them with an update
  notifTrackers,\* sessions in UIControllerImpl::notifTrackers
  noted,        \* their UpdateTracker::updates: the action ids ...
  unseen,       \* ... and those of them with an update
  removed,      \* their UpdateTracker::removed
  pending,      \* UIControllerImpl::pendingNotifications
  displayed,    \* action ids the device has used
  selects,      \* how often each page has selected: its session id
  request,      \* what each polling loop is waiting for
  screen,       \* what each page shows of each control
  shown,        \* how many elements each page has for each action id
  acted,        \* what became of each page's answer to each action, once
                \* given: its request is "posted", "lost" or "taken"
  troubled,     \* history: pages that lost a response or slept
  told,         \* history: what each session with a tracker was last answered
  overtaken,    \* history: <<session, toggle>> answered amid a change of it
  promised      \* history: actions displayed while the session had a tracker

shared  == <<controls, value, device, acting>>
updates == <<trackers, tracked, flagged, told, overtaken>>
notices == <<notifTrackers, noted, unseen, removed, pending, displayed, promised>>
page    == <<selects, request, screen, shown, acted, troubled>>
vars    == <<shared, updates, notices, page>>

(* The stages of a polling loop, each named for what comes next.  A        *)
(* request knows its session; a response has controls, removals and        *)
(* notifications.                                                          *)
Stage == {"none", "poll", "track", "updates", "removals", "notices", "answer"}

NoAnswer == [controls |-> [c \in Control |-> NoValue],
             removals |-> {}, notices |-> {}]
Asking(stage, k, f) == [stage |-> stage, session |-> k, force |-> f,
                        answer |-> NoAnswer]
Unborn  == Asking("none", 0, FALSE)
Resting == Asking("poll", 0, FALSE)

Request ==
  [stage : Stage, session : 0..MaxSelects, force : BOOLEAN,
   answer : [controls : [Control -> Value \cup {NoValue}],
             removals : SUBSET Actions, notices : SUBSET Actions]]

TypeOK ==
  /\ controls \subseteq Control
  /\ value \in [Control -> Value]
  /\ device \in Labels \cup {NoControl}
  /\ acting \in [Page -> Toggles \cup {NoControl}]
  /\ trackers \subseteq Session
  /\ tracked \in [Session -> SUBSET controls]
  /\ flagged \in [Session -> SUBSET controls]
  /\ \A s \in Session : flagged[s] \subseteq tracked[s]
  /\ notifTrackers \subseteq Session
  /\ noted \in [Session -> SUBSET pending]
  /\ unseen \in [Session -> SUBSET pending]
  /\ \A s \in Session : unseen[s] \subseteq noted[s]
  /\ removed \in [Session -> SUBSET (displayed \ pending)]
  /\ pending \subseteq displayed
  /\ displayed \subseteq Actions
  /\ selects \in [Page -> 0..MaxSelects]
  /\ request \in [Page -> [Loop -> Request]]
  /\ screen \in [Page -> [Control -> Value \cup {NoValue}]]
  /\ shown \in [Page -> [Actions -> Nat]]
  /\ acted \in [Page -> [Actions -> {"none", "posted", "taken", "lost"}]]
  /\ troubled \subseteq Page
  /\ told \in [Session -> [Control -> Value \cup {NoValue}]]
  /\ overtaken \subseteq Session \X Toggles
  /\ promised \in [Session -> SUBSET displayed]

Init ==
  /\ controls = {} /\ value = [c \in Control |-> 0]
  /\ device = NoControl /\ acting = [p \in Page |-> NoControl]
  /\ trackers = {}
  /\ tracked = [s \in Session |-> {}] /\ flagged = [s \in Session |-> {}]
  /\ notifTrackers = {}
  /\ noted = [s \in Session |-> {}] /\ unseen = [s \in Session |-> {}]
  /\ removed = [s \in Session |-> {}]
  /\ pending = {} /\ displayed = {}
  /\ selects = [p \in Page |-> 0]
  /\ request = [p \in Page |-> [k \in Loop |-> Unborn]]
  /\ screen = [p \in Page |-> [c \in Control |-> NoValue]]
  /\ shown = [p \in Page |-> [a \in Actions |-> 0]]
  /\ acted = [p \in Page |-> [a \in Actions |-> "none"]]
  /\ troubled = {}
  /\ told = [s \in Session |-> [c \in Control |-> NoValue]]
  /\ overtaken = {}
  /\ promised = [s \in Session |-> {}]

-----------------------------------------------------------------------------
(* UpdateTracker.                                                          *)

(* setUpdate(c, true) in the trackers of ss: only an id that is tracked.   *)
Flagged(ss, c) ==
  [s \in Session |-> IF s \in ss /\ c \in tracked[s]
                     THEN flagged[s] \cup {c} ELSE flagged[s]]

-----------------------------------------------------------------------------
(* Messages of the device, on the thread that reads the socket.            *)

AddedSilently(c) == flagged                                           \* mutant
AddedFlagged(c) ==
  [s \in Session |-> IF s \in trackers THEN flagged[s] \cup {c} ELSE flagged[s]]

AddControl(c) ==
  /\ device = NoControl
  /\ c \notin controls
  /\ controls' = controls \cup {c}
  /\ tracked' = [s \in Session |-> IF s \in trackers THEN tracked[s] \cup {c}
                                   ELSE tracked[s]]
  /\ flagged' = AddedFlagged(c)
  /\ UNCHANGED <<value, device, acting, trackers, told, overtaken, notices,
                 page>>

(* setText and setProgress assign without a lock ...                       *)
SetText(c) ==
  /\ device = NoControl
  /\ c \in controls \cap Labels
  /\ value[c] < MaxChange
  /\ value' = [value EXCEPT ![c] = @ + 1]
  /\ device' = c
  /\ UNCHANGED <<controls, acting, updates, notices, page>>

(* ... and then flag the control in every tracker.                         *)
NotifyUpdate ==
  /\ device # NoControl
  /\ flagged' = Flagged(trackers, device)
  /\ device' = NoControl
  /\ UNCHANGED <<controls, value, acting, trackers, tracked, told, overtaken,
                 notices, page>>

(* A notification the device has registered; an unknown one is passed over.*)
DisplayNotification(a) ==
  /\ device = NoControl
  /\ a \notin displayed
  /\ displayed' = displayed \cup {a}
  /\ pending' = pending \cup {a}
  /\ noted' = [s \in Session |-> IF s \in notifTrackers THEN noted[s] \cup {a}
                                 ELSE noted[s]]
  /\ unseen' = [s \in Session |-> IF s \in notifTrackers THEN unseen[s] \cup {a}
                                  ELSE unseen[s]]
  /\ promised' = [s \in Session |-> IF s \in notifTrackers
                                    THEN promised[s] \cup {a} ELSE promised[s]]
  /\ UNCHANGED <<shared, updates, notifTrackers, removed, page>>

-----------------------------------------------------------------------------
(* What the user does on a page.                                           *)

(* selectController, and the first one on loading: forceUpdateUI.          *)
Select(p) ==
  /\ selects[p] < MaxSelects
  /\ LET k == selects[p] + 1
     IN  /\ selects' = [selects EXCEPT ![p] = k]
         /\ request' = [request EXCEPT ![p][k] = Asking("track", k, TRUE)]
  /\ UNCHANGED <<shared, updates, notices, screen, shown, acted, troubled>>

(* handleToggle, handleSlider: tells every session but the one that posted,*)
(* which the page may have left since ...                                  *)
HandleToggle(p, c, k) ==
  /\ acting[p] = NoControl
  /\ c \in controls \cap Toggles
  /\ screen[p][c] # NoValue
  /\ value[c] + Cardinality({q \in Page : acting[q] = c}) < MaxChange
  /\ k \in 1..selects[p]
  /\ flagged' = Flagged(trackers \ {<<p, k>>}, c)
  /\ overtaken' = overtaken \cup ({<<p, k>>} \cap trackers) \X {c}
  /\ acting' = [acting EXCEPT ![p] = c]
  /\ UNCHANGED <<controls, value, device, trackers, tracked, told, notices,
                 page>>

(* ... and then changes the control.                                       *)
Toggle(p) ==
  /\ acting[p] # NoControl
  /\ value' = [value EXCEPT ![acting[p]] = @ + 1]
  /\ acting' = [acting EXCEPT ![p] = NoControl]
  /\ UNCHANGED <<controls, device, updates, notices, page>>

(* postNotification sends the answer, waits for nothing and takes the      *)
(* element off the page, at once and whenever it comes back (remove).      *)
PostNotification(p, a) ==
  /\ shown[p][a] > 0
  /\ shown' = [shown EXCEPT ![p][a] = 0]
  /\ acted' = [acted EXCEPT ![p][a] = "posted"]
  /\ UNCHANGED <<shared, updates, notices, selects, request, screen, troubled>>

(* Nobody repeats a request that does not arrive, nor tells the user.      *)
LosePost(p, a) ==
  /\ acted[p][a] = "posted"
  /\ acted' = [acted EXCEPT ![p][a] = "lost"]
  /\ UNCHANGED <<shared, updates, notices, selects, request, screen, shown,
                 troubled>>

(* handleNotification, if it arrives, answers the device and dismisses the *)
(* notification for everyone; another page may have done so before.        *)
DismissedForActor(p, a) ==                                            \* mutant
  {s \in Session : s[1] = p /\ a \in noted[s]}
Dismissed(p, a) == {s \in Session : a \in noted[s]}

StillNoted(a) == noted                                                \* mutant
Erased(a) == [s \in Session |-> noted[s] \ {a}]

HandleNotification(p, a) ==
  /\ acted[p][a] = "posted"
  /\ acted' = [acted EXCEPT ![p][a] = "taken"]
  /\ pending' = pending \ {a}
  /\ removed' = [s \in Session |-> IF s \in Dismissed(p, a)
                                   THEN removed[s] \cup {a} ELSE removed[s]]
  /\ noted' = Erased(a)
  /\ unseen' = [s \in Session |-> unseen[s] \ {a}]
  /\ UNCHANGED <<shared, updates, notifTrackers, displayed, promised, selects,
                 request, screen, shown, troubled>>

-----------------------------------------------------------------------------
(* One polling loop of a page, and handleUpdate on the server.             *)

(* The timer of loop k: updateURI is back to "update".                     *)
Poll(p, k) ==
  /\ request[p][k].stage = "poll"
  /\ request' = [request EXCEPT ![p][k] = Asking("updates", selects[p], FALSE)]
  /\ UNCHANGED <<shared, updates, notices, selects, screen, shown, acted,
                 troubled>>

(* A forced request adds the trackers of its session.                      *)
TrackedLater(s) == tracked                                            \* mutant
TrackedNow(s) == [tracked EXCEPT ![s] = controls]

AddTracker(p, k) ==
  LET s == <<p, request[p][k].session>>
  IN  /\ request[p][k].stage = "track"
      /\ trackers' = trackers \cup {s}
      /\ tracked' = TrackedNow(s)
      /\ flagged' = [flagged EXCEPT ![s] = TrackedNow(s)[s]]
      /\ notifTrackers' = notifTrackers \cup {s}
      /\ request' = [request EXCEPT ![p][k].stage = "updates"]
      /\ UNCHANGED <<shared, told, overtaken, noted, unseen, removed, pending,
                     displayed, promised, selects, screen, shown, acted,
                     troubled>>

(* getUpdates: the controls with an update, or all of them by force, are   *)
(* rendered and their flags cleared, in one critical section.  (The ids of *)
(* notifications that addTracker leaves in this tracker only make          *)
(* hasUpdates true, which saves a scan and no more.)                       *)
GetUpdates(p, k) ==
  LET r  == request[p][k]
      s  == <<p, r.session>>
      cs == IF r.force /\ s \in trackers THEN controls ELSE flagged[s]
  IN  /\ r.stage = "updates"
      /\ request' = [request EXCEPT ![p][k] =
           [r EXCEPT !.stage = "removals",
                     !.answer.controls = [c \in Control |->
                        IF c \in cs THEN value[c] ELSE NoValue]]]
      /\ flagged' = [flagged EXCEPT ![s] = @ \ cs]
      /\ told' = [told EXCEPT ![s] =
           [c \in Control |-> IF c \in cs THEN value[c] ELSE told[s][c]]]
      /\ overtaken' =
           (overtaken \ ({s} \X cs))
           \cup {<<s, c>> : c \in {d \in cs : \E q \in Page : acting[q] = d}}
      /\ UNCHANGED <<shared, trackers, tracked, notices, selects, screen,
                     shown, acted, troubled>>

GetRemovals(p, k) ==
  LET r == request[p][k]
      s == <<p, r.session>>
  IN  /\ r.stage = "removals"
      /\ request' = [request EXCEPT ![p][k] =
           [r EXCEPT !.stage = "notices", !.answer.removals = removed[s]]]
      /\ removed' = [removed EXCEPT ![s] = {}]
      /\ UNCHANGED <<shared, updates, notifTrackers, noted, unseen, pending,
                     displayed, promised, selects, screen, shown, acted,
                     troubled>>

Unforced(s, force) == pending \cap unseen[s]                          \* mutant
NoticesFor(s, force) ==
  IF force /\ s \in notifTrackers THEN pending ELSE pending \cap unseen[s]

GetNotifications(p, k) ==
  LET r  == request[p][k]
      s  == <<p, r.session>>
      as == NoticesFor(s, r.force)
  IN  /\ r.stage = "notices"
      /\ request' = [request EXCEPT ![p][k] =
           [r EXCEPT !.stage = "answer", !.answer.notices = as]]
      /\ unseen' = [unseen EXCEPT ![s] = @ \ as]
      /\ UNCHANGED <<shared, updates, notifTrackers, noted, removed, pending,
                     displayed, promised, selects, screen, shown, acted,
                     troubled>>

(* parseUiUpdate: controls, then notifications, then removals, each of     *)
(* which takes one element off the page.                                   *)
ParseUiUpdate(p, k) ==
  LET got == request[p][k].answer
      more(a) == IF a \in got.notices /\ acted[p][a] = "none"
                 THEN shown[p][a] + 1 ELSE shown[p][a]
  IN  /\ request[p][k].stage = "answer"
      /\ screen' = [screen EXCEPT ![p] =
           [c \in Control |-> IF got.controls[c] # NoValue
                              THEN got.controls[c] ELSE screen[p][c]]]
      /\ shown' = [shown EXCEPT ![p] =
           [a \in Actions |-> IF a \in got.removals /\ more(a) > 0
                              THEN more(a) - 1 ELSE more(a)]]
      /\ request' = [request EXCEPT ![p][k] = Resting]
      /\ UNCHANGED <<shared, updates, notices, selects, acted, troubled>>

(* The request never arrives, or its response is lost: "connection lost".  *)
Lose(p, k) ==
  /\ request[p][k].stage \in {"track", "answer"}
  /\ request' = [request EXCEPT ![p][k] = Resting]
  /\ troubled' = troubled \cup {p}
  /\ UNCHANGED <<shared, updates, notices, selects, screen, shown, acted>>

(* The timers of a page stop for more than 30 s.                           *)
Sleep(p) ==
  /\ troubled' = troubled \cup {p}
  /\ UNCHANGED <<shared, updates, notices, selects, request, screen, shown,
                 acted>>

(* checkTrackers: nobody polled for s for 30 s.  notifTrackers stay.       *)
CheckTrackers(s) ==
  /\ s \in trackers
  /\ s[2] # selects[s[1]] \/ s[1] \in troubled
  /\ \A k \in Loop : request[s[1]][k].session # s[2]
  /\ trackers' = trackers \ {s}
  /\ tracked' = [tracked EXCEPT ![s] = {}]
  /\ flagged' = [flagged EXCEPT ![s] = {}]
  /\ told' = [told EXCEPT ![s] = [c \in Control |-> NoValue]]
  /\ overtaken' = {o \in overtaken : o[1] # s}
  /\ UNCHANGED <<shared, notices, page>>

-----------------------------------------------------------------------------
Device ==
  \/ \E c \in Control : AddControl(c) \/ SetText(c)
  \/ \E a \in Actions : DisplayNotification(a)

User(p) ==
  \/ Select(p)
  \/ Sleep(p)
  \/ \E c \in Toggles, k \in Loop : HandleToggle(p, c, k)
  \/ \E a \in Actions : PostNotification(p, a) \/ LosePost(p, a)
  \/ \E k \in Loop : Lose(p, k)

HandleUpdate(p, k) ==
  AddTracker(p, k) \/ GetUpdates(p, k) \/ GetRemovals(p, k) \/ GetNotifications(p, k)

PollingLoop(p, k) == Poll(p, k) \/ HandleUpdate(p, k) \/ ParseUiUpdate(p, k)

Next ==
  \/ Device
  \/ NotifyUpdate
  \/ \E p \in Page :
       \/ User(p)
       \/ Toggle(p)
       \/ \E a \in Actions : HandleNotification(p, a)
       \/ \E k \in Loop : PollingLoop(p, k)
  \/ \E s \in Session : CheckTrackers(s)

Spec == Init /\ [][Next]_vars

(* The socket thread and the threads of requests finish what they started; *)
(* a page has its timer and parses what it gets; an answer arrives or is   *)
(* lost.  Users and devices owe nothing.                                   *)
Fairness ==
  /\ WF_vars(NotifyUpdate)
  /\ \A p \in Page : WF_vars(Toggle(p))
  /\ \A p \in Page, a \in Actions : WF_vars(HandleNotification(p, a))
  /\ \A p \in Page, k \in Loop : WF_vars(PollingLoop(p, k))

FairSpec == Spec /\ Fairness

-----------------------------------------------------------------------------
(* No change goes untold: what a session with a tracker was last answered  *)
(* of a control is its present value, or the control is flagged for it, or *)
(* the handler that changed it is about to flag it.  A toggle may go untold*)
(* to the session that switched it and to one that was answered between    *)
(* the two steps of handleToggle, which flags before it changes.           *)
NothingUntold ==
  \A s \in trackers, c \in controls :
    \/ told[s][c] = value[c]
    \/ c \in flagged[s]
    \/ c = device
    \/ \E p \in Page : acting[p] = c
    \/ <<s, c>> \in overtaken

(* A page that selected once, slept never and lost no response.            *)
Calm(p) == selects[p] = 1 /\ p \notin troubled

(* Notifications and pages agree.  On a calm page a pending notification is*)
(* shown or about to be, unless the page's own answer has still to arrive, *)
(* or never will; one that was dismissed anywhere is gone, or its removal  *)
(* is on the way, provided it was displayed after the session had its      *)
(* tracker (addTracker adds earlier ones to the wrong tracker).            *)
NoticesAgree ==
  \A p \in Page, a \in displayed :
    LET s == <<p, 1>>
        r == request[p][1]
        onPage == shown[p][a] > 0 \/ a \in r.answer.notices
    IN  Calm(p) /\ s \in notifTrackers =>
          /\ a \in pending => \/ onPage
                              \/ a \in unseen[s]
                              \/ r.force /\ r.stage # "answer"
                              \/ acted[p][a] \in {"posted", "lost"}
          /\ a \notin pending /\ a \in promised[s] /\ onPage =>
               a \in removed[s] \cup r.answer.removals

(* Once the device and the users rest, a calm page shows every label as it *)
(* is, every pending notification but those its own answer to was lost, and*)
(* none that was dismissed.                                                *)
PageAgrees(p) ==
  /\ \A c \in controls \cap Labels : screen[p][c] = value[c]
  /\ \A a \in pending : shown[p][a] > 0 \/ acted[p][a] = "lost"
  /\ \A a \in promised[<<p, 1>>] \ pending : shown[p][a] = 0

PageCatchesUp == \A p \in Page : <>[](Calm(p) => PageAgrees(p))
=============================================================================
