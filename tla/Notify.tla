-------------------------------- MODULE Notify --------------------------------
(***************************************************************************)
(* The notifications a phone schedules for itself, and the budget they are *)
(* spent from.  Every snapshot the client receives cancels the schedule,   *)
(* gives its keys back, and derives it again across the awaits of the      *)
(* plugin: the refresh does not wait for it, so several may be under way.  *)
(* Calls to the plugin reach the system in the order they are made, and    *)
(* what it schedules it delivers whether the app runs or not.              *)
(*                                                                         *)
(* Time goes by the hour, from midnight; `delivered' is history.           *)
(***************************************************************************)
EXTENDS Integers, FiniteSets, Sequences

CONSTANTS
  DailyCap,               \* DAILY_CAP
  ShiftHours,             \* SHIFT_REMINDER_HOURS
  QuietFrom, QuietTo,     \* DEFAULT_NOTIFICATION_PREFS
  Waits,                  \* hours a permit may take
  MaxHours, MaxTier, MaxRecruits, MaxSyncs    \* bounds

VARIABLES now, office, prefs, permission, budget, schedule, syncs, delivered

vars == <<now, office, prefs, permission, budget, schedule, syncs, delivered>>

DayOf(hour) == hour \div 24
HourOf(hour) == hour % 24

None == [key |-> <<>>, at |-> 0]
NoPermit == [tier |-> 0, readyAt |-> 0]

PermitKey(tier) == <<"permit", tier, 0>>
ShiftKey(recruit, day) == <<"shift", recruit, day>>

-----------------------------------------------------------------------------
(* The send budget *)

(* A budget of another day reads as a fresh one.                           *)
Read == IF budget.day = DayOf(now) THEN budget ELSE [day |-> DayOf(now), count |-> 0, sent |-> {}]

CanSend(b, key) == key \notin b.sent /\ b.count < DailyCap

Spend(b, key) ==
  IF CanSend(b, key) THEN [b EXCEPT !.count = @ + 1, !.sent = @ \cup {key}] ELSE b

Refund(b, key) ==
  IF key \in b.sent
  THEN [b EXCEPT !.count = IF @ > 0 THEN @ - 1 ELSE 0, !.sent = @ \ {key}]
  ELSE b

-----------------------------------------------------------------------------
(* syncNotifications *)

(* The window wraps midnight, or does not.                                 *)
InQuietHours(at) ==
  IF QuietFrom > QuietTo
  THEN HourOf(at) >= QuietFrom \/ HourOf(at) < QuietTo
  ELSE HourOf(at) >= QuietFrom /\ HourOf(at) < QuietTo

(* Put off to the end of the window, the next day from its first hour on.  *)
AfterQuietHours(at) ==
  IF ~InQuietHours(at) THEN at
  ELSE 24 * (DayOf(at) + (IF HourOf(at) >= QuietFrom THEN 1 ELSE 0)) + QuietTo

(* A permit that is still to clear.                                        *)
PermitDue(s) ==
  IF s.prefs.permitReady /\ s.office.permit # NoPermit /\ s.office.permit.readyAt > now
  THEN {[key |-> PermitKey(s.office.permit.tier), at |-> AfterQuietHours(s.office.permit.readyAt)]}
  ELSE {}

ShiftDue(s) ==
  IF s.prefs.shiftReady /\ s.office.alive
  THEN {[key |-> ShiftKey(s.office.recruit, DayOf(now)), at |-> AfterQuietHours(now + ShiftHours)]}
  ELSE {}

(* cancelAll: the keys of this snapshot given back, the slots cleared; the *)
(* rest of the sync waits for the plugin.  A refresh replaces the snapshot *)
(* at once, and the sync goes on with its own.                             *)
Sync ==
  /\ Len(syncs) < MaxSyncs
  /\ budget' = LET b == IF office.permit # NoPermit
                        THEN Refund(Read, PermitKey(office.permit.tier)) ELSE Read
               IN  Refund(b, ShiftKey(office.recruit, DayOf(now)))
  /\ schedule' = [permit |-> None, shift |-> None]
  /\ syncs' = Append(syncs, [office |-> office, prefs |-> prefs])
  /\ UNCHANGED <<now, office, prefs, permission, delivered>>

(* What is due, as far as the budget allows, the permit first.             *)
Derived(s) ==
  LET permits == {n \in PermitDue(s) : CanSend(Read, n.key)}
      b       == IF permits = {} THEN Read ELSE Spend(Read, (CHOOSE n \in permits : TRUE).key)
      shifts  == {n \in ShiftDue(s) : CanSend(b, n.key)}
  IN  [permits |-> permits, shifts |-> shifts,
       budget |-> IF shifts = {} THEN b ELSE Spend(b, (CHOOSE n \in shifts : TRUE).key)]

(* The rest, once the plugin has answered; an officer asked for the        *)
(* permission answers for good.                                            *)
Derive ==
  /\ syncs # <<>>
  /\ syncs' = Tail(syncs)
  /\ \E answer \in IF permission = "prompt" /\ Head(syncs).prefs.enabled
                    THEN {"granted", "denied"} ELSE {permission} :
       /\ permission' = answer
       /\ IF Head(syncs).prefs.enabled /\ answer = "granted"
          THEN LET d == Derived(Head(syncs))
                   Slot(due, old) == IF due = {} THEN old ELSE CHOOSE n \in due : TRUE
               IN  /\ budget' = d.budget
                   /\ schedule' = [permit |-> Slot(d.permits, schedule.permit),
                                   shift  |-> Slot(d.shifts, schedule.shift)]
          ELSE UNCHANGED <<budget, schedule>>
  /\ UNCHANGED <<now, office, prefs, delivered>>

(* A settings toggle, seen by the next sync.                               *)
Toggle(kind) ==
  /\ prefs' = [prefs EXCEPT ![kind] = ~@]
  /\ UNCHANGED <<now, office, permission, budget, schedule, syncs, delivered>>

(* The app is closed: what its syncs had left to do is lost.               *)
Close ==
  /\ syncs # <<>>
  /\ syncs' = <<>>
  /\ UNCHANGED <<now, office, prefs, permission, budget, schedule, delivered>>

-----------------------------------------------------------------------------
(* The office, as snapshots show it, and the phone *)

(* For the tier above the one held.                                        *)
ApplyForPermit(wait) ==
  /\ office.alive /\ office.permit = NoPermit /\ office.held < MaxTier
  /\ office' = [office EXCEPT !.permit = [tier |-> office.held + 1, readyAt |-> now + wait]]
  /\ UNCHANGED <<now, prefs, permission, budget, schedule, syncs, delivered>>

(* The recruit dies, with its application; its successor is another, with  *)
(* the permit of the deceased or less.                                     *)
Die ==
  /\ office.alive
  /\ office' = [office EXCEPT !.alive = FALSE, !.permit = NoPermit]
  /\ UNCHANGED <<now, prefs, permission, budget, schedule, syncs, delivered>>

Claim ==
  /\ ~office.alive /\ office.recruit < MaxRecruits
  /\ \E held \in 1..office.held :
       office' = [office EXCEPT !.alive = TRUE, !.recruit = @ + 1, !.held = held]
  /\ UNCHANGED <<now, prefs, permission, budget, schedule, syncs, delivered>>

(* An hour: permits clear, and the system delivers what is due.            *)
Hour ==
  /\ now < MaxHours
  /\ now' = now + 1
  /\ office' = IF office.permit # NoPermit /\ office.permit.readyAt <= now'
               THEN [office EXCEPT !.permit = NoPermit, !.held = office.permit.tier] ELSE office
  /\ LET due(slot) == schedule[slot] # None /\ schedule[slot].at = now'
     IN  /\ delivered' = delivered \cup {schedule[slot] : slot \in {x \in DOMAIN schedule : due(x)}}
         /\ schedule' = [slot \in DOMAIN schedule |-> IF due(slot) THEN None ELSE schedule[slot]]
  /\ UNCHANGED <<prefs, permission, budget, syncs>>

Init ==
  /\ now = QuietTo
  /\ office = [permit |-> NoPermit, held |-> 1, recruit |-> 1, alive |-> TRUE]
  /\ prefs = [enabled |-> TRUE, permitReady |-> TRUE, shiftReady |-> TRUE]
  /\ permission = "prompt"
  /\ budget = [day |-> 0, count |-> 0, sent |-> {}]
  /\ schedule = [permit |-> None, shift |-> None]
  /\ syncs = <<>>
  /\ delivered = {}

Next ==
  \/ Sync \/ Derive \/ Close \/ Hour \/ Die \/ Claim
  \/ \E kind \in DOMAIN prefs : Toggle(kind)
  \/ \E wait \in Waits : ApplyForPermit(wait)

Spec == Init /\ [][Next]_vars

-----------------------------------------------------------------------------
(* Properties *)

(* sendBudget.ts:10 and its first test: the same event is never delivered  *)
(* twice; of shifts, one a recruit a day (notifications.ts:143).           *)
NeverDeliveredTwice ==
  \A n, o \in delivered : n.key = o.key => n.at = o.at
=============================================================================
