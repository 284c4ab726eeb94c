------------------------------ MODULE WebPush -------------------------------
(***************************************************************************)
(* Reminders of planned payments over Web Push: the subscriptions the      *)
(* browsers register (service/push.go, push_subscriptions.go), the sweep   *)
(* of the reminder job with its durable markers (jobs/pushremind), and the *)
(* push service that delivers, refuses or has forgotten an endpoint.       *)
(*                                                                         *)
(* Time is counted in units of which DayLength make a day; a zone is its   *)
(* offset from UTC in these units.                                         *)
(***************************************************************************)
EXTENDS Integers

CONSTANTS
  User, Household, Plan,
  Endpoint,       \* a browser's push endpoint
  NoUser,         \* nobody; an endpoint without a subscription
  Zone,           \* the time zones of the devices
  DayLength, ReminderHour,  \* the day, and the reminder's hour in it
  Lookback,       \* the scan window
  KeepDays,       \* how long markers are kept (staleMarkerCutoff)
  Days,           \* the dates plans are due
  MaxTime, MaxEdits, MaxFaults  \* bounds on the clock, on edits, on failures

ASSUME TimeAssumption ==
  /\ DayLength \in Nat \ {0} /\ ReminderHour \in 0..(DayLength - 1)
  /\ Lookback \in Nat /\ KeepDays \in Nat /\ Days \subseteq Nat
  /\ MaxTime \in Nat /\ Zone \subseteq Int
\* A marker outlives the window of its reminder.
ASSUME RetentionAssumption ==
  \A z \in Zone : ReminderHour - z + Lookback <= (KeepDays + 1) * DayLength
ASSUME NoUserAssumption == NoUser \notin User

VARIABLES
  now,     \* the server's clock
  home,    \* household_members: the household of each user
  who,     \* the user signed in on the browser of an endpoint
  sub,     \* push_subscriptions
  plan,    \* planned_payments
  marks,   \* push_reminders_sent
  sweep,   \* the sweep that runs
  told,    \* history: how often each was pushed to the subscription there is
  edits, faults  \* history: how many of these have happened

users == <<home, who>>
bounds == <<edits, faults>>
vars == <<now, home, who, sub, plan, marks, sweep, told, edits, faults>>

\* What is to be sent once: a plan's occurrence to a subscription.
Reminder == [plan : Plan, due : Days, to : Endpoint]

Subscription == [user : User \cup {NoUser}, zone : Zone]

PlanRow ==
  [home : Household, due : Days, live : BOOLEAN,
   reminder : {"off", "day_before", "on_day"}]

\* A sweep: when it began, what it is still to send, what was delivered and is
\* not recorded yet, and the endpoints whose row is gone since: it goes by the
\* row's id, and has nothing to do with a row the endpoint gets later.
Sweep ==
  [running : BOOLEAN, at : Nat, todo : SUBSET Reminder, sent : SUBSET Reminder,
   gone : SUBSET Endpoint]

Resting == [running |-> FALSE, at |-> 0, todo |-> {}, sent |-> {}, gone |-> {}]

Init ==
  /\ now = 0
  /\ home \in [User -> Household]
  /\ who = [e \in Endpoint |-> NoUser]
  /\ \E z \in [Endpoint -> Zone] :
       sub = [e \in Endpoint |-> [user |-> NoUser, zone |-> z[e]]]
  /\ plan \in [Plan -> [home : Household, due : Days, live : {TRUE},
                        reminder : {"day_before", "on_day"}]]
  /\ marks = {}
  /\ sweep = Resting
  /\ told = [k \in Reminder |-> 0]
  /\ edits = 0 /\ faults = 0

Edit == edits < MaxEdits /\ edits' = edits + 1 /\ UNCHANGED faults
Fault == faults < MaxFaults /\ faults' = faults + 1 /\ UNCHANGED edits

Today(n) == n \div DayLength

\* ReminderInstant: ten o'clock of the subscriber, on the occurrence's date or
\* the day before it.
ReminderInstant(p, e) ==
  (IF plan[p].reminder = "day_before" THEN plan[p].due - 1 ELSE plan[p].due)
    * DayLength + ReminderHour - sub[e].zone

KeyOf(p, e) == [plan |-> p, due |-> plan[p].due, to |-> e]

-----------------------------------------------------------------------------
(* Users, their browsers and their plans.                                  *)

SignIn(e, u) ==
  /\ Edit
  /\ who[e] # u
  /\ who' = [who EXCEPT ![e] = u]
  /\ UNCHANGED <<now, home, sub, plan, marks, sweep, told>>

\* enable() of the web app and UpsertPushSubscription: a row of its own for a
\* new endpoint; for a known one, keys and zone are refreshed, the user is not.
Enable(e, z) ==
  /\ Edit
  /\ who[e] # NoUser
  /\ sub' = [sub EXCEPT ![e].zone = z,
                        ![e].user = IF @ = NoUser THEN who[e] ELSE @]
  /\ UNCHANGED <<now, home, who, plan, marks, sweep, told>>

\* Rows of a subscription that goes take its markers with them (the foreign
\* key of push_reminders_sent cascades).
Unsubscribed(e) ==
  /\ sub' = [sub EXCEPT ![e].user = NoUser]
  /\ marks' = {k \in marks : k.to # e}
  /\ told' = [k \in Reminder |-> IF k.to = e THEN 0 ELSE told[k]]

\* DeletePushSubscription, by its owner.
Unsubscribe(e) ==
  /\ Edit
  /\ sub[e].user # NoUser /\ sub[e].user = who[e]
  /\ Unsubscribed(e)
  /\ sweep' = [sweep EXCEPT !.gone = @ \cup {e}]
  /\ UNCHANGED <<now, home, who, plan>>

\* A member moves to another household (joining, leaving, being removed).
Move(u, h) ==
  /\ Edit
  /\ home[u] # h
  /\ home' = [home EXCEPT ![u] = h]
  /\ UNCHANGED <<now, who, sub, plan, marks, sweep, told>>

\* The plan's next date is written, confirmed past or executed past.
Redate(p, d) ==
  /\ Edit
  /\ plan[p].live /\ plan[p].due # d
  /\ plan' = [plan EXCEPT ![p].due = d]
  /\ UNCHANGED <<now, users, sub, marks, sweep, told>>

\* The plan is deleted: a tombstone, its markers stay.
Delete(p) ==
  /\ Edit
  /\ plan[p].live
  /\ plan' = [plan EXCEPT ![p].live = FALSE]
  /\ UNCHANGED <<now, users, sub, marks, sweep, told>>

-----------------------------------------------------------------------------
(* The sweep (runOnce).                                                    *)

\* Mutant: what was sent is not looked up.
UnsentMutant(p, e) == TRUE

Unsent(p, e) == KeyOf(p, e) \notin marks

\* Mutant: every plan not due yet is taken for handled.
NotHandledMutant(p) == plan[p].due <= Today(now)

\* Mutant: nothing is taken for handled.
NothingHandledMutant(p) == TRUE

\* An on_day occurrence after today has been handled early.
NotHandled(p) == ~ (plan[p].reminder = "on_day" /\ plan[p].due > Today(now))

\* DuePushReminderCandidates.
Candidate(p, e) ==
  /\ plan[p].live /\ plan[p].reminder # "off"
  /\ sub[e].user # NoUser /\ home[sub[e].user] = plan[p].home
  /\ NotHandled(p)
  /\ Unsent(p, e)

InWindow(t) == now - Lookback < t /\ t <= now

\* The candidates are read and the window is that of the sweep's start.
Begin ==
  /\ ~ sweep.running
  /\ sweep' = [running |-> TRUE, at |-> now, sent |-> {}, gone |-> {},
               todo |-> {k \in Reminder : \E p \in Plan, e \in Endpoint :
                           /\ k = KeyOf(p, e) /\ Candidate(p, e)
                           /\ InWindow(ReminderInstant(p, e))}]
  /\ UNCHANGED <<now, users, sub, plan, marks, told, bounds>>

\* The subscription's browser gets the message, if its row is still there.
Pushed(k) == IF k.to \in sweep.gone THEN told ELSE [told EXCEPT ![k] = @ + 1]

\* The push service takes the message.
Deliver(k) ==
  /\ sweep.running /\ sweep.sent = {} /\ k \in sweep.todo
  /\ sweep' = [sweep EXCEPT !.todo = @ \ {k}, !.sent = {k}]
  /\ told' = Pushed(k)
  /\ UNCHANGED <<now, users, sub, plan, marks, bounds>>

\* The call fails - before or after the message was taken - and the next sweep
\* tries again; or the endpoint is gone and the subscription is pruned, if its
\* row is still there.
Fail(k) ==
  /\ Fault
  /\ sweep.running /\ sweep.sent = {} /\ k \in sweep.todo
  /\ \/ /\ told' \in {told, Pushed(k)}
        /\ sweep' = [sweep EXCEPT !.todo = @ \ {k}]
        /\ UNCHANGED <<sub, marks>>
     \/ /\ k.to \notin sweep.gone
        /\ Unsubscribed(k.to)
        /\ sweep' = [sweep EXCEPT !.todo = @ \ {k}, !.gone = @ \cup {k.to}]
  /\ UNCHANGED <<now, users, plan>>

\* MarkPushReminderSent; without the row that was read the insert fails.
Mark(k) ==
  /\ k \in sweep.sent
  /\ sweep' = [sweep EXCEPT !.sent = {}]
  /\ marks' = IF k.to \in sweep.gone THEN marks ELSE marks \cup {k}
  /\ UNCHANGED <<now, users, sub, plan, told, bounds>>

\* The server stops, or the marker cannot be written.
Stop ==
  /\ Fault
  /\ sweep.running
  /\ sweep' \in {Resting, [sweep EXCEPT !.sent = {}]}
  /\ UNCHANGED <<now, users, sub, plan, marks, told>>

\* Markers of occurrences KeepDays past.
Stale(k) == k.due < Today(sweep.at) - KeepDays

\* The end of a sweep: PrunePushRemindersSent.
End ==
  /\ sweep.running /\ sweep.todo = {} /\ sweep.sent = {}
  /\ marks' = {k \in marks : ~ Stale(k)}
  /\ sweep' = Resting
  /\ UNCHANGED <<now, users, sub, plan, told, bounds>>

Tick ==
  /\ now < MaxTime
  /\ now' = now + 1
  /\ UNCHANGED <<users, sub, plan, marks, sweep, told, bounds>>

Next ==
  \/ \E e \in Endpoint :
       \/ \E u \in User : SignIn(e, u)
       \/ \E z \in Zone : Enable(e, z)
       \/ Unsubscribe(e)
  \/ \E u \in User, h \in Household : Move(u, h)
  \/ \E p \in Plan : Delete(p) \/ \E d \in Days : Redate(p, d)
  \/ \E k \in Reminder : Deliver(k) \/ Fail(k) \/ Mark(k)
  \/ Begin \/ Stop \/ End
  \/ Tick

Spec == Init /\ [][Next]_vars

-----------------------------------------------------------------------------
(* Properties.                                                             *)

\* The state has its type, and a marker, and what a sweep has before it,
\* belongs to a subscription.
TypeOK ==
  /\ now \in Nat
  /\ home \in [User -> Household]
  /\ who \in [Endpoint -> User \cup {NoUser}]
  /\ sub \in [Endpoint -> Subscription]
  /\ plan \in [Plan -> PlanRow]
  /\ marks \subseteq Reminder
  /\ \A k \in marks : sub[k.to].user # NoUser
  /\ sweep \in Sweep
  /\ \A k \in sweep.todo \cup sweep.sent :
       k.to \in sweep.gone \/ sub[k.to].user # NoUser
  /\ told \in [Reminder -> Nat]
  /\ edits \in Nat /\ faults \in Nat

\* However often the job restarts and sweeps again, and however the plan is
\* moved meanwhile, a reminder is pushed to a subscription once, and once more
\* for a failure at most: each repetition goes with a stop, a marker that was not
\* written or an answer that was lost (pushremind.go: a marker is durable).
RepeatedByFailure == \A k \in Reminder : told[k] <= 1 + faults

\* The sweep that begins takes up the reminder of plan p for e, if it is live,
\* its subscriber's clock shows the hour, and it was not recorded.
TakesUp(p, e) ==
  /\ ~ sweep.running /\ sweep'.running
  /\ plan[p].live /\ plan[p].reminder # "off"
  /\ sub[e].user # NoUser /\ home[sub[e].user] = plan[p].home
  /\ InWindow(ReminderInstant(p, e))
  /\ KeyOf(p, e) \notin marks
  => KeyOf(p, e) \in sweep'.todo

\* No sweep passes over a reminder in its window, except one of the day itself
\* whose subscriber lives further east of UTC than the reminder's hour: there
\* the hour strikes on a day that has not begun in UTC (push.sql takes such an
\* occurrence for handled; openspec web-push, Reminder dispatch timing, makes
\* no exception).
EverySweepReminds ==
  [][\A p \in Plan, e \in Endpoint :
       (plan[p].reminder = "on_day" => sub[e].zone <= ReminderHour)
         => TakesUp(p, e)]_vars

\* What the specification says, and is not so: no sweep passes over a reminder
\* in its window (openspec web-push, Reminder dispatch timing).
EveryZoneReminded == [][\A p \in Plan, e \in Endpoint : TakesUp(p, e)]_vars

\* What happens instead: where the whole window lies before UTC's midnight, no
\* sweep ever takes up a reminder of the day itself.
FarEastUnreminded ==
  [][\A p \in Plan, e \in Endpoint :
       /\ ~ sweep.running /\ sweep'.running
       /\ plan[p].reminder = "on_day" /\ sub[e].zone >= ReminderHour + Lookback
       => KeyOf(p, e) \notin sweep'.todo]_vars
=============================================================================
