---------------------------- MODULE WebPushProofs ----------------------------
(***************************************************************************)
(* A reminder is sent again only after a failure, for every number of      *)
(* users, browsers and plans, every set of time zones and every retention  *)
(* of markers that is longer than a reminder's window; and which zones a   *)
(* sweep passes over.                                                      *)
(***************************************************************************)
EXTENDS WebPush, TLAPS

\* The occurrence's window is behind, and stays behind.
Over(k) == (k.due + KeepDays + 1) * DayLength <= now

\* A reminder that was sent as often as there were failures, and once more, is
\* marked, or its window is over, or it waits for its marker; what a sweep has
\* before it was sent less often.
Accounted ==
  /\ \A k \in Reminder :
       /\ told[k] <= 1 + faults
       /\ told[k] = 1 + faults =>
            k \in marks \/ Over(k) \/ (k \in sweep.sent /\ k.to \notin sweep.gone)
  /\ \A k \in sweep.todo : told[k] <= faults
  /\ sweep.sent # {} => sweep.running /\ \E k \in Reminder : sweep.sent = {k}
  /\ sweep.running => sweep.at <= now

-----------------------------------------------------------------------------
(* Time.                                                                   *)

LEMMA KeyFields ==
  ASSUME NEW k \in Reminder
  PROVE  k.due \in Nat /\ k.to \in Endpoint
BY TimeAssumption DEF Reminder

\* A marker that is pruned belongs to an occurrence that is over.
LEMMA StaleIsOver ==
  ASSUME TypeOK, Accounted, sweep.running, NEW k \in Reminder, Stale(k)
  PROVE  Over(k)
<1>1. k.due \in Nat /\ sweep.at \in Nat /\ now \in Nat /\ sweep.at <= now
      /\ DayLength \in Nat \ {0} /\ KeepDays \in Nat
  BY KeyFields, TimeAssumption DEF TypeOK, Sweep, Accounted
<1> DEFINE q == sweep.at \div DayLength
<1>2. q \in Int /\ q * DayLength <= sweep.at
  BY <1>1
<1>3. k.due + KeepDays + 1 <= q
  BY <1>1, <1>2 DEF Stale, Today
<1> HIDE DEF q
<1>4. (k.due + KeepDays + 1) * DayLength <= q * DayLength
  BY <1>1, <1>2, <1>3
<1> QED BY <1>1, <1>2, <1>4 DEF Over

\* A reminder in its window is not of an occurrence that is over.
LEMMA InWindowNotOver ==
  ASSUME TypeOK, NEW p \in Plan, NEW e \in Endpoint,
         InWindow(ReminderInstant(p, e))
  PROVE  ~ Over(KeyOf(p, e))
<1> DEFINE z == sub[e].zone
           D == plan[p].due
           i == ReminderInstant(p, e)
<1>1. /\ z \in Zone /\ z \in Int /\ D \in Nat /\ now \in Nat
      /\ DayLength \in Nat \ {0} /\ KeepDays \in Nat /\ ReminderHour \in Nat
      /\ Lookback \in Nat
  <2>1. sub[e] \in Subscription /\ plan[p] \in PlanRow /\ now \in Nat
    BY DEF TypeOK
  <2>2. z \in Zone /\ D \in Days
    BY <2>1 DEF Subscription, PlanRow
  <2>3. Zone \subseteq Int /\ Days \subseteq Nat /\ ReminderHour \in Nat
    BY TimeAssumption
  <2> QED BY <2>1, <2>2, <2>3, TimeAssumption
<1>2. ReminderHour - z + Lookback <= (KeepDays + 1) * DayLength
  BY <1>1, RetentionAssumption
<1>3. (D - 1) * DayLength <= D * DayLength
  BY <1>1
<1>4. i \in Int /\ i <= D * DayLength + ReminderHour - z
  BY <1>1, <1>3 DEF ReminderInstant
<1>5. now < D * DayLength + (KeepDays + 1) * DayLength
  <2> HIDE DEF i, z, D
  <2> QED BY <1>1, <1>2, <1>4 DEF InWindow, i
<1>6. D * DayLength + (KeepDays + 1) * DayLength = (D + KeepDays + 1) * DayLength
  BY <1>1
<1>7. KeyOf(p, e).due = D
  BY DEF KeyOf
<1>8. (D + KeepDays + 1) * DayLength \in Int
  BY <1>1
<1> QED BY <1>1, <1>5, <1>6, <1>7, <1>8 DEF Over
-----------------------------------------------------------------------------
(* Type correctness.                                                       *)

\* Every variable keeps its type, and a marker belongs to a subscription: the
\* rows go together.
THEOREM Typed == Spec => []TypeOK
<1>1. Init => TypeOK
  <2> SUFFICES ASSUME Init PROVE TypeOK
    OBVIOUS
  <2>1. who \in [Endpoint -> User \cup {NoUser}]
    BY DEF Init
  <2>2. sub \in [Endpoint -> Subscription]
    BY DEF Init, Subscription
  <2>3. plan \in [Plan -> PlanRow]
    <3>1. [home : Household, due : Days, live : {TRUE},
           reminder : {"day_before", "on_day"}] \subseteq PlanRow
      BY DEF PlanRow
    <3> QED BY <3>1 DEF Init
  <2>4. sweep \in Sweep /\ sweep.todo = {} /\ sweep.sent = {}
    BY DEF Init, Resting, Sweep
  <2> QED BY <2>1, <2>2, <2>3, <2>4 DEF Init, TypeOK
<1>2. TypeOK /\ [Next]_vars => TypeOK'
  <2> SUFFICES ASSUME TypeOK, [Next]_vars PROVE TypeOK'
    OBVIOUS
  <2>1. ASSUME NEW e \in Endpoint, NEW u \in User, SignIn(e, u) PROVE TypeOK'
    BY <2>1 DEF TypeOK, SignIn, Edit
  <2> sweep.todo \subseteq Reminder /\ sweep.sent \subseteq Reminder
      /\ sweep.gone \subseteq Endpoint
    BY DEF TypeOK, Sweep
  <2>2. ASSUME NEW e \in Endpoint, NEW z \in Zone, Enable(e, z) PROVE TypeOK'
    <3>1. /\ sub' \in [Endpoint -> Subscription]
          /\ \A f \in Endpoint : sub[f].user # NoUser => sub'[f].user # NoUser
      BY <2>2 DEF TypeOK, Enable, Subscription
    <3>2. \A k \in marks \cup sweep.todo \cup sweep.sent : k.to \in Endpoint
      BY KeyFields DEF TypeOK
    <3> QED BY <2>2, <3>1, <3>2 DEF TypeOK, Enable, Edit
  <2>3. ASSUME NEW e \in Endpoint, Unsubscribed(e),
               sweep' \in Sweep, UNCHANGED <<now, home, who, plan>>,
               sweep'.todo \subseteq sweep.todo, sweep'.sent \subseteq sweep.sent,
               sweep'.gone = sweep.gone \cup {e},
               edits' \in Nat, faults' \in Nat
        PROVE  TypeOK'
    <3>1. /\ sub' \in [Endpoint -> Subscription]
          /\ \A f \in Endpoint \ {e} : sub'[f] = sub[f]
      BY <2>3 DEF TypeOK, Unsubscribed, Subscription
    <3>2. \A k \in marks' : k \in marks /\ k.to \in Endpoint \ {e}
      BY <2>3, KeyFields DEF TypeOK, Unsubscribed
    <3>3. told' \in [Reminder -> Nat]
      BY <2>3 DEF TypeOK, Unsubscribed
    <3>4. ASSUME NEW k \in sweep'.todo \cup sweep'.sent
          PROVE  k.to \in sweep'.gone \/ sub'[k.to].user # NoUser
      <4>1. /\ k.to \in Endpoint
            /\ k.to \in sweep.gone \/ sub[k.to].user # NoUser
            /\ sweep'.gone = sweep.gone \cup {e}
        BY <2>3, <3>4, KeyFields DEF TypeOK
      <4> QED BY <3>1, <4>1
    <3> QED BY <2>3, <3>1, <3>2, <3>3, <3>4 DEF TypeOK
  <2>4. ASSUME NEW u \in User, NEW h \in Household, Move(u, h) PROVE TypeOK'
    BY <2>4 DEF TypeOK, Move, Edit
  <2>5. ASSUME NEW p \in Plan, Delete(p) PROVE TypeOK'
    <3>1. plan' \in [Plan -> PlanRow]
      BY <2>5 DEF TypeOK, Delete, PlanRow
    <3> QED BY <2>5, <3>1 DEF TypeOK, Delete, Edit, users
  <2>6. ASSUME NEW p \in Plan, NEW d \in Days, Redate(p, d) PROVE TypeOK'
    <3>1. plan' \in [Plan -> PlanRow]
      BY <2>6 DEF TypeOK, Redate, PlanRow
    <3> QED BY <2>6, <3>1 DEF TypeOK, Redate, Edit, users
  <2>7. ASSUME NEW k \in Reminder, Deliver(k) PROVE TypeOK'
    <3>1. /\ sweep' \in Sweep /\ sweep'.gone = sweep.gone
          /\ sweep'.todo \cup sweep'.sent \subseteq sweep.todo
      BY <2>7 DEF TypeOK, Deliver, Sweep
    <3>2. told' \in [Reminder -> Nat]
      BY <2>7 DEF TypeOK, Deliver, Pushed
    <3> QED BY <2>7, <3>1, <3>2 DEF TypeOK, Deliver, users, bounds
  <2>8. ASSUME NEW k \in Reminder, Fail(k) PROVE TypeOK'
    <3>1. /\ edits' \in Nat /\ faults' \in Nat
          /\ UNCHANGED <<now, home, who, plan>>
      BY <2>8 DEF TypeOK, Fail, Fault, users
    <3>2. ASSUME Unsubscribed(k.to),
                 sweep' = [sweep EXCEPT !.todo = @ \ {k}, !.gone = @ \cup {k.to}]
          PROVE  TypeOK'
      <4>1. k.to \in Endpoint
        BY KeyFields
      <4>2. /\ sweep' \in Sweep /\ sweep'.gone = sweep.gone \cup {k.to}
            /\ sweep'.todo \subseteq sweep.todo /\ sweep'.sent \subseteq sweep.sent
        BY <3>2, <4>1 DEF TypeOK, Sweep
      <4> QED BY <2>3, <3>1, <3>2, <4>2, KeyFields
    <3>3. ASSUME told' \in {told, Pushed(k)}, sweep' = [sweep EXCEPT !.todo = @ \ {k}],
                 UNCHANGED <<sub, marks>>
          PROVE  TypeOK'
      <4>1. told' \in [Reminder -> Nat]
        BY <3>3 DEF TypeOK, Pushed
      <4>2. /\ sweep' \in Sweep /\ sweep'.gone = sweep.gone
            /\ sweep'.todo \subseteq sweep.todo /\ sweep'.sent = sweep.sent
        BY <3>3 DEF TypeOK, Sweep
      <4> QED BY <3>1, <3>3, <4>1, <4>2 DEF TypeOK
    <3> QED BY <2>8, <3>2, <3>3 DEF Fail
  <2>9. ASSUME NEW k \in Reminder, Mark(k) PROVE TypeOK'
    <3>1. /\ sweep' \in Sweep /\ sweep'.gone = sweep.gone
          /\ sweep'.todo = sweep.todo /\ sweep'.sent = {}
      BY <2>9 DEF TypeOK, Mark, Sweep
    <3>2. marks' \subseteq Reminder /\ \A m \in marks' : sub[m.to].user # NoUser
      BY <2>9 DEF TypeOK, Mark
    <3> QED BY <2>9, <3>1, <3>2 DEF TypeOK, Mark, users, bounds
  <2>10. CASE Begin
    <3>1. sweep' \in Sweep /\ sweep'.sent = {}
      BY <2>10 DEF TypeOK, Begin, Sweep
    <3>2. ASSUME NEW k \in sweep'.todo PROVE sub[k.to].user # NoUser
      <4>1. PICK p \in Plan, e \in Endpoint : k = KeyOf(p, e) /\ Candidate(p, e)
        BY <2>10, <3>2 DEF Begin
      <4> QED BY <4>1 DEF KeyOf, Candidate
    <3> QED BY <2>10, <3>1, <3>2 DEF TypeOK, Begin, users, bounds
  <2>11. CASE Stop
    <3>1. Resting \in Sweep /\ [sweep EXCEPT !.sent = {}] \in Sweep
      BY DEF TypeOK, Sweep, Resting
    <3>2. sweep' \in Sweep
      BY <2>11, <3>1 DEF Stop
    <3>3. /\ sweep'.sent = {} /\ sweep'.todo \subseteq sweep.todo
          /\ sweep'.todo = {} \/ sweep'.gone = sweep.gone
      BY <2>11 DEF Stop, Resting, TypeOK, Sweep
    <3> QED BY <2>11, <3>2, <3>3 DEF TypeOK, Stop, users, Fault
  <2>12. CASE End
    <3>1. sweep' \in Sweep /\ sweep'.todo = {} /\ sweep'.sent = {}
      BY <2>12 DEF End, Sweep, Resting
    <3> QED BY <2>12, <3>1 DEF TypeOK, End, users, bounds
  <2>13. CASE Tick
    BY <2>13 DEF TypeOK, Tick, users, bounds
  <2>14. CASE UNCHANGED vars
    BY <2>14 DEF TypeOK, vars
  <2>15. ASSUME NEW e \in Endpoint, Unsubscribe(e) PROVE TypeOK'
    <3>1. /\ edits' \in Nat /\ faults' \in Nat /\ sweep' \in Sweep
          /\ sweep'.todo = sweep.todo /\ sweep'.sent = sweep.sent /\ sweep'.gone = sweep.gone \cup {e}
      BY <2>15 DEF TypeOK, Unsubscribe, Edit, Sweep
    <3> QED BY <2>3, <2>15, <3>1 DEF Unsubscribe
  <2> QED BY <2>1, <2>2, <2>4, <2>5, <2>6, <2>7, <2>8, <2>9, <2>10, <2>11,
             <2>12, <2>13, <2>14, <2>15 DEF Next
<1> QED BY <1>1, <1>2, PTL DEF Spec
-----------------------------------------------------------------------------
(* RepeatedByFailure.                                                      *)

\* Time only moves on: an occurrence that is over stays over.
LEMMA OverStays ==
  ASSUME TypeOK, now' \in Nat, now <= now', NEW k \in Reminder, Over(k)
  PROVE  Over(k)'
<1>1. (k.due + KeepDays + 1) * DayLength \in Int
  BY KeyFields, TimeAssumption
<1> QED BY <1>1 DEF Over, TypeOK

\* A step that lets go of part of what the sweep had before it, and keeps the
\* rest of the sweep and the accounts.
LEMMA Unrelated ==
  ASSUME TypeOK, Accounted, UNCHANGED <<marks, told, faults>>,
         now' \in Nat, now <= now',
         sweep'.todo \subseteq sweep.todo, sweep'.sent = sweep.sent,
         sweep'.gone = sweep.gone, sweep'.at = sweep.at,
         sweep'.running = sweep.running
  PROVE  Accounted'
<1>1. \A k \in Reminder : Over(k) => Over(k)'
  BY OverStays
<1>2. sweep.running => sweep.at \in Nat /\ now \in Nat
  BY DEF TypeOK, Sweep
<1> QED BY <1>1, <1>2 DEF Accounted

\* One more failure allows one more push.
LEMMA MoreAllowed ==
  ASSUME NEW a \in Nat, NEW b \in Nat, a <= b, NEW c \in Nat, c <= 1 + a
  PROVE  c <= 1 + b /\ (c = 1 + b => c = 1 + a)
OBVIOUS

\* A subscription goes: its reminders have not been sent to the next one.
LEMMA Forgetting ==
  ASSUME TypeOK, Accounted, NEW e \in Endpoint, Unsubscribed(e), UNCHANGED now,
         faults' \in Nat, faults <= faults',
         sweep'.todo \subseteq sweep.todo, sweep'.sent = sweep.sent,
         sweep'.gone = sweep.gone \cup {e}, sweep'.at = sweep.at,
         sweep'.running = sweep.running
  PROVE  Accounted'
<1>1. /\ sweep.todo \subseteq Reminder
      /\ told \in [Reminder -> Nat] /\ faults \in Nat
  BY DEF TypeOK, Sweep
<1>2. \A k \in Reminder : told'[k] = IF k.to = e THEN 0 ELSE told[k]
  BY DEF Unsubscribed
<1>3. \A k \in Reminder : k.to # e => (k \in marks <=> k \in marks')
  BY DEF Unsubscribed
<1>4. \A k \in Reminder : Over(k)' = Over(k)
  BY DEF Over
<1>5. ASSUME NEW k \in Reminder
      PROVE  /\ told'[k] <= 1 + faults'
             /\ told'[k] = 1 + faults' =>
                  k \in marks' \/ Over(k)'
                    \/ (k \in sweep'.sent /\ k.to \notin sweep'.gone)
  <2>1. CASE k.to = e
    BY <1>1, <1>2, <2>1
  <2>2. CASE k.to # e
    <3>1. told'[k] = told[k] /\ told[k] \in Nat /\ told[k] <= 1 + faults
      BY <1>1, <1>2, <2>2 DEF Accounted
    <3>2. told'[k] = 1 + faults' => told[k] = 1 + faults
      BY <1>1, <3>1, MoreAllowed
    <3> QED BY <1>1, <1>3, <1>4, <2>2, <3>1, <3>2 DEF Accounted
  <2> QED BY <2>1, <2>2
<1>6. \A k \in sweep'.todo : told'[k] <= faults'
  BY <1>1, <1>2 DEF Accounted
<1> QED BY <1>5, <1>6 DEF Accounted

\* A failure: there is one more to account for.
LEMMA Excused ==
  ASSUME TypeOK, Accounted, UNCHANGED now, faults' = faults + 1,
         \A k \in Reminder : told'[k] \in {told[k], told[k] + 1}
                               /\ (told'[k] = told[k] + 1 => k \in sweep.todo),
         \A k \in sweep'.todo : k \in sweep.todo /\ told'[k] = told[k],
         sweep'.sent = {},
         sweep'.running => sweep.running /\ sweep'.at = sweep.at
  PROVE  Accounted'
<1>1. /\ sweep.todo \subseteq Reminder
      /\ told \in [Reminder -> Nat] /\ faults \in Nat
  BY DEF TypeOK, Sweep
<1>2. ASSUME NEW k \in Reminder PROVE told'[k] \in Nat /\ told'[k] <= faults'
  <2>1. told[k] \in Nat /\ told[k] <= 1 + faults /\ (k \in sweep.todo => told[k] <= faults)
    BY <1>1 DEF Accounted
  <2>2. CASE told'[k] = told[k]
    BY <1>1, <2>1, <2>2
  <2>3. CASE told'[k] = told[k] + 1
    <3>1. told[k] # told[k] + 1
      BY <2>1
    <3>2. told[k] <= faults
      BY <2>1, <2>3, <3>1
    <3> QED BY <1>1, <2>1, <2>3, <3>2
  <2> QED BY <2>2, <2>3
<1>3. \A k \in sweep'.todo : told'[k] <= faults'
  BY <1>1, <1>2
<1>4. \A k \in Reminder : told'[k] <= 1 + faults' /\ told'[k] # 1 + faults'
  BY <1>1, <1>2
<1> QED BY <1>3, <1>4 DEF Accounted

LEMMA AccountedStep ==
  ASSUME TypeOK, TypeOK', Accounted, [Next]_vars
  PROVE  Accounted'
<1> /\ sweep \in Sweep /\ now \in Nat /\ faults \in Nat
    /\ sweep.todo \subseteq Reminder /\ sweep.sent \subseteq Reminder
    /\ told \in [Reminder -> Nat]
  BY DEF TypeOK, Sweep
<1>1. ASSUME UNCHANGED <<marks, told, sweep, now, faults>> PROVE Accounted'
  BY <1>1, Unrelated
<1>2. ASSUME NEW e \in Endpoint, Unsubscribe(e) PROVE Accounted'
  <2>1. /\ sweep'.todo = sweep.todo /\ sweep'.sent = sweep.sent
        /\ sweep'.gone = sweep.gone \cup {e} /\ sweep'.at = sweep.at
        /\ sweep'.running = sweep.running
    BY <1>2 DEF Unsubscribe, Sweep
  <2> QED BY <1>2, <2>1, Forgetting DEF Unsubscribe, Edit
<1>3. CASE Begin
  <2>1. /\ sweep'.at = now /\ sweep'.sent = {} /\ sweep'.todo \subseteq Reminder
        /\ UNCHANGED <<now, marks, told, faults>> /\ ~ sweep.running
    BY <1>3 DEF Begin, bounds
  <2>2. ASSUME NEW k \in sweep'.todo PROVE k \notin marks /\ ~ Over(k)
    <3>1. PICK p \in Plan, e \in Endpoint :
            k = KeyOf(p, e) /\ Candidate(p, e) /\ InWindow(ReminderInstant(p, e))
      BY <1>3, <2>2 DEF Begin
    <3> QED BY <3>1, InWindowNotOver DEF Candidate, Unsent
  <2>3. \A k \in Reminder : Over(k)' = Over(k)
    BY <2>1 DEF Over
  <2>4. sweep.sent = {}
    BY <2>1 DEF Accounted
  <2> QED BY <2>1, <2>2, <2>3, <2>4 DEF Accounted
<1>4. ASSUME NEW k \in Reminder, Deliver(k) PROVE Accounted'
  <2>1. /\ sweep'.todo = sweep.todo \ {k} /\ sweep'.sent = {k} /\ k \in sweep.todo
        /\ sweep.sent = {} /\ sweep'.gone = sweep.gone /\ sweep.running
        /\ sweep'.running = sweep.running /\ sweep'.at = sweep.at
        /\ UNCHANGED <<now, marks, faults>>
    BY <1>4 DEF Deliver, Sweep, bounds
  <2>2. \A m \in Reminder : Over(m)' = Over(m)
    BY <2>1 DEF Over
  <2>3. /\ \A m \in Reminder \ {k} : told'[m] = told[m]
        /\ told'[k] = IF k.to \in sweep.gone THEN told[k] ELSE told[k] + 1
    BY <1>4 DEF Deliver, Pushed
  <2>4. told[k] \in Nat /\ told[k] <= faults
    BY <2>1 DEF Accounted
  <2> QED BY <2>1, <2>2, <2>3, <2>4 DEF Accounted
<1>5. ASSUME NEW k \in Reminder, Fail(k) PROVE Accounted'
  <2>1. UNCHANGED now /\ faults' = faults + 1 /\ k \in sweep.todo
        /\ sweep.sent = {}
    BY <1>5 DEF Fail, Fault
  <2>2. ASSUME Unsubscribed(k.to),
               sweep' = [sweep EXCEPT !.todo = @ \ {k}, !.gone = @ \cup {k.to}]
        PROVE  Accounted'
    <3>1. /\ sweep'.todo \subseteq sweep.todo /\ sweep'.sent = sweep.sent
          /\ sweep'.gone = sweep.gone \cup {k.to} /\ sweep'.at = sweep.at
          /\ sweep'.running = sweep.running
      BY <2>2 DEF Sweep
    <3> QED BY <2>1, <2>2, <3>1, Forgetting, KeyFields
  <2>3. ASSUME told' \in {told, Pushed(k)}, sweep' = [sweep EXCEPT !.todo = @ \ {k}]
        PROVE  Accounted'
    <3>1. /\ sweep'.todo = sweep.todo \ {k} /\ sweep'.at = sweep.at
          /\ sweep'.sent = sweep.sent /\ sweep'.running = sweep.running
      BY <2>3 DEF Sweep
    <3>2. /\ \A m \in Reminder \ {k} : told'[m] = told[m]
          /\ told'[k] \in {told[k], told[k] + 1}
      BY <2>3 DEF Pushed
    <3>3. \A m \in Reminder : told[m] # told[m] + 1
      OBVIOUS
    <3> QED BY <2>1, <3>1, <3>2, <3>3, Excused
  <2> QED BY <1>5, <2>2, <2>3 DEF Fail
<1>6. ASSUME NEW k \in Reminder, Mark(k) PROVE Accounted'
  <2>1. /\ sweep'.todo = sweep.todo /\ sweep'.sent = {} /\ k \in sweep.sent
        /\ sweep'.gone = sweep.gone
        /\ sweep'.running = sweep.running /\ sweep'.at = sweep.at
        /\ UNCHANGED <<now, told, faults>>
    BY <1>6 DEF Mark, Sweep, bounds
  <2>2. \A m \in Reminder : Over(m)' = Over(m)
    BY <2>1 DEF Over
  <2>3. sweep.sent = {k}
    BY <2>1 DEF Accounted
  <2>4. marks \subseteq marks' /\ (k \in marks' \/ k.to \in sweep.gone)
    BY <1>6 DEF Mark
  <2> QED BY <2>1, <2>2, <2>3, <2>4 DEF Accounted
<1>7. CASE Stop
  <2>1. /\ sweep'.todo \subseteq sweep.todo /\ sweep'.sent = {}
        /\ (sweep'.running => sweep.running /\ sweep'.at = sweep.at)
    BY <1>7 DEF Stop, Resting, Sweep
  <2>2. UNCHANGED <<now, told>> /\ faults' = faults + 1
    BY <1>7 DEF Stop, Fault
  <2>3. \A m \in Reminder : told[m] # told[m] + 1
    OBVIOUS
  <2> QED BY <2>1, <2>2, <2>3, Excused
<1>8. CASE End
  <2>1. /\ sweep'.todo = {} /\ sweep'.sent = {} /\ ~ sweep'.running /\ sweep.running
        /\ UNCHANGED <<now, told, faults>> /\ marks' = {k \in marks : ~ Stale(k)}
        /\ sweep.sent = {}
    BY <1>8 DEF End, Resting, bounds
  <2>2. \A k \in Reminder : Over(k)' = Over(k)
    BY <2>1 DEF Over
  <2>3. \A k \in Reminder : k \in marks => k \in marks' \/ Over(k)
    BY <2>1, StaleIsOver
  <2> QED BY <2>1, <2>2, <2>3 DEF Accounted
<1>9. CASE Tick
  BY <1>9, Unrelated DEF Tick, bounds
<1>10. ASSUME NEW e \in Endpoint, NEW u \in User, SignIn(e, u) PROVE Accounted'
  BY <1>1, <1>10 DEF SignIn, Edit
<1>11. ASSUME NEW e \in Endpoint, NEW z \in Zone, Enable(e, z) PROVE Accounted'
  BY <1>1, <1>11 DEF Enable, Edit
<1>12. ASSUME NEW u \in User, NEW h \in Household, Move(u, h) PROVE Accounted'
  BY <1>1, <1>12 DEF Move, Edit
<1>13. ASSUME NEW p \in Plan, Delete(p) PROVE Accounted'
  BY <1>1, <1>13 DEF Delete, Edit
<1>14. ASSUME NEW p \in Plan, NEW d \in Days, Redate(p, d) PROVE Accounted'
  BY <1>1, <1>14 DEF Redate, Edit
<1>15. CASE UNCHANGED vars
  BY <1>1, <1>15 DEF vars
<1> QED BY <1>2, <1>3, <1>4, <1>5, <1>6, <1>7, <1>8, <1>9, <1>10, <1>11, <1>12,
           <1>13, <1>14, <1>15 DEF Next

\* A reminder is pushed to a subscription once, and once more for a failure at
\* most, however often the job restarts and sweeps again, and however the plan
\* is moved meanwhile - for every number of users, browsers and plans.
THEOREM RepeatsNeedFailures == Spec => []RepeatedByFailure
<1>1. Init => Accounted
  <2> SUFFICES ASSUME Init PROVE Accounted
    OBVIOUS
  <2>1. sweep.todo = {} /\ sweep.sent = {} /\ ~ sweep.running /\ faults = 0
    BY DEF Init, Resting
  <2>2. \A k \in Reminder : told[k] = 0
    BY DEF Init
  <2> QED BY <2>1, <2>2 DEF Accounted
<1>2. TypeOK /\ TypeOK' /\ Accounted /\ [Next]_vars => Accounted'
  BY AccountedStep
<1>3. Accounted => RepeatedByFailure
  BY DEF Accounted, RepeatedByFailure
<1> QED BY <1>1, <1>2, <1>3, Typed, PTL DEF Spec
-----------------------------------------------------------------------------
(* The zones a sweep passes over.                                          *)

\* The sweep's `running' changes in Begin only.
LEMMA OnlyBegins ==
  ASSUME TypeOK, Next, ~ sweep.running, sweep'.running
  PROVE  Begin
<1>1. ASSUME UNCHANGED sweep PROVE FALSE
  BY <1>1
<1>2. \A e \in Endpoint : ~ Unsubscribe(e)
  BY DEF Unsubscribe, TypeOK, Sweep
<1>3. (\A e \in Endpoint, u \in User : ~ SignIn(e, u))
      /\ (\A e \in Endpoint, z \in Zone : ~ Enable(e, z))
  BY <1>1 DEF SignIn, Enable
<1>4. \A u \in User, h \in Household : ~ Move(u, h)
  BY <1>1 DEF Move
<1>5. \A p \in Plan : ~ Delete(p) /\ \A d \in Days : ~ Redate(p, d)
  BY <1>1 DEF Delete, Redate
<1>6. \A k \in Reminder : ~ Deliver(k) /\ ~ Fail(k)
  BY DEF Deliver, Fail
<1>7. \A k \in Reminder : ~ Mark(k)
  BY DEF Mark, TypeOK, Sweep
<1>8. ~ Stop /\ ~ End /\ ~ Tick
  BY DEF Stop, End, Tick
<1> QED BY <1>2, <1>3, <1>4, <1>5, <1>6, <1>7, <1>8 DEF Next

\* A reminder in its window is not taken for handled early, unless it is one of
\* the day itself and its subscriber lives further east than the hour.
LEMMA InWindowNotHandled ==
  ASSUME TypeOK, NEW p \in Plan, NEW e \in Endpoint,
         plan[p].reminder = "on_day" => sub[e].zone <= ReminderHour,
         InWindow(ReminderInstant(p, e))
  PROVE  NotHandled(p)
<1> DEFINE z == sub[e].zone
           D == plan[p].due
           q == now \div DayLength
<1>1. /\ sub[e] \in Subscription /\ plan[p] \in PlanRow /\ now \in Nat
      /\ DayLength \in Nat \ {0} /\ ReminderHour \in Nat /\ Lookback \in Nat
  BY TimeAssumption DEF TypeOK
<1>2. z \in Int /\ D \in Nat
  BY <1>1, TimeAssumption DEF Subscription, PlanRow
<1>3. SUFFICES ASSUME plan[p].reminder = "on_day", D > q PROVE FALSE
  BY DEF NotHandled, Today
<1>4. z <= ReminderHour /\ D * DayLength + ReminderHour - z <= now
  BY <1>3 DEF InWindow, ReminderInstant
<1>5. q \in Int /\ now < (q + 1) * DayLength
  BY <1>1
<1> HIDE DEF q, D, z
<1>6. (q + 1) * DayLength <= D * DayLength
  BY <1>1, <1>2, <1>3, <1>5
<1> QED BY <1>1, <1>2, <1>4, <1>5, <1>6

\* No sweep passes over a reminder in its window, except one of the day itself
\* whose subscriber lives further east of UTC than the reminder's hour - for any
\* zones, and whatever happened before.
THEOREM SweepsRemind == Spec => EverySweepReminds
<1> DEFINE Near(p, e) ==
      (plan[p].reminder = "on_day" => sub[e].zone <= ReminderHour) => TakesUp(p, e)
<1>1. ASSUME TypeOK, Next, NEW p \in Plan, NEW e \in Endpoint PROVE Near(p, e)
  <2>1. ~ sweep.running /\ sweep'.running => Begin
    BY <1>1, OnlyBegins
  <2>2. KeyOf(p, e) \in Reminder
    BY <1>1 DEF TypeOK, KeyOf, Reminder, PlanRow
  <2>3. InWindow(ReminderInstant(p, e))
          /\ (plan[p].reminder = "on_day" => sub[e].zone <= ReminderHour)
          => NotHandled(p)
    BY <1>1, InWindowNotHandled
  <2> QED BY <2>1, <2>2, <2>3 DEF Begin, Candidate, Unsent, TakesUp
<1>2. TypeOK /\ [Next]_vars => [\A p \in Plan, e \in Endpoint : Near(p, e)]_vars
  BY <1>1
<1> QED BY <1>2, Typed, PTL DEF Spec, EverySweepReminds

\* Where the window of a reminder of the day itself is over by UTC's midnight, it
\* is taken for handled.
LEMMA FarEastHandled ==
  ASSUME TypeOK, NEW p \in Plan, NEW e \in Endpoint,
         plan[p].reminder = "on_day", sub[e].zone >= ReminderHour + Lookback,
         InWindow(ReminderInstant(p, e))
  PROVE  ~ NotHandled(p)
<1> DEFINE z == sub[e].zone
           D == plan[p].due
           q == now \div DayLength
<1>1. /\ sub[e] \in Subscription /\ plan[p] \in PlanRow /\ now \in Nat
      /\ DayLength \in Nat \ {0} /\ ReminderHour \in Nat /\ Lookback \in Nat
  BY TimeAssumption DEF TypeOK
<1>2. z \in Int /\ z >= ReminderHour + Lookback /\ D \in Nat
  BY <1>1, TimeAssumption DEF Subscription, PlanRow
<1>3. now - Lookback < D * DayLength + ReminderHour - z
  BY DEF InWindow, ReminderInstant
<1>4. q \in Int /\ q * DayLength <= now
  BY <1>1
<1>5. q < D => ~ NotHandled(p)
  BY <1>2, <1>4 DEF NotHandled, Today
<1> HIDE DEF q, D, z
<1>6. D * DayLength \in Int /\ q * DayLength \in Int
  BY <1>1, <1>2, <1>4
<1>7. q * DayLength < D * DayLength
  BY <1>1, <1>2, <1>3, <1>4, <1>6
<1>8. q >= D => q * DayLength >= D * DayLength
  BY <1>1, <1>2, <1>4
<1> QED BY <1>2, <1>4, <1>5, <1>6, <1>7, <1>8

\* A subscriber further east of UTC than the hour and the scan window together is
\* never reminded on the day itself: no sweep takes such a reminder up.
THEOREM FarEastIsPassedOver == Spec => FarEastUnreminded
<1> DEFINE Passed(p, e) ==
      /\ ~ sweep.running /\ sweep'.running
      /\ plan[p].reminder = "on_day" /\ sub[e].zone >= ReminderHour + Lookback
      => KeyOf(p, e) \notin sweep'.todo
<1>1. ASSUME TypeOK, Next, NEW p \in Plan, NEW e \in Endpoint PROVE Passed(p, e)
  <2>1. SUFFICES ASSUME ~ sweep.running, sweep'.running, plan[p].reminder = "on_day",
                        sub[e].zone >= ReminderHour + Lookback,
                        KeyOf(p, e) \in sweep'.todo
                 PROVE  FALSE
    OBVIOUS
  <2>2. PICK r \in Plan, f \in Endpoint :
          /\ KeyOf(p, e) = KeyOf(r, f) /\ Candidate(r, f)
          /\ InWindow(ReminderInstant(r, f))
    BY <1>1, <2>1, OnlyBegins DEF Begin
  <2>3. r = p /\ f = e
    BY <2>2 DEF KeyOf
  <2>4. ~ NotHandled(p)
    BY <1>1, <2>1, <2>2, <2>3, FarEastHandled
  <2> QED BY <2>2, <2>3, <2>4 DEF Candidate
<1>2. TypeOK /\ [Next]_vars => [\A p \in Plan, e \in Endpoint : Passed(p, e)]_vars
  BY <1>1
<1> QED BY <1>2, Typed, PTL DEF Spec, FarEastUnreminded
=============================================================================
