--------------------------- MODULE PlannedPayments --------------------------
(***************************************************************************)
(* Planned payments of one household: the plans on the server and on its   *)
(* devices, the hourly job that executes automatic plans                   *)
(* (jobs/plannedconfirm), the confirmation a user makes on a device        *)
(* (local-data/repositories/planned-payment.ts), the REST writes, and the  *)
(* sync that carries plans and the transactions made from them.            *)
(*                                                                         *)
(* The sync of one record is that of SyncClient and PushEngine, with its   *)
(* steps taken whole: a push is applied and answered in one step, for its  *)
(* delivery is SyncServer's and TrataSync's subject.  A plan's pending     *)
(* operation is then a function of its row (Pending).  References of a     *)
(* plan are taken to be live, its regularity never changes, and of its     *)
(* other fields only the mode is kept.                                     *)
(***************************************************************************)
EXTENDS Recurrence, FiniteSets

CONSTANTS
  Device, Plan,      \* devices of the household, ids of plans
  Regularity,        \* the regularity of each plan
  Sweeper,           \* sweeps of the job that may overlap
  Calendar, FirstDay,  \* the days the clock shows, and the first of them
  DueDates,          \* the dates users choose
  MaxEdits,          \* bound on what users do
  MaxAborts          \* bound on the sweeps that fail

ASSUME RegularityAssumption == Regularity \in [Plan -> Regularities]
ASSUME CalendarAssumption ==
  Calendar \subseteq Date /\ FirstDay \in Calendar /\ DueDates \subseteq Date
ASSUME BoundsAssumption == MaxEdits \in Nat /\ MaxAborts \in Nat
ASSUME SweeperIsNoDevice == Sweeper \cap Device = {}

VARIABLES
  today,   \* the day of the server's clock
  srv,     \* planned_payments
  paid,    \* the transactions made from plans that reached the server
  job,     \* each sweep of the job
  dev,     \* the plans on each device
  bills,   \* the transactions a device has made and not pushed yet
  conf,    \* the unresolved conflict of a device about a plan
  sheet,   \* the confirmation sheet open on a device
  told,    \* history: the plans some device recorded a conflict about
  edits,   \* history: how often users have written or opened a sheet
  aborts   \* history: how often a sweep has failed

server == <<today, srv, paid, job>>
device == <<dev, bills, conf, sheet>>
vars == <<today, srv, paid, job, dev, bills, conf, sheet, told, edits, aborts>>

Modes == {"manual", "auto"}

\* A series of occurrences begins when a user chooses a date (history).
Series == [no : Nat, first : Date]

\* The fields of a plan.
Fields == [nextDue : Date, anchorDate : Date, mode : Modes, series : Series]

NoFields == [nextDue |-> FirstDay, anchorDate |-> FirstDay, mode |-> "manual",
             series |-> [no |-> 0, first |-> FirstDay]]

\* Rows: version 0 means there is none.
Row == [ver : Nat, deleted : BOOLEAN, plan : Fields]
Absent == [ver |-> 0, deleted |-> FALSE, plan |-> NoFields]

LocalRow == [ver : Nat, sv : Nat, deleted : BOOLEAN, plan : Fields]
NoRow == [ver |-> 0, sv |-> 0, deleted |-> FALSE, plan |-> NoFields]

\* A transaction made from a plan: the occurrence `due' of a series the plan
\* was advanced past with it, and the date it is `dated' with.
Payment ==
  [plan : Plan, series : Nat, due : Date, dated : Date, by : Device \cup Sweeper,
   key : Nat]

Conflict == [kind : {"none", "version", "deleted"}, state : Row]
NoConflict == [kind |-> "none", state |-> Absent]

Sheet == [plan : Plan, due : Date, no : Nat]
NoSheet == [plan |-> "none", due |-> FirstDay, no |-> 0]

\* A sweep: idle, with its list of households read, or inside the locked
\* transaction with the rows and transactions it has not committed.
Sweep ==
  [step : {"idle", "listed", "locked"}, day : Date, row : [Plan -> Row],
   made : SUBSET Payment]

Idle == [step |-> "idle", day |-> FirstDay, row |-> [p \in Plan |-> Absent],
         made |-> {}]

Live(r) == r.ver > 0 /\ ~ r.deleted

Clean(r) == r.ver = r.sv

TypeOK ==
  /\ today \in Calendar
  /\ srv \in [Plan -> Row]
  /\ paid \subseteq Payment
  /\ job \in [Sweeper -> Sweep]
  /\ dev \in [Device -> [Plan -> LocalRow]]
  /\ bills \in [Device -> SUBSET Payment]
  /\ conf \in [Device -> [Plan -> Conflict]]
  /\ sheet \in [Device -> Sheet \cup {NoSheet}]
  /\ told \subseteq Plan
  /\ edits \in Nat /\ aborts \in Nat

Init ==
  /\ today = FirstDay
  /\ srv = [p \in Plan |-> Absent]
  /\ paid = {}
  /\ job = [j \in Sweeper |-> Idle]
  /\ dev = [d \in Device |-> [p \in Plan |-> NoRow]]
  /\ bills = [d \in Device |-> {}]
  /\ conf = [d \in Device |-> [p \in Plan |-> NoConflict]]
  /\ sheet = [d \in Device |-> NoSheet]
  /\ told = {}
  /\ edits = 0 /\ aborts = 0

\* The household lock is free (WithinHouseholdTx, withinLockedTx).
Unlocked == \A j \in Sweeper : job[j].step # "locked"

UserWrites == edits < MaxEdits /\ edits' = edits + 1 /\ UNCHANGED aborts

\* The series of a plan whose date is written: a new one if the date is new.
SeriesOf(f, due) ==
  IF due = f.nextDue THEN f.series ELSE [no |-> edits + 1, first |-> due]

\* A plan as it is created: the date is the anchor, the series a new one.
NewFields(due, mode) ==
  [nextDue |-> due, anchorDate |-> due, mode |-> mode,
   series |-> [no |-> edits + 1, first |-> due]]

\* A plan whose date is written: the date is the new anchor.
Redated(f, due, mode) ==
  [nextDue |-> due, anchorDate |-> due, mode |-> mode, series |-> SeriesOf(f, due)]

\* A row whose plan is written.
Written(r, f) == [r EXCEPT !.ver = @ + 1, !.plan = f]

-----------------------------------------------------------------------------
(* Days pass.                                                              *)

DayPasses ==
  \E t \in Calendar :
    /\ OnOrBefore(today, t) /\ t # today
    /\ today' = t
    /\ UNCHANGED <<srv, paid, job, dev, bills, conf, sheet, told, edits, aborts>>

-----------------------------------------------------------------------------
(* The job.                                                                *)

\* DueAutoPlannedPayments.
DueAuto(r, day) ==
  Live(r) /\ r.plan.mode = "auto" /\ OnOrBefore(r.plan.nextDue, day)

\* Mutant: the scan leaves out what is due on the day itself.
JobListsMutant(j) ==
  /\ job[j].step = "idle"
  /\ \E p \in Plan : DueAuto(srv[p], today) /\ srv[p].plan.nextDue # today
  /\ job' = [job EXCEPT ![j].step = "listed", ![j].day = today]
  /\ UNCHANGED <<today, srv, paid, device, told, edits, aborts>>

\* runOnce: the day and the households with due plans are read, unlocked.
JobLists(j) ==
  /\ job[j].step = "idle"
  /\ \E p \in Plan : DueAuto(srv[p], today)
  /\ job' = [job EXCEPT ![j].step = "listed", ![j].day = today]
  /\ UNCHANGED <<today, srv, paid, device, told, edits, aborts>>

\* executeHousehold takes the household lock and reads the plans.
JobLocks(j) ==
  /\ job[j].step = "listed" /\ Unlocked
  /\ job' = [job EXCEPT ![j].step = "locked", ![j].row = srv, ![j].made = {}]
  /\ UNCHANGED <<today, srv, paid, device, told, edits, aborts>>

\* Mutant: AdvancePlannedPayment leaves the version as it was.
AdvancedMutant(p, r) ==
  [r EXCEPT !.plan.nextDue = AdvanceNextDue(@, r.plan.anchorDate, Regularity[p])]

\* AdvancePlannedPayment to the following occurrence.
Advanced(p, r) ==
  Written(r, [r.plan EXCEPT !.nextDue =
                AdvanceNextDue(@, r.plan.anchorDate, Regularity[p])])

Executed(j, p, r) ==
  [plan |-> p, series |-> r.plan.series.no, due |-> r.plan.nextDue,
   dated |-> r.plan.nextDue, by |-> j, key |-> r.ver]

\* Mutant: catching up creates one transaction for all missed occurrences.
JobExecutesMutant(j, p) ==
  LET r == job[j].row[p]
  IN  /\ job[j].step = "locked" /\ DueAuto(r, job[j].day)
      /\ job' = [job EXCEPT ![j].row[p] = Advanced(p, r),
                            ![j].made = IF \E b \in @ : b.plan = p THEN @
                                        ELSE @ \cup {Executed(j, p, r)}]
      /\ UNCHANGED <<today, srv, paid, device, told, edits, aborts>>

\* executeOccurrence: one due occurrence of one plan.
JobExecutes(j, p) ==
  LET r == job[j].row[p]
  IN  /\ job[j].step = "locked" /\ DueAuto(r, job[j].day)
      /\ job' = [job EXCEPT ![j].row[p] = Advanced(p, r),
                            ![j].made = @ \cup {Executed(j, p, r)}]
      /\ UNCHANGED <<today, srv, paid, device, told, edits, aborts>>

\* Mutant: the plans' advancement is not in the transaction of the payments.
JobCommitsMutant(j) ==
  /\ job[j].step = "locked"
  /\ \A p \in Plan : ~ DueAuto(job[j].row[p], job[j].day)
  /\ paid' = paid \cup job[j].made
  /\ job' = [job EXCEPT ![j] = Idle]
  /\ UNCHANGED <<today, srv, device, told, edits, aborts>>

\* Nothing is due any more: transactions and advancements commit together.
JobCommits(j) ==
  /\ job[j].step = "locked"
  /\ \A p \in Plan : ~ DueAuto(job[j].row[p], job[j].day)
  /\ srv' = job[j].row
  /\ paid' = paid \cup job[j].made
  /\ job' = [job EXCEPT ![j] = Idle]
  /\ UNCHANGED <<today, device, told, edits, aborts>>

\* An error, or the server stops: the transaction is rolled back.
JobAborts(j) ==
  /\ job[j].step # "idle"
  /\ aborts < MaxAborts /\ aborts' = aborts + 1
  /\ job' = [job EXCEPT ![j] = Idle]
  /\ UNCHANGED <<today, srv, paid, device, told, edits>>

-----------------------------------------------------------------------------
(* The REST writes.                                                        *)

\* No row of the plan anywhere: ids are fresh UUIDs.
Fresh(p) == srv[p].ver = 0 /\ \A d \in Device : dev[d][p].ver = 0

RestCreates(p, due, mode) ==
  /\ UserWrites /\ Unlocked /\ Fresh(p)
  /\ srv' = [srv EXCEPT ![p] = [ver |-> 1, deleted |-> FALSE,
                                plan |-> NewFields(due, mode)]]
  /\ UNCHANGED <<today, paid, job, device, told>>

\* UpdatePlannedPayment with the version just read; a patch without a date
\* keeps date and anchor.
RestUpdates(p, mode) ==
  /\ UserWrites /\ Unlocked /\ Live(srv[p])
  /\ srv' = [srv EXCEPT ![p] = Written(@, [@.plan EXCEPT !.mode = mode])]
  /\ UNCHANGED <<today, paid, job, device, told>>

\* With a date, which is the new anchor.
RestSetsDue(p, due) ==
  /\ UserWrites /\ Unlocked /\ Live(srv[p])
  /\ srv' = [srv EXCEPT ![p] = Written(@, Redated(@.plan, due, @.plan.mode))]
  /\ UNCHANGED <<today, paid, job, device, told>>

RestDeletes(p) ==
  /\ UserWrites /\ Unlocked /\ Live(srv[p])
  /\ srv' = [srv EXCEPT ![p].ver = @ + 1, ![p].deleted = TRUE]
  /\ UNCHANGED <<today, paid, job, device, told>>

-----------------------------------------------------------------------------
(* The user of a device.                                                   *)

DeviceWrites(d, p, r) ==
  /\ dev' = [dev EXCEPT ![d][p] = r]
  /\ UNCHANGED <<server, conf, told>>

\* create.
UserCreates(d, p, due, mode) ==
  /\ UserWrites /\ Fresh(p)
  /\ DeviceWrites(d, p, [ver |-> 1, sv |-> 0, deleted |-> FALSE,
                         plan |-> NewFields(due, mode)])
  /\ UNCHANGED <<bills, sheet>>

\* update, from the edit form: it carries every field, so the date too, and
\* the date it carries becomes the anchor.
UserEdits(d, p, due, mode) ==
  LET r == dev[d][p]
  IN  /\ UserWrites /\ Live(r)
      /\ DeviceWrites(d, p, Written(r, Redated(r.plan, due, mode)))
      /\ UNCHANGED <<bills, sheet>>

\* remove: an unborn plan vanishes, another becomes a tombstone.
UserRemoves(d, p) ==
  LET r == dev[d][p]
  IN  /\ UserWrites /\ Live(r)
      /\ DeviceWrites(d, p, IF r.sv = 0 THEN NoRow
                            ELSE [r EXCEPT !.ver = @ + 1, !.deleted = TRUE])
      /\ UNCHANGED <<bills, sheet>>

\* The confirmation sheet of a manual plan opens, and keeps the plan as it
\* is.  (A sheet that is closed unused is one never opened.)
UserOpensSheet(d, p) ==
  LET r == dev[d][p]
  IN  /\ UserWrites /\ Live(r) /\ r.plan.mode = "manual" /\ sheet[d] = NoSheet
      /\ sheet' = [sheet EXCEPT ![d] = [plan |-> p, due |-> r.plan.nextDue, no |-> edits]]
      /\ UNCHANGED <<server, dev, bills, conf, told>>

\* confirmPlannedPayment: a transaction dated as the sheet says, and the plan
\* advanced from the occurrence it is at.
UserConfirms(d) ==
  LET p == sheet[d].plan
      r == dev[d][p]
  IN  /\ sheet[d] # NoSheet /\ Live(r)
      /\ DeviceWrites(d, p,
           Written(r, [r.plan EXCEPT !.nextDue =
                         LocalAdvance(@, r.plan.anchorDate, Regularity[p])]))
      /\ bills' = [bills EXCEPT ![d] = @ \cup
                    {[plan |-> p, series |-> r.plan.series.no, due |-> r.plan.nextDue,
                      dated |-> sheet[d].due, by |-> d, key |-> sheet[d].no]}]
      /\ sheet' = [sheet EXCEPT ![d] = NoSheet]
      /\ UNCHANGED <<edits, aborts>>

-----------------------------------------------------------------------------
(* Sync.                                                                   *)

\* A transaction made on a device is pushed; nothing refuses it.
PushesBill(d, b) ==
  /\ Unlocked /\ b \in bills[d]
  /\ bills' = [bills EXCEPT ![d] = @ \ {b}]
  /\ paid' = paid \cup {b}
  /\ UNCHANGED <<today, srv, job, dev, conf, sheet, told, edits, aborts>>

\* A plan has a pending operation that no version conflict holds back.
Pending(d, p) ==
  dev[d][p].ver > 0 /\ ~ Clean(dev[d][p]) /\ conf[d][p].kind # "version"

MaxOf(a, b) == IF a >= b THEN a ELSE b

ConfirmedAt(r, v) == [r EXCEPT !.ver = v, !.sv = v]

\* applyDeleteWins on a device's row.
Buried(r, v) == [r EXCEPT !.ver = v, !.sv = v, !.deleted = TRUE]

\* The plan adapter's create: the payload's anchor is not passed on.
CreatedFields(f) == [f EXCEPT !.anchorDate = f.nextDue]

\* Both sides after a push that the server applied, storing row s.
Applied(d, p, s, plan) ==
  /\ srv' = [srv EXCEPT ![p] = s]
  /\ dev' = [dev EXCEPT ![d][p] = ConfirmedAt(plan, s.ver)]
  /\ UNCHANGED <<today, paid, job, bills, conf, sheet, told, edits, aborts>>

PushesCreate(d, p) ==
  LET r == dev[d][p]
  IN  /\ Unlocked /\ Pending(d, p) /\ ~ r.deleted
      /\ r.sv = 0 /\ srv[p].ver = 0
      /\ Applied(d, p, [ver |-> 1, deleted |-> FALSE, plan |-> CreatedFields(r.plan)], r)

\* Mutant: the base version is not compared.
PushesUpdateMutant(d, p) ==
  LET r == dev[d][p]
  IN  /\ Unlocked /\ Pending(d, p) /\ ~ r.deleted /\ Live(srv[p])
      /\ Applied(d, p, [ver |-> srv[p].ver + 1, deleted |-> FALSE, plan |-> r.plan], r)

\* SyncReplacePlannedPayment: the full state, on the version it was based on.
PushesUpdate(d, p) ==
  LET r == dev[d][p]
  IN  /\ Unlocked /\ Pending(d, p) /\ ~ r.deleted
      /\ Live(srv[p]) /\ srv[p].ver = r.sv
      /\ Applied(d, p, [ver |-> r.sv + 1, deleted |-> FALSE, plan |-> r.plan], r)

\* The delete wins over what the server has; a tombstone answers its version.
PushesDelete(d, p) ==
  LET r == dev[d][p]
  IN  /\ Unlocked /\ Pending(d, p) /\ r.deleted
      /\ Applied(d, p, IF Live(srv[p])
                       THEN [srv[p] EXCEPT !.ver = @ + 1, !.deleted = TRUE]
                       ELSE srv[p], r)

\* A conflict about plan p is recorded on device d, its row becoming r.
ConflictOf(d, p, kind, state, r) ==
  /\ conf' = [conf EXCEPT ![d][p] = [kind |-> kind, state |-> state]]
  /\ dev' = [dev EXCEPT ![d][p] = r]
  /\ told' = told \cup {p}

\* The server refuses an upsert (handlePushConflict).
PushRefused(d, p) ==
  LET r == dev[d][p]
      s == srv[p]
  IN  /\ Unlocked /\ Pending(d, p) /\ ~ r.deleted
      /\ s.ver > 0 /\ (s.deleted \/ s.ver # r.sv)
      /\ IF s.deleted THEN ConflictOf(d, p, "deleted", s, Buried(r, s.ver))
         ELSE ConflictOf(d, p, "version", s, r)
      /\ UNCHANGED <<server, bills, sheet, edits, aborts>>

\* applyPullChange where the row is not there or CLEAN: it becomes the
\* server's.  A tombstone without a row is nothing.
PullsOver(d, p) ==
  LET r == dev[d][p]
      s == srv[p]
  IN  /\ s.ver > r.sv /\ conf[d][p].kind = "none"
      /\ Clean(r) /\ (r.ver > 0 \/ ~ s.deleted)
      /\ dev' = [dev EXCEPT ![d][p] =
                   IF s.deleted THEN Buried(r, s.ver)
                   ELSE [ver |-> s.ver, sv |-> s.ver, deleted |-> FALSE,
                         plan |-> s.plan]]
      /\ UNCHANGED <<server, bills, conf, sheet, told, edits, aborts>>

\* Where it is DIRTY, or a conflict about it is unresolved.
PullsAgainst(d, p) ==
  LET r == dev[d][p]
      s == srv[p]
  IN  /\ r.ver > 0 /\ s.ver > r.sv
      /\ \/ /\ conf[d][p].kind # "none"
            /\ ConflictOf(d, p, "version", s, r)
         \/ /\ conf[d][p].kind = "none" /\ ~ Clean(r)
            /\ IF s.deleted /\ r.deleted
               THEN /\ dev' = [dev EXCEPT ![d][p] = ConfirmedAt(r, s.ver)]
                    /\ UNCHANGED <<conf, told>>
               ELSE IF s.deleted
               THEN ConflictOf(d, p, "deleted", s, Buried(r, s.ver))
               ELSE IF r.deleted
               THEN ConflictOf(d, p, "deleted", s,
                               [r EXCEPT !.sv = s.ver, !.ver = MaxOf(@, s.ver + 1)])
               ELSE ConflictOf(d, p, "version", s, r)
      /\ UNCHANGED <<server, bills, sheet, edits, aborts>>

\* resolveConflictKeepLocal: the local plan, on the server's version.
UserKeepsLocal(d, p) ==
  LET v == conf[d][p].state.ver
  IN  /\ conf[d][p].kind = "version"
      /\ dev' = [dev EXCEPT ![d][p].sv = v, ![d][p].ver = MaxOf(@, v + 1)]
      /\ conf' = [conf EXCEPT ![d][p] = NoConflict]
      /\ UNCHANGED <<server, bills, sheet, told, edits, aborts>>

\* resolveConflictTakeServer.
UserTakesServer(d, p) ==
  LET s == conf[d][p].state
  IN  /\ conf[d][p].kind = "version"
      /\ dev' = [dev EXCEPT ![d][p] =
                   IF s.deleted THEN Buried(@, s.ver)
                   ELSE [ver |-> s.ver, sv |-> s.ver, deleted |-> FALSE,
                         plan |-> s.plan]]
      /\ conf' = [conf EXCEPT ![d][p] = NoConflict]
      /\ UNCHANGED <<server, bills, sheet, told, edits, aborts>>

-----------------------------------------------------------------------------
JobStep ==
  \E j \in Sweeper :
    \/ JobLists(j) \/ JobLocks(j) \/ JobCommits(j) \/ JobAborts(j)
    \/ \E p \in Plan : JobExecutes(j, p)

RestStep ==
  \E p \in Plan :
    \/ RestDeletes(p)
    \/ \E mode \in Modes : RestUpdates(p, mode)
    \/ \E due \in DueDates : RestSetsDue(p, due)
    \/ \E due \in DueDates, mode \in Modes : RestCreates(p, due, mode)

UserStep ==
  \E d \in Device :
    \/ UserConfirms(d)
    \/ \E p \in Plan :
         \/ UserRemoves(d, p) \/ UserOpensSheet(d, p)
         \/ UserKeepsLocal(d, p) \/ UserTakesServer(d, p)
         \/ \E due \in DueDates, mode \in Modes : UserCreates(d, p, due, mode)
         \/ \E mode \in Modes :
              \E due \in DueDates \cup {dev[d][p].plan.nextDue} :
                 UserEdits(d, p, due, mode)

SyncStep ==
  \E d \in Device :
    \/ \E b \in bills[d] : PushesBill(d, b)
    \/ \E p \in Plan :
         \/ PushesCreate(d, p) \/ PushesUpdate(d, p) \/ PushesDelete(d, p)
         \/ PushRefused(d, p) \/ PullsOver(d, p) \/ PullsAgainst(d, p)

Next == DayPasses \/ JobStep \/ RestStep \/ UserStep \/ SyncStep

Spec == Init /\ [][Next]_vars

\* The job is started every hour, gets the household lock in the end and
\* goes on unless it fails.
JobFairness(j) ==
  /\ WF_vars(JobLists(j)) /\ SF_vars(JobLocks(j))
  /\ WF_vars(\E p \in Plan : JobExecutes(j, p)) /\ WF_vars(JobCommits(j))

FairSpec == Spec /\ \A j \in Sweeper : JobFairness(j)

-----------------------------------------------------------------------------
(* Properties.                                                             *)

\* A due date is a date of the series of its anchor on every row: clamping
\* to a short month does not stick (AdvanceNextDue, advanceNextDue).
DueOnSeries ==
  \A p \in Plan :
    LET Fits(f) == OnSeries(f.nextDue, f.anchorDate, Regularity[p])
    IN  Fits(srv[p].plan) /\ \A d \in Device : Fits(dev[d][p].plan)

\* Every transaction made from a plan, pushed or not.
Made == paid \cup UNION {bills[d] : d \in Device}

SameOccurrence(b, c) ==
  /\ b.plan = c.plan /\ b.series = c.series
  /\ Period(b.due, Regularity[b.plan]) = Period(c.due, Regularity[c.plan])

\* Each period from the first of a series up to a due date has its
\* transaction.
PaidUpTo(p, f) ==
  \A q \in Period(f.series.first, Regularity[p])
          ..(Period(f.nextDue, Regularity[p]) - 1) :
    \E b \in Made : /\ b.plan = p /\ b.series = f.series.no
                   /\ Period(b.due, Regularity[p]) = q

\* "Occurrences SHALL NOT be skipped, merged, or collapsed": wherever a plan
\* stands, on the server or on a device, through conflicts and their
\* resolution, each occurrence it was advanced past has its transaction.
NoneMissed ==
  \A p \in Plan :
    /\ srv[p].ver > 0 => PaidUpTo(p, srv[p].plan)
    /\ \A d \in Device : dev[d][p].ver > 0 => PaidUpTo(p, dev[d][p].plan)

\* Reruns, overlapping sweeps and rollbacks never pay an occurrence twice;
\* only two confirmations unaware of each other do, and then a device is
\* told by a conflict, unless the plan was deleted.
PaidTwiceIsTold ==
  \A p \in Plan \ told :
    /\ Live(srv[p]) /\ \A d \in Device : Clean(dev[d][p])
    => \A b, c \in {e \in paid : e.plan = p} : SameOccurrence(b, c) => b = c

\* A device without pending edits of a plan that has the server's version
\* shows the server's due date and mode, whoever advanced the plan.
CleanSameDue ==
  \A d \in Device, p \in Plan :
    LET r == dev[d][p]
        s == srv[p]
    IN  r.ver > 0 /\ Clean(r) /\ r.sv = s.ver =>
          /\ r.deleted = s.deleted
          /\ ~ r.deleted => /\ r.plan.nextDue = s.plan.nextDue
                            /\ r.plan.mode = s.plan.mode

\* An advancement is never lost: while no conflict has been recorded about a
\* plan, its due date on the server moves back only when a user chooses one.
DueNeverGoesBack ==
  [][\A p \in Plan \ told' :
       LET s == srv[p]
           t == srv'[p]
       IN  Live(s) /\ Live(t) /\ s.plan.series = t.plan.series =>
             OnOrBefore(s.plan.nextDue, t.plan.nextDue)]_vars

\* A due automatic plan is executed in the end, whatever sweeps fail.
AutoExecuted ==
  \A p \in Plan : DueAuto(srv[p], today) ~> ~ DueAuto(srv[p], today)

-----------------------------------------------------------------------------
(* What the specification and comments of the code say, and the code does  *)
(* not do.                                                                 *)

\* "The anchor SHALL be the day of the date the user last set as next_due"
\* (openspec/specs/planned-payments).
AnchorIsLastSet ==
  \A p \in Plan : Live(srv[p]) => srv[p].plan.anchorDate = srv[p].plan.series.first

\* "An occurred-at date that defaults to the confirmed occurrence's scheduled
\* date" (openspec/specs/planned-payments): users here do not change it.
OccursOnItsDate == \A b \in paid : b.dated = b.due
=============================================================================
