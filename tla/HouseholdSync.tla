--------------------------- MODULE HouseholdSync ----------------------------
(***************************************************************************)
(* Devices whose users move between households: what the server does with  *)
(* a record that another household has (AdoptOrphanedID), how a device     *)
(* notices that its household has changed (the gate of run-policy.ts), and *)
(* how it follows (rebase.ts, wipeLocalData, the ownership gate), while    *)
(* its sync engine may be in the middle of a run.                          *)
(*                                                                         *)
(* A push or a pull does not say which household it is meant for: the      *)
(* server takes the one its user belongs to when the request arrives.      *)
(*                                                                         *)
(* Households are PushEngine's, one each; the steps of the engine are      *)
(* SyncEngine's.  All changes fit in one page.  What else the members of a *)
(* household do is OthersPush.                                             *)
(***************************************************************************)
EXTENDS SyncEngine

CONSTANTS
  User, Household, Device,
  NoUser, NoHousehold,
  Mobile,    \* the devices that run the mobile app
  MaxOps,    \* bound on the operation ids a device generates
  MaxEdits, MaxOthers, MaxMoves, MaxSessions, MaxFaults,
  MaxCount,  \* bounds on what may happen, by kind and in all
  UserData   \* the payloads the users enter

ASSUME OpIdAssumption == MaxOps \in Nat /\ OpId = Device \X (1..MaxOps)
ASSUME NobodyAssumption == NoUser \notin User /\ NoHousehold \notin Household
ASSUME CategoryFinite == IsFiniteSet(Category)
ASSUME DevicesAssumption == Mobile \subseteq Device /\ UserData \subseteq Payload

VARIABLES
  srv,      \* the committed state of each household
  home,     \* household_members: the household of each user
  dev,      \* the devices' databases
  meta,     \* their sync_meta: pull_cursor, last_household, owner_user_id
  app,      \* the app: who is signed in, and how far the household gate is
  cookie,   \* whose session cookie the device holds
  net,      \* the request its engine awaits
  late,     \* a push the device gave up on, still under way
  crossed,  \* history: the devices that mix households (see Crossing)
  robbed,   \* history: the households that lost a record to another
  born,     \* the ids that were generated
  count     \* history: how much has happened

vars == <<srv, home, dev, meta, app, cookie, net, late, crossed, robbed, born, count>>

Meta == [cursor : Nat, marker : Household \cup {NoHousehold},
         owner : User \cup {NoUser}]

Unowned == [cursor |-> 0, marker |-> NoHousehold, owner |-> NoUser]

\* user: who is authenticated; pending: who has signed in and is not past the
\* ownership gate.  gate: "asked" when the server has answered with household
\* `seen', "choose" or "dialog" while the user is asked what to do with the
\* data (by the gate, by the join dialog), "wiped" and "owned" in the middle
\* of a clean start.  held: the gate's check is not over; current: it was
\* passed.
App == [user : User \cup {NoUser}, pending : User \cup {NoUser},
        current : BOOLEAN, held : BOOLEAN,
        gate : {"none", "asked", "choose", "dialog", "wiped", "owned"},
        seen : Household \cup {NoHousehold}]

Closed == [user |-> NoUser, pending |-> NoUser, current |-> FALSE, held |-> FALSE,
           gate |-> "none", seen |-> NoHousehold]

\* A request: whose it is, the marker and the cursor it was made with, the
\* household that served it, and whether the database was rebased or wiped
\* since.
Idle == [phase |-> "idle", batch |-> <<>>, answers |-> <<>>, page |-> <<>>,
         who |-> NoUser, under |-> NoHousehold, cursor |-> 0,
         at |-> NoHousehold, stale |-> FALSE]

Init ==
  /\ srv = [h \in Household |-> EmptyServer]
  /\ home \in [User -> Household]
  /\ dev = [d \in Device |-> EmptyDevice(d)]
  /\ meta = [d \in Device |-> Unowned]
  /\ app = [d \in Device |-> Closed]
  /\ cookie = [d \in Device |-> NoUser]
  /\ net = [d \in Device |-> Idle]
  /\ late = [d \in Device |-> Idle]
  /\ crossed = {}
  /\ robbed = {}
  /\ born = {}
  /\ count = [edits |-> 0, others |-> 0, moves |-> 0, sessions |-> 0, faults |-> 0]

Happened == count.edits + count.others + count.moves + count.sessions + count.faults

Counts(what, max) ==
  /\ count[what] < max /\ Happened < MaxCount
  /\ count' = [count EXCEPT ![what] = @ + 1]

Peopled(h) == \E u \in User : home[u] = h

-----------------------------------------------------------------------------
(* The server: one push operation, with the other households in view.      *)

\* Mutant: whose household it is does not matter.
KeepsMutant(g) == FALSE

\* A household that has members keeps its rows.
Keeps(g) == Peopled(g)

\* The household that has the row of a record another than h wants to create.
Elsewhere(S, h, i) == {g \in Household \ {h} : Found(S[g], i)}

\* The foreign key of transactions.category_id.
Referred(S, i) ==
  \E g \in Household, t \in Transaction :
    Found(S[g], t) /\ S[g].rec[t].data.category = i

\* The state of another household's row, without its data.
Blocked(s, i) ==
  [status |-> "conflict", code |-> "SYNC_ALREADY_EXISTS", ver |-> 0,
   state |-> [s.rec[i] EXCEPT !.data = NoData]]

\* createSyncEntity with AdoptOrphanedID before the insert: the row of a
\* household without members is deleted - which fails, and with it the batch,
\* while other rows refer to it.
Pushed(a, h, w, o) ==
  LET S == a.srv
      E == IF w.action = "upsert" /\ ~ Found(S[h], w.id) /\ Found(o.srv, w.id)
           THEN Elsewhere(S, h, w.id) ELSE {}
      Answers(T, answer) ==
        [a EXCEPT !.srv = T, !.answers = Append(@, answer)]
  IN  IF ~ a.ok THEN a
      ELSE IF E = {} THEN Answers([S EXCEPT ![h] = o.srv], o.answer)
      ELSE LET g == CHOOSE g \in E : TRUE
           IN  IF Keeps(g) THEN [Answers(S, Blocked(S[g], w.id)) EXCEPT !.blocked = TRUE]
               ELSE IF Referred(S, w.id) THEN [a EXCEPT !.ok = FALSE]
               ELSE [Answers([S EXCEPT ![h] = o.srv, ![g] = Purged(@, {w.id})], o.answer)
                     EXCEPT !.robbed = @ \cup {g}]

Untouched == [srv |-> srv, answers |-> <<>>, ok |-> TRUE, blocked |-> FALSE,
              robbed |-> robbed]

\* A batch: one transaction, in household h.
Batch(h, batch, order) ==
  LET a == FoldLeft(LAMBDA b, w : Pushed(b, h, w, Apply(b.srv[h], w, order)),
                    Untouched, batch)
  IN  IF a.ok THEN a ELSE [Untouched EXCEPT !.ok = FALSE]

-----------------------------------------------------------------------------
(* Users: their data, and where they belong.                               *)

Locally(d, D) ==
  /\ D.made <= MaxOps
  /\ dev' = [dev EXCEPT ![d] = D]
  /\ UNCHANGED <<srv, home, meta, app, cookie, net, late, crossed, robbed>>

UserCreates(d, i, data) ==
  /\ Counts("edits", MaxEdits)
  /\ i \notin born /\ born' = born \cup {i}
  /\ CanWrite(dev[d], i, data)
  /\ Locally(d, LocalCreate(dev[d], i, data))

UserUpdates(d, i, data) ==
  /\ Counts("edits", MaxEdits) /\ UNCHANGED born
  /\ LiveRow(dev[d], i) /\ data # dev[d].row[i].data
  /\ CanWrite(dev[d], i, data)
  /\ Locally(d, LocalUpdate(dev[d], i, data))

UserRemoves(d, i, cascade) ==
  /\ Counts("edits", MaxEdits) /\ UNCHANGED born
  /\ LiveRow(dev[d], i)
  /\ cascade => i \in Category
  /\ i \in Category /\ ~ cascade => Referencing(dev[d], i) = {}
  /\ Locally(d, LocalRemove(dev[d], i, cascade))

UserSettles(d, i) ==
  /\ Counts("edits", MaxEdits) /\ UNCHANGED born
  /\ \/ /\ dev[d].conf[i].kind = "version"
        /\ Locally(d, KeepLocal(dev[d], i)) \/ Locally(d, TakeServer(dev[d], i))
     \/ dev[d].conf[i].kind = "deleted" /\ Locally(d, Resolved(dev[d], i))

\* Some other device of a member pushes an operation.
OthersPush(h, i, data) ==
  /\ Counts("others", MaxOthers)
  /\ Peopled(h)
  /\ i \in born => \E g \in Household : Found(srv[g], i)
  /\ born' = born \cup {i}
  /\ \E action \in {"upsert", "delete"}, order \in Orders :
       LET w == [action |-> action, id |-> i, base |-> srv[h].rec[i].ver,
                 data |-> IF action = "upsert" THEN data ELSE NoData,
                 cascade |-> FALSE]
           a == Pushed(Untouched, h, w, Perform(srv[h], w, order))
       IN  /\ a.srv # srv
           /\ srv' = a.srv
           /\ robbed' = a.robbed
  /\ UNCHANGED <<home, dev, meta, app, cookie, net, late, crossed>>

\* A user comes to another household: by joining, leaving, being removed.  A
\* join code outlives the members of its household.
Moved(u, h) ==
  /\ Counts("moves", MaxMoves)
  /\ home[u] # h
  /\ home' = [home EXCEPT ![u] = h]
  /\ UNCHANGED <<srv, dev, meta, cookie, net, late, crossed, robbed, born>>

MovesElsewhere(u, h) == Moved(u, h) /\ UNCHANGED app

\* ... or on this device, which then asks what to do with the data.
MovesHere(d, h) ==
  /\ app[d].user # NoUser /\ app[d].gate = "none"
  /\ Moved(app[d].user, h)
  /\ app' = [app EXCEPT ![d].gate = "dialog", ![d].seen = h]

-----------------------------------------------------------------------------
(* The app: signing in, and the two gates.                                 *)

Gates(d, a) ==
  /\ app' = [app EXCEPT ![d] = a]
  /\ UNCHANGED <<srv, home, net, late, robbed, born>>

\* A session: a new one, or the one that is restored when the app starts.
\* Counted as a change of session when another user's was not logged out.
Login(d, u) ==
  /\ app[d].user = NoUser /\ app[d].pending = NoUser
  /\ IF cookie[d] \in {u, NoUser} THEN UNCHANGED count ELSE Counts("sessions", MaxSessions)
  /\ cookie' = [cookie EXCEPT ![d] = u]
  /\ Gates(d, [app[d] EXCEPT !.pending = u])
  /\ UNCHANGED <<dev, meta, crossed>>

\* Authenticated: notifyAuthChange asks for the household first.
Authenticated(a) == [a EXCEPT !.user = a.pending, !.pending = NoUser]

\* ownershipGateDecision and adoptUnowned.
PassOwnership(d) ==
  /\ app[d].pending # NoUser
  /\ meta[d].owner \in {NoUser, app[d].pending}
  /\ meta' = [meta EXCEPT ![d].owner = app[d].pending]
  /\ Gates(d, Authenticated(app[d]))
  /\ UNCHANGED <<dev, cookie, crossed, count>>

\* Mutant: the operations stay.
WipedMutant(D) == [EmptyDevice(D.self) EXCEPT !.made = D.made, !.out = D.out]

\* wipeLocalData, wipeLocalDataInTx.
Wiped(D) == [EmptyDevice(D.self) EXCEPT !.made = D.made]

\* A request in flight has come to be of another time.
Outdated(d) ==
  /\ net' = [net EXCEPT ![d].stale = net[d].phase # "idle"]
  /\ crossed' = crossed \ {d}

\* rebindOwner.
Rebind(d) ==
  /\ app[d].pending # NoUser /\ meta[d].owner \notin {NoUser, app[d].pending}
  /\ dev' = [dev EXCEPT ![d] = Wiped(@)]
  /\ meta' = [meta EXCEPT ![d] = [Unowned EXCEPT !.owner = app[d].pending]]
  /\ app' = [app EXCEPT ![d] = Authenticated(@)]
  /\ Outdated(d)
  /\ UNCHANGED <<srv, home, cookie, late, robbed, born, count>>

\* Logging out, by the user or by cancelling the ownership dialog.
Logout(d) ==
  /\ Counts("sessions", MaxSessions)
  /\ app[d].user # NoUser \/ app[d].pending # NoUser
  /\ cookie' = [cookie EXCEPT ![d] = NoUser]
  /\ Gates(d, [app[d] EXCEPT !.user = NoUser, !.pending = NoUser, !.current = FALSE])
  /\ UNCHANGED <<dev, meta, crossed>>

\* ensureCurrentHousehold at a session boundary: the server is asked ...
AskHousehold(d) ==
  /\ app[d].user # NoUser /\ cookie[d] # NoUser /\ app[d].gate = "none"
  /\ Gates(d, [app[d] EXCEPT !.gate = "asked", !.held = TRUE,
                             !.seen = home[cookie[d]]])
  /\ UNCHANGED <<dev, meta, cookie, crossed, count>>

\* ... the check cannot complete ...
AskFails(d) ==
  /\ Counts("faults", MaxFaults)
  /\ app[d].gate = "asked"
  /\ Gates(d, [app[d] EXCEPT !.gate = "none", !.held = FALSE, !.current = FALSE,
                             !.seen = NoHousehold])
  /\ UNCHANGED <<dev, meta, cookie, crossed>>

Passed(a) == [a EXCEPT !.gate = "none", !.held = FALSE, !.current = TRUE,
                       !.seen = NoHousehold]

\* householdNeedsRebase does not hold.
IsCurrent(d) == meta[d].marker \in {NoHousehold, app[d].seen}

\* ... or the answer is compared with the marker.
CheckHousehold(d) ==
  /\ app[d].gate = "asked"
  /\ IF IsCurrent(d)
     THEN /\ meta' = [meta EXCEPT ![d].marker = app[d].seen]
          /\ Gates(d, Passed(app[d]))
     ELSE Gates(d, [app[d] EXCEPT !.gate = "choose"]) /\ UNCHANGED meta
  /\ UNCHANGED <<dev, cookie, crossed, count>>

\* A row that goes along is unconfirmed again.
Survivor(r) == [r EXCEPT !.sv = 0]

\* rebaseLocalDataForHousehold: tombstones, operations and conflicts go; each
\* row that stays is to be created.
Rebased(D) ==
  LET stays == {i \in Id : LiveRow(D, i)}
      bare == [D EXCEPT !.out = <<>>, !.conf = [i \in Id |-> NoConflict],
                        !.row = [i \in Id |-> IF i \in stays THEN Survivor(@[i])
                                              ELSE NoRow]]
  IN  FoldLeft(LAMBDA E, i : Enqueued(E, i, "upsert", E.row[i].data, FALSE, 0),
               bare, SetToSeq(stays \cap Category) \o SetToSeq(stays \cap Transaction))

Chooses(d) == app[d].gate \in {"choose", "dialog"}

\* Mutant: the cursor stays.
CarriedMetaMutant(m, h) == [m EXCEPT !.marker = h]

CarriedMeta(m, h) == [m EXCEPT !.marker = h, !.cursor = 0]

\* applyHouseholdChoice, "carry".
Carry(d) ==
  /\ Chooses(d)
  /\ dev' = [dev EXCEPT ![d] = Rebased(@)]
  /\ dev'[d].made <= MaxOps
  /\ meta' = [meta EXCEPT ![d] = CarriedMeta(@, app[d].seen)]
  /\ app' = [app EXCEPT ![d] = Passed(@)]
  /\ Outdated(d)
  /\ UNCHANGED <<srv, home, cookie, late, robbed, born, count>>

\* applyHouseholdChoice, "clean": three writes, one after the other.
CleanWipes(d) ==
  /\ Chooses(d)
  /\ dev' = [dev EXCEPT ![d] = Wiped(@)]
  /\ meta' = [meta EXCEPT ![d] = Unowned]
  /\ app' = [app EXCEPT ![d].gate = "wiped"]
  /\ Outdated(d)
  /\ UNCHANGED <<srv, home, cookie, late, robbed, born, count>>

CleanOwns(d) ==
  /\ app[d].gate = "wiped"
  /\ meta' = [meta EXCEPT ![d].owner = IF app[d].user = NoUser THEN @ ELSE app[d].user]
  /\ Gates(d, [app[d] EXCEPT !.gate = "owned"])
  /\ UNCHANGED <<dev, cookie, crossed, count>>

CleanStamps(d) ==
  /\ app[d].gate = "owned"
  /\ meta' = [meta EXCEPT ![d].marker = app[d].seen]
  /\ Gates(d, Passed(app[d]))
  /\ UNCHANGED <<dev, cookie, crossed, count>>

-----------------------------------------------------------------------------
(* The engine.                                                             *)

Request(d, phase, batch) ==
  [Idle EXCEPT !.phase = phase, !.batch = batch, !.who = cookie[d],
               !.under = meta[d].marker, !.cursor = meta[d].cursor]

\* The operations that await another attempt.
Retries(d) == {o.opId : o \in {p \in Range(dev[d].out) : p.tries > 0}}

\* The engine sends the next batch of a database D, or goes on to pull.
Proceeds(d, D, due) ==
  LET s == Selected(D, due)
  IN  /\ dev' = [dev EXCEPT ![d] = s.dev]
      /\ net' = [net EXCEPT ![d] = IF s.batch = <<>> THEN Request(d, "pull", <<>>)
                                   ELSE Request(d, "push", s.batch)]

\* The policy runs the engine for an authenticated user past the gate, and
\* checks no further in the session; the mobile background task runs it on
\* any database with an owner.
MayRun(d) ==
  \/ app[d].user # NoUser /\ app[d].current /\ ~ app[d].held
  \/ d \in Mobile /\ meta[d].owner # NoUser

Run(d) ==
  /\ net[d].phase = "idle" /\ MayRun(d)
  /\ \E due \in SUBSET Retries(d) : Proceeds(d, dev[d], due)
  /\ UNCHANGED <<srv, home, meta, app, cookie, late, crossed, robbed, born, count>>

\* Crossing: what was made for one household is served by another, or meets
\* what another has.
Crossing(d, c) == crossed' = IF c THEN crossed \cup {d} ELSE crossed

\* Push, for the household the user has by now.
PushArrives(d) ==
  /\ net[d].phase = "push" /\ net[d].who # NoUser /\ cookie[d] = net[d].who
  /\ \E order \in Orders :
       LET h == home[net[d].who]
           a == Batch(h, net[d].batch, order)
       IN  /\ srv' = a.srv /\ robbed' = a.robbed
           /\ net' = [net EXCEPT ![d].phase = IF a.ok THEN "pushed" ELSE "refused",
                                 ![d].answers = a.answers, ![d].at = h]
           /\ Crossing(d, a.ok /\ (a.blocked \/ h # net[d].under))
  /\ UNCHANGED <<home, dev, meta, app, cookie, late, born, count>>

LatePushArrives(d) ==
  /\ late[d].phase = "push" /\ late[d].who # NoUser /\ cookie[d] = late[d].who
  /\ late' = [late EXCEPT ![d] = Idle]
  /\ \E order \in Orders :
       LET h == home[late[d].who]
           a == Batch(h, late[d].batch, order)
       IN  /\ srv' = a.srv /\ robbed' = a.robbed
           /\ Crossing(d, a.ok /\ (a.blocked \/ h # late[d].under))
  /\ UNCHANGED <<home, dev, meta, app, cookie, net, born, count>>

\* The results are taken in, whatever the database has become.
PushReturns(d) ==
  /\ net[d].phase = "pushed"
  /\ LET D == PushTakenIn(dev[d], net[d].batch, net[d].answers)
     IN  IF AnyConfirmed(net[d].answers)
         THEN \E due \in SUBSET Retries(d) : Proceeds(d, D, due)
         ELSE /\ dev' = [dev EXCEPT ![d] = D]
              /\ net' = [net EXCEPT ![d] = Request(d, "pull", <<>>)]
  /\ Crossing(d, net[d].stale)
  /\ UNCHANGED <<srv, home, meta, app, cookie, late, robbed, born, count>>

\* The server failed on the batch: the run ends, and does not pull.
PushRefused(d) ==
  /\ net[d].phase = "refused"
  /\ net' = [net EXCEPT ![d] = Idle]
  /\ UNCHANGED <<srv, home, dev, meta, app, cookie, late, crossed, robbed, born, count>>

PullArrives(d) ==
  /\ net[d].phase = "pull" /\ net[d].who # NoUser /\ cookie[d] = net[d].who
  /\ net' = [net EXCEPT ![d].phase = "pulled", ![d].at = home[net[d].who],
                        ![d].page = Changes(srv[home[net[d].who]], net[d].cursor)]
  /\ UNCHANGED <<srv, home, dev, meta, app, cookie, late, crossed, robbed, born, count>>

PullReturns(d) ==
  /\ net[d].phase = "pulled"
  /\ dev' = [dev EXCEPT ![d] = PageTakenIn(@, net[d].page)]
  /\ dev'[d].made <= MaxOps
  /\ meta' = [meta EXCEPT ![d].cursor = IF net[d].page = <<>> THEN @
                                        ELSE Last(net[d].page).seq]
  /\ net' = [net EXCEPT ![d] = Idle]
  /\ Crossing(d, net[d].page # <<>> /\ (net[d].stale \/ net[d].at # net[d].under))
  /\ UNCHANGED <<srv, home, app, cookie, late, robbed, born, count>>

\* A session that is over: the attempts do not count, the app signs out.
Unauthorized(d) ==
  /\ net[d].phase \in {"push", "pull"}
  /\ net[d].who = NoUser \/ cookie[d] # net[d].who
  /\ dev' = [dev EXCEPT ![d] = AttemptsReverted(@, net[d].batch)]
  /\ net' = [net EXCEPT ![d] = Idle]
  /\ app' = [app EXCEPT ![d].user = NoUser, ![d].current = FALSE]
  /\ UNCHANGED <<srv, home, meta, cookie, late, crossed, robbed, born, count>>

\* The request or the answer is lost - with the app, if it stops; a push on
\* its way may still arrive.
Fails(d) ==
  /\ Counts("faults", MaxFaults)
  /\ net' = [net EXCEPT ![d] = Idle]
  /\ \/ UNCHANGED late
     \/ net[d].phase = "push" /\ late' = [late EXCEPT ![d] = net[d]]
  /\ \/ net[d].phase # "idle" /\ UNCHANGED app
     \/ app[d] # Closed /\ app' = [app EXCEPT ![d] = Closed]
  /\ UNCHANGED <<srv, home, dev, meta, cookie, crossed, robbed, born>>

Next ==
  \/ \E u \in User, h \in Household : MovesElsewhere(u, h)
  \/ \E h \in Household, i \in Id, data \in UserData :
       data \in PayloadOf(i) /\ OthersPush(h, i, data)
  \/ \E d \in Device :
       \/ \E i \in Id :
            \/ \E data \in UserData \cap PayloadOf(i) :
                 UserCreates(d, i, data) \/ UserUpdates(d, i, data)
            \/ \E cascade \in BOOLEAN : UserRemoves(d, i, cascade)
            \/ UserSettles(d, i)
       \/ \E h \in Household : MovesHere(d, h)
       \/ \E u \in User : Login(d, u)
       \/ PassOwnership(d) \/ Rebind(d) \/ Logout(d)
       \/ AskHousehold(d) \/ AskFails(d) \/ CheckHousehold(d)
       \/ Carry(d) \/ CleanWipes(d) \/ CleanOwns(d) \/ CleanStamps(d)
       \/ Run(d) \/ PushArrives(d) \/ LatePushArrives(d) \/ PushReturns(d)
       \/ PushRefused(d) \/ PullArrives(d) \/ PullReturns(d)
       \/ Unauthorized(d) \/ Fails(d)

Spec == Init /\ [][Next]_vars

-----------------------------------------------------------------------------
(* Properties.                                                             *)

\* The state has its type; a row a device has holds data of its kind, also
\* when it was answered that another household has the record.
TypeOK ==
  /\ home \in [User -> Household]
  /\ meta \in [Device -> Meta]
  /\ app \in [Device -> App]
  /\ cookie \in [Device -> User \cup {NoUser}]
  /\ crossed \subseteq Device /\ robbed \subseteq Household
  /\ \A h \in Household : srv[h].rec \in [Id -> Row]
  /\ \A d \in Device, i \in Id : dev[d].row[i] # NoRow => dev[d].row[i].data \in PayloadOf(i)

\* Whatever comes between - a rebase or a wipe under a run in flight, answers
\* and pages that arrive after it, another user - every live unconfirmed row
\* has an operation to push it, and no confirmed one has.
NothingStranded ==
  \A d \in Device, i \in Id :
    /\ OpsOf(dev[d], i) # {} => ~ Clean(dev[d], i)
    /\ LiveRow(dev[d], i) /\ ~ Clean(dev[d], i) => OpsOf(dev[d], i) # {}

CaughtUp(d, h) == \A e \in srv[h].log : e.seq <= meta[d].cursor

\* A device that has not mixed households since it was last rebased or wiped,
\* and is through with its own household, has that household's records and
\* no others: what it carried along has been created there, what it had of
\* another is gone (openspec household, Joining device chooses ...).
SettledAgrees ==
  \A d \in Device \ crossed, h \in Household \ robbed, i \in Id :
    /\ meta[d].marker = h /\ CaughtUp(d, h)
    /\ Clean(dev[d], i) /\ dev[d].conf[i].kind # "version"
    => /\ LiveRow(dev[d], i) <=> Live(srv[h], i)
       /\ Live(srv[h], i) => dev[d].row[i].data = srv[h].rec[i].data

\* A record is in one household, and leaves it only when it has no members
\* left, for a household that has some and has logged it as its own.
LeavesForGood ==
  [][\A g \in Household, i \in Id :
       Found(srv[g], i) =>
         \/ Found(srv'[g], i) /\ \A h \in Household \ {g} : ~ Found(srv'[h], i)
         \/ /\ ~ Peopled(g)
            /\ \E h \in Household \ {g} :
                 /\ Peopled(h) /\ Found(srv'[h], i)
                 /\ \E e \in srv'[h].log : e.id = i /\ e.ver = srv'[h].rec[i].ver]_vars

\* "A base-0 create whose record id exists in a household with no members
\* SHALL adopt the record ... and the create is reported as applied" (openspec
\* sync-protocol).  Of a category, which refers to nothing, with a free name.
AdoptsOrphans ==
  [][\A d \in Device : net[d].phase = "push" /\ PushArrives(d) =>
       \A k \in DOMAIN net[d].batch :
         LET w == net[d].batch[k]
             h == home[net[d].who]
         IN  /\ net[d].under = h
             /\ w.id \in Category /\ w.action = "upsert" /\ w.base = 0
             /\ ~ NameTaken(srv[h], w.id, w.data) /\ ~ Found(srv[h], w.id)
             /\ \E g \in Elsewhere(srv, h, w.id) : ~ Peopled(g)
             => net'[d].phase = "pushed" /\ net'[d].answers[k].status = "applied"]_vars
=============================================================================
