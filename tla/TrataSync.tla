----------------------------- MODULE TrataSync ------------------------------
(***************************************************************************)
(* The devices of a household and its server: users mutate the local       *)
(* databases at any moment, each device's sync engine pushes and pulls     *)
(* over a network that loses requests and responses and may deliver a      *)
(* request the device has given up on, and users settle conflicts.         *)
(*                                                                         *)
(* Between two awaits the engine runs one database transaction             *)
(* (SyncEngine); a push batch is one transaction of the server             *)
(* (PushEngine).  A crash of the app loses the engine's volatile state     *)
(* only, so it is the failure of the request in flight; a rerun queued     *)
(* while a run was going on is a run that starts at once.  A pull reads    *)
(* the page and the states in one step: ChangeLogTx has the step between.  *)
(***************************************************************************)
EXTENDS SyncEngine

CONSTANTS
  Device,
  MaxOps,      \* bound on the operation ids a device generates
  MaxEdits,    \* bound on what the users create, change and remove
  MaxFailures, \* bound on requests that fail
  UserData,    \* the payloads the users enter
  PageSize     \* pull page size

ASSUME OpIdAssumption == MaxOps \in Nat /\ OpId = Device \X (1..MaxOps)
ASSUME PageAssumption == PageSize \in Nat \ {0}
ASSUME UserDataAssumption == UserData \subseteq Payload

VARIABLES
  srv,      \* the household's committed state on the server
  dev,      \* dev[d]: the device's database
  cursor,   \* cursor[d]: its pull cursor
  net,      \* net[d]: the request its engine awaits, and the response
  late,     \* late[d]: a push the device gave up on, still under way
  born,     \* the ids the devices have generated
  edits,    \* how often the users have mutated a record
  failures  \* how many requests have failed

vars == <<srv, dev, cursor, net, late, born, edits, failures>>

Idle == [phase |-> "idle", batch |-> <<>>, answers |-> <<>>,
         page |-> <<>>, more |-> FALSE]

Pushing(batch) == [Idle EXCEPT !.phase = "push", !.batch = batch]
Pulling == [Idle EXCEPT !.phase = "pull"]

Init ==
  /\ srv = EmptyServer
  /\ dev = [d \in Device |-> EmptyDevice(d)]
  /\ cursor = [d \in Device |-> 0]
  /\ net = [d \in Device |-> Idle]
  /\ late = [d \in Device |-> <<>>]
  /\ born = {}
  /\ edits = 0
  /\ failures = 0

-----------------------------------------------------------------------------
(* Users.                                                                  *)

\* A transaction of the device's own, at any point of a run.
Locally(d, D) ==
  /\ D.made <= MaxOps
  /\ dev' = [dev EXCEPT ![d] = D]
  /\ UNCHANGED <<srv, cursor, net, late, failures>>

Mutation == edits < MaxEdits /\ edits' = edits + 1

UserCreates(d, i) ==
  /\ Mutation /\ i \notin born /\ born' = born \cup {i}
  /\ \E data \in UserData \cap PayloadOf(i) :
       /\ ~ data.archived
       /\ CanWrite(dev[d], i, data)
       /\ Locally(d, LocalCreate(dev[d], i, data))

UserUpdates(d, i) ==
  /\ Mutation /\ UNCHANGED born
  /\ LiveRow(dev[d], i)
  /\ \E data \in UserData \cap PayloadOf(i) :
       /\ data # dev[d].row[i].data
       /\ CanWrite(dev[d], i, data)
       /\ Locally(d, LocalUpdate(dev[d], i, data))

UserRemoves(d, i, cascade) ==
  /\ Mutation /\ UNCHANGED born
  /\ LiveRow(dev[d], i)
  /\ cascade => i \in Category
  /\ i \in Category /\ ~ cascade => Referencing(dev[d], i) = {}
  /\ Locally(d, LocalRemove(dev[d], i, cascade))

\* The conflict centre offers two ways out of a version conflict ...
UserKeeps(d, i) ==
  /\ dev[d].conf[i].kind = "version"
  /\ Locally(d, KeepLocal(dev[d], i)) /\ UNCHANGED <<born, edits>>

UserTakes(d, i) ==
  /\ dev[d].conf[i].kind = "version"
  /\ Locally(d, TakeServer(dev[d], i)) /\ UNCHANGED <<born, edits>>

\* ... and two out of a deleted one: to dismiss it, or to restore the lost
\* edit under a new id, which may stop before the conflict is resolved.
UserDismisses(d, i) ==
  /\ dev[d].conf[i].kind = "deleted"
  /\ Locally(d, Resolved(dev[d], i)) /\ UNCHANGED <<born, edits>>

UserRestores(d, i, j) ==
  LET lost == dev[d].conf[i].local
      D == LocalCreate(dev[d], j, lost)
  IN  /\ dev[d].conf[i].kind = "deleted" /\ lost # NoData
      /\ i \in Category <=> j \in Category
      /\ j \notin born /\ born' = born \cup {j} /\ UNCHANGED edits
      /\ CanWrite(dev[d], j, lost)
      /\ Locally(d, D) \/ Locally(d, Resolved(D, i))

User(d) ==
  \/ \E i \in Id : \/ UserCreates(d, i) \/ UserUpdates(d, i)
                   \/ \E cascade \in BOOLEAN : UserRemoves(d, i, cascade)
                   \/ UserDismisses(d, i)
                   \/ \E j \in Id : UserRestores(d, i, j)

Settle(d) == \E i \in Id : UserKeeps(d, i) \/ UserTakes(d, i)

-----------------------------------------------------------------------------
(* The engine.                                                             *)

\* The pushed operations of a device that await another attempt.
Retries(d) ==
  {dev[d].out[k].opId : k \in {j \in DOMAIN dev[d].out : dev[d].out[j].tries > 0}}

\* The engine, its database now D, goes round its push loop: it sends the
\* next batch or, when there is none, goes on to pull.
Proceeds(d, D, due) ==
  \E s \in {Selected(D, due)} :
    /\ dev' = [dev EXCEPT ![d] = s.dev]
    /\ net' = [net EXCEPT ![d] =
                 IF s.batch = <<>> THEN Pulling ELSE Pushing(s.batch)]

\* run, up to the first await.
Run(d, due) ==
  /\ net[d].phase = "idle"
  /\ Proceeds(d, dev[d], due)
  /\ UNCHANGED <<srv, cursor, late, born, edits, failures>>

\* Push: one transaction for the whole batch.
Applied(s, batch, order) ==
  FoldLeft(LAMBDA acc, w : LET o == Apply(acc.srv, w, order)
                           IN  [srv |-> o.srv, answers |-> Append(acc.answers, o.answer)],
           [srv |-> s, answers |-> <<>>], batch)

PushArrives(d) ==
  /\ net[d].phase = "push"
  /\ \E order \in Orders :
       LET r == Applied(srv, net[d].batch, order)
       IN  /\ srv' = r.srv
           /\ net' = [net EXCEPT ![d].phase = "pushed", ![d].answers = r.answers]
  /\ UNCHANGED <<dev, cursor, late, born, edits, failures>>

\* A push the device gave up on arrives after all.
LatePushArrives(d) ==
  /\ late[d] # <<>>
  /\ \E order \in Orders : srv' = Applied(srv, late[d], order).srv
  /\ late' = [late EXCEPT ![d] = <<>>]
  /\ UNCHANGED <<dev, cursor, net, born, edits, failures>>

\* The results arrive: a batch that confirmed nothing ends the push loop.
PushReturns(d) ==
  /\ net[d].phase = "pushed"
  /\ \E D \in {PushTakenIn(dev[d], net[d].batch, net[d].answers)} :
       IF AnyConfirmed(net[d].answers)
       THEN \E due \in SUBSET Retries(d) : Proceeds(d, D, due)
       ELSE /\ dev' = [dev EXCEPT ![d] = D]
            /\ net' = [net EXCEPT ![d] = Pulling]
  /\ UNCHANGED <<srv, cursor, late, born, edits, failures>>

Failure == failures < MaxFailures /\ failures' = failures + 1

\* The request or the response is lost; the run ends.  A request on its way
\* may still arrive.
PushFails(d) ==
  /\ Failure
  /\ net[d].phase \in {"push", "pushed"}
  /\ net' = [net EXCEPT ![d] = Idle]
  /\ \/ UNCHANGED late
     \/ /\ net[d].phase = "push" /\ late[d] = <<>>
        /\ late' = [late EXCEPT ![d] = net[d].batch]
  /\ UNCHANGED <<srv, dev, cursor, born, edits>>

\* A 401 ends the run; it starts again after the user has logged in.
PushUnauthorized(d) ==
  /\ Failure
  /\ net[d].phase = "push"
  /\ dev' = [dev EXCEPT ![d] = AttemptsReverted(@, net[d].batch)]
  /\ net' = [net EXCEPT ![d] = Idle]
  /\ UNCHANGED <<srv, cursor, late, born, edits>>

\* Pull: a full page promises more.
PullArrives(d) ==
  /\ net[d].phase = "pull"
  /\ LET all == Changes(srv, cursor[d])
         page == IF Len(all) > PageSize THEN SubSeq(all, 1, PageSize) ELSE all
     IN  net' = [net EXCEPT ![d].phase = "pulled", ![d].page = page,
                            ![d].more = Len(page) = PageSize]
  /\ UNCHANGED <<srv, dev, cursor, late, born, edits, failures>>

\* Mutant: the page is applied, but the cursor stays.
PullReturnsMutant(d) ==
  /\ net[d].phase = "pulled"
  /\ dev' = [dev EXCEPT ![d] = PageTakenIn(@, net[d].page)]
  /\ dev'[d].made <= MaxOps
  /\ net' = [net EXCEPT ![d] = IF net[d].more THEN Pulling ELSE Idle]
  /\ UNCHANGED <<srv, cursor, late, born, edits, failures>>

\* The page is applied and the cursor advances, in one transaction.
PullReturns(d) ==
  /\ net[d].phase = "pulled"
  /\ dev' = [dev EXCEPT ![d] = PageTakenIn(@, net[d].page)]
  /\ dev'[d].made <= MaxOps
  /\ cursor' = [cursor EXCEPT ![d] = IF net[d].page = <<>> THEN @
                                     ELSE Last(net[d].page).seq]
  /\ net' = [net EXCEPT ![d] = IF net[d].more THEN Pulling ELSE Idle]
  /\ UNCHANGED <<srv, late, born, edits, failures>>

PullFails(d) ==
  /\ Failure
  /\ net[d].phase \in {"pull", "pulled"}
  /\ net' = [net EXCEPT ![d] = Idle]
  /\ UNCHANGED <<srv, dev, cursor, late, born, edits>>

Next ==
  \E d \in Device :
    \/ User(d) \/ Settle(d)
    \/ \E due \in SUBSET Retries(d) : Run(d, due)
    \/ PushArrives(d) \/ LatePushArrives(d) \/ PushReturns(d)
    \/ PushFails(d) \/ PushUnauthorized(d)
    \/ PullArrives(d) \/ PullReturns(d) \/ PullFails(d)

Spec == Init /\ [][Next]_vars

-----------------------------------------------------------------------------
(* Safety.                                                                 *)

Pending(d, i) == OpsOf(dev[d], i) # {}

\* Every database is well-formed, and an operation is about a record that
\* the device holds.
TypeOK ==
  /\ cursor \in [Device -> 0..srv.seq]
  /\ \A d \in Device :
       /\ dev[d].made \in 0..MaxOps
       /\ \A i \in Id :
            /\ dev[d].row[i].ver \in Nat /\ dev[d].row[i].sv \in Nat
            /\ HasRow(dev[d], i) => dev[d].row[i].data \in PayloadOf(i)
            /\ dev[d].conf[i].kind \in {"none", "version", "deleted"}
            /\ Pending(d, i) => HasRow(dev[d], i)

\* Design D5: a CLEAN record has no pending operation, and a live DIRTY one
\* has, so no edit stays on the device for want of an operation to push it.
DirtyIffPending ==
  \A d \in Device, i \in Id :
    /\ Pending(d, i) => ~ Clean(dev[d], i)
    /\ LiveRow(dev[d], i) /\ ~ Clean(dev[d], i) => Pending(d, i)

\* A CLEAN record is what the server has at that version: what was confirmed
\* or pulled is neither lost nor overwritten by a replay, a late request or
\* a result that comes after the user has edited on.
CleanAgrees ==
  \A d \in Device, i \in Id :
    /\ HasRow(dev[d], i) /\ Clean(dev[d], i)
    /\ dev[d].row[i].ver = srv.rec[i].ver
    => /\ dev[d].row[i].deleted = srv.rec[i].deleted
       /\ LiveRow(dev[d], i) => dev[d].row[i].data = srv.rec[i].data

\* What remove takes for a record that never left the device, the server does
\* not have: a create that may have reached it is never wiped, its delete
\* travels as a tombstone after it (hasSentOperations).
UnbornUnknown ==
  \A d \in Device, i \in Id :
    LiveRow(dev[d], i) /\ Unborn(dev[d], i) => ~ Found(srv, i)

CaughtUp(d) == \A e \in srv.log : e.seq <= cursor[d]

\* The live records of a device are those of the server.
Agrees(d, i) ==
  /\ LiveRow(dev[d], i) <=> Live(srv, i)
  /\ Live(srv, i) => dev[d].row[i].data = srv.rec[i].data

\* A device that has pulled everything, and neither waits to push a record
\* nor has a conflict about it open, agrees with the server on it.
CaughtUpAgrees ==
  \A d \in Device, i \in Id :
    CaughtUp(d) /\ Clean(dev[d], i) /\ dev[d].conf[i].kind # "version"
      => Agrees(d, i)

-----------------------------------------------------------------------------
(* Steps.                                                                  *)

\* Pull never overwrites unconfirmed local changes, and no conflict is
\* resolved by silently discarding them (openspec sync-protocol): a step of
\* the engine that changes a live DIRTY record keeps the edit in a conflict.
NoEditLost ==
  [][\A d \in Device, i \in Id :
       LET r == dev[d].row[i]
           s == dev'[d].row[i]
       IN  net'[d] # net[d] /\ LiveRow(dev[d], i) /\ ~ Clean(dev[d], i)
             => \/ s.data = r.data /\ ~ s.deleted
                \/ dev'[d].conf[i].local = r.data]_vars

-----------------------------------------------------------------------------
(* Convergence.                                                            *)

\* The server's answer to a pull, and the engine's work on both answers.
Answered(d) == PushReturns(d) \/ PullArrives(d) \/ PullReturns(d)

\* No push is under way for ever.  As the server can always answer one, this is
\* weak fairness of PushArrives, in a form that TLC need not run a batch for.
PushAnswered(d) == []<>(net[d].phase # "push")

\* Runs recur (a run on an empty outbox pulls all the same) and backoff ends,
\* a request that does not fail is answered, and users settle what they are
\* asked.  Failures end with MaxFailures.
Fairness ==
  \A d \in Device :
    /\ SF_vars(Run(d, Retries(d))) /\ WF_vars(Settle(d))
    /\ PushAnswered(d) /\ WF_vars(Answered(d))

FairSpec == Spec /\ Fairness

\* The server refuses an operation of the batch: it stays in the outbox as it
\* was sent, with the edits that follow it, and is sent again.
Refuses(d) ==
  net[d].phase = "pushed" /\ \E a \in Range(net[d].answers) : a.status = "error"

\* The device has pulled everything, and has nothing left to push or to settle
\* about the record: what is clean agrees with the server (CaughtUpAgrees).
Settled(d, i) ==
  CaughtUp(d) /\ ~ Pending(d, i) /\ dev[d].conf[i].kind # "version"

\* When the users stop, every device comes to rest over every record, unless
\* the server goes on refusing an operation: nothing but a refusal keeps an
\* outbox from draining or a cursor from the end of the log (sync-engine.ts).
Converges ==
  <>[](\A d \in Device : ~ Refuses(d))
    => <>[](\A d \in Device, i \in Id : Settled(d, i))
=============================================================================
