----------------------------- MODULE SyncEngine -----------------------------
(***************************************************************************)
(* The synchronous steps of a device's sync engine                         *)
(* (packages/local-data/src/sync/sync-engine.ts), each a database          *)
(* transaction between two awaits: selecting a push batch, taking in its   *)
(* results, taking in a page of pulled changes.                            *)
(***************************************************************************)
EXTENDS SyncClient, SequencesExt

-----------------------------------------------------------------------------
(* selectPushBatch.                                                        *)

\* Mutant: followers go out together with the first operation of a record.
FirstsMutant(D) == DOMAIN D.out

\* Only the first pending operation of a record goes out.
Firsts(D) ==
  {k \in DOMAIN D.out : \A j \in 1..(k - 1) : D.out[j].id # D.out[k].id}

\* The operation as it is sent: a frozen one as it was, another with the
\* record's current state and serverVersion.
Frozen(D, o) ==
  [o EXCEPT !.sent = TRUE, !.tries = 1,
            !.base = IF o.sent THEN @ ELSE D.row[o.id].sv]

Wire(D, o) ==
  [opId |-> o.opId, action |-> o.action, id |-> o.id, cascade |-> o.cascade,
   base |-> IF o.sent THEN o.base ELSE D.row[o.id].sv,
   data |-> IF o.action = "delete" \/ o.sent THEN o.data ELSE D.row[o.id].data,
   tries |-> o.tries]

\* The next batch, and the database after it was selected.  `due' are the
\* retried operations whose backoff has passed (all of them in a forced run).
Selected(D, due) ==
  LET E == Coalesced(D)
      F == {k \in Firsts(E) : E.conf[E.out[k].id].kind # "version"}
      Gone == {k \in F : ~ HasRow(E, E.out[k].id)}
      Go == {k \in F \ Gone : E.out[k].tries = 0 \/ E.out[k].opId \in due}
  IN  [dev |-> [E EXCEPT !.out = Kept([k \in DOMAIN @ |-> IF k \in Go THEN Frozen(E, @[k])
                                                           ELSE @[k]],
                                       DOMAIN @ \ Gone)],
       batch |-> Kept([k \in DOMAIN E.out |-> Wire(E, E.out[k])], Go)]

\* A 401: the attempts of the batch do not count.
AttemptsReverted(D, batch) ==
  [D EXCEPT !.out = [k \in DOMAIN @ |->
     IF \E b \in Range(batch) : b.opId = @[k].opId
     THEN [@[k] EXCEPT !.tries =
             (CHOOSE b \in Range(batch) : b.opId = D.out[k].opId).tries]
     ELSE @[k]]]

-----------------------------------------------------------------------------
(* Push results.                                                           *)

\* Mutant: the conflict is recorded and the operations dropped.
ConflictedMutant(D, w, a) ==
  Recording(DropOps(D, w.id), w.id, "version", a.state, D.row[w.id].data)

\* Mutant: the answer is taken to hold the record's data.
AdoptableMutant(w, a) ==
  /\ a.code = "SYNC_ALREADY_EXISTS" /\ w.base = 0 /\ w.action = "upsert"
  /\ a.state.ver > 0 /\ ~ a.state.deleted

\* A create that found its record there, with its data (another household's
\* record is answered without).
Adoptable(w, a) ==
  /\ a.code = "SYNC_ALREADY_EXISTS" /\ w.base = 0 /\ w.action = "upsert"
  /\ a.state.ver > 0 /\ ~ a.state.deleted /\ a.state.data # NoData

\* handlePushConflict: adopt the server's record when a create finds it
\* there, let a delete win, otherwise record a version conflict.
Conflicted(D, w, a) ==
  IF Adoptable(w, a)
  THEN DropOps(IF HasRow(D, w.id)
               THEN WithRow(D, w.id, [ver |-> a.state.ver, sv |-> a.state.ver,
                                      deleted |-> FALSE, data |-> a.state.data])
               ELSE D, w.id)
  ELSE IF a.code = "SYNC_DELETED_CONFLICT" \/ a.state.deleted
  THEN DeleteWins(D, w.id, a.state.ver)
  ELSE Recording(D, w.id, "version", a.state, D.row[w.id].data)

\* The results of a batch: conflicts as they come, confirmations at the end.
PushTakenIn(D, batch, answers) ==
  LET Conflicts(E, k) == IF answers[k].status = "conflict"
                         THEN Conflicted(E, batch[k], answers[k]) ELSE E
      Confirms(E, k) == IF answers[k].status = "applied"
                        THEN Confirmed(E, batch[k].opId, answers[k].ver) ELSE E
  IN  FoldLeftDomain(Confirms, FoldLeftDomain(Conflicts, D, batch), batch)

AnyConfirmed(answers) == \E a \in Range(answers) : a.status = "applied"

-----------------------------------------------------------------------------
(* Pulled changes.                                                         *)

\* What the server s answers: its log rows after the cursor c, in order, with
\* the records' current data.
Changes(s, c) ==
  LET after == {e \in s.log : e.seq > c}
      seqs == {e.seq : e \in after}
      Change(e) == [seq |-> e.seq, id |-> e.id, action |-> e.action, ver |-> e.ver,
                    data |-> IF e.action = "upsert" THEN s.rec[e.id].data ELSE NoData]
  IN  [n \in 1..Cardinality(seqs) |->
        Change(CHOOSE e \in after : e.seq = Nth(seqs, n))]

StateOf(ch) ==
  [ver |-> ch.ver, deleted |-> ch.action = "tombstone", data |-> ch.data]

\* Mutant: a DIRTY row is taken for a CLEAN one.
OverCleanMutant(D, ch) == TRUE

\* The pulled state may replace the local one.
OverClean(D, ch) == Clean(D, ch.id)

\* applyPullChange (and insertFromChange): one pulled change.
ChangeTakenIn(D, ch) ==
  LET i == ch.id
      r == D.row[i]
      tombstone == ch.action = "tombstone"
  IN  IF ~ HasRow(D, i)
      THEN IF tombstone \/ ch.data = NoData THEN D
           ELSE WithRow(D, i, [ver |-> ch.ver, sv |-> ch.ver,
                               deleted |-> FALSE, data |-> ch.data])
      ELSE IF ch.ver <= r.sv THEN D
      ELSE IF D.conf[i].kind # "none"
      THEN Recording(D, i, "version", StateOf(ch), r.data)
      ELSE IF OverClean(D, ch)
      THEN IF tombstone
           THEN WithRow(D, i, [ver |-> ch.ver, sv |-> ch.ver,
                               deleted |-> TRUE, data |-> r.data])
           ELSE IF ch.data = NoData THEN D
           ELSE WithRow(D, i, [ver |-> ch.ver, sv |-> ch.ver,
                               deleted |-> FALSE, data |-> ch.data])
      ELSE IF tombstone /\ r.deleted
      THEN DropOps(WithRow(D, i, [r EXCEPT !.ver = ch.ver, !.sv = ch.ver]), i)
      ELSE IF tombstone THEN DeleteWins(D, i, ch.ver)
      ELSE IF r.deleted THEN LocalDeleteWins(D, i, StateOf(ch))
      ELSE Recording(D, i, "version", StateOf(ch), r.data)

PageTakenIn(D, page) == FoldLeft(ChangeTakenIn, D, page)
=============================================================================
